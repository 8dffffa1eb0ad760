-------------------------- MODULE PamHandle_proofs --------------------------
(* Proofs about PamHandle for any names, objects, entries and nesting of     *)
(* callbacks.                                                                *)
EXTENDS PamHandle, SequenceTheorems, TLAPS

(* The places an item's pointers can point to.                               *)
ItemPlaces(i) ==
  {<<i, "block">>} \cup (IF i = "xauthdata" THEN {<<i, "name">>, <<i, "data">>} ELSE {})

(* The inductive invariant. First the shape of the handle, the heap apart:   *)
(* an entry, and a node, has a name of its own; only the outermost call can  *)
(* be pam_end; what it has yet to free, and what is being replaced, is in    *)
(* the list of data. Without a handle nothing leads anywhere.                *)
ItemsShape ==
  /\ items \in [Items -> SUBSET Places]
  /\ \A i \in Items : items[i] \subseteq ItemPlaces(i)

EnvShape ==
  /\ env \in [array : BOOLEAN, list : Seq(Entries)]
  /\ Len(env.list) <= MaxEnv
  /\ env.list # <<>> => env.array
  /\ NamesUnique

Distinct(s) == \A j, k \in DOMAIN s : s[j] = s[k] => j = k

DataShape ==
  /\ data \in Seq(Nodes)
  /\ \A j, k \in DOMAIN data : data[j].name = data[k].name => j = k

FrameShape(k) ==
  \/ stack[k].op = "replace" /\ Stored(stack[k].name)
  \/ /\ stack[k].op = "end" /\ k = 1
     /\ Distinct(stack[k].rest)
     /\ \A j \in DOMAIN stack[k].rest : Stored(stack[k].rest[j])
     /\ stack[k].running => stack[k].rest # <<>>

StackShape ==
  /\ stack \in Seq(Frames) /\ Len(stack) <= MaxDepth + 1
  /\ \A k \in DOMAIN stack : FrameShape(k)

OtherTypes ==
  /\ heap \in [Places -> Int]
  /\ heap[<<"list", "block">>] = list /\ list \in 0..(MaxEnv + 1)
  /\ owed \subseteq Objs
  /\ ret \in {"none", "SUCCESS", "BUF_ERR", "BAD_ITEM", "NO_MODULE_DATA"}
  /\ harm \in BOOLEAN /\ broken \in BOOLEAN

Closed ==
  /\ heap[<<"handle", "block">>] \in 0..1
  /\ ~Open => items = NoItems /\ env = NoEnv /\ data = <<>> /\ stack = <<>>

Shape == ItemsShape /\ EnvShape /\ DataShape /\ StackShape /\ OtherTypes /\ Closed

(* Then the heap, as long as there is no harm. Whatever rules are broken, a  *)
(* block that is allocated while there is a handle is one the handle's       *)
(* pointers lead to, and until pam_end all they lead to is allocated. Where  *)
(* no rule is broken, pam_end leaves just what it has yet to free.           *)
Account(p, leads, left) ==
  /\ heap[p] \in 0..1
  /\ Open /\ heap[p] = 1 => leads
  /\ Open /\ ~Ending /\ leads => heap[p] = 1
  /\ ~broken => (heap[p] = 1 <=> Open /\ left)

ItemsBook ==
  \A i \in Items : \A p \in ItemPlaces(i) : Account(p, p \in items[i], ~Ending /\ p \in items[i])

(* The environment is freed as a whole.                                      *)
EnvBook ==
  /\ Account(<<"array", "block">>, env.array, ~Ending /\ env.array)
  /\ \A n \in EnvNames : Account(<<"entry", n>>, Found(n), ~Ending /\ Found(n))
  /\ Open /\ env.array /\ heap[<<"array", "block">>] = 1 =>
       \A n \in EnvNames : Found(n) => heap[<<"entry", n>>] = 1

DataBook ==
  \A n \in DataNames : \A t \in {"node", "name"} : Account(<<t, n>>, Stored(n), n \in Left)

Books == harm \/ (ItemsBook /\ EnvBook /\ DataBook)

(* Last, where no rule is broken: pam_end runs one callback at a time, no    *)
(* name is being replaced twice, and each object has one place that owes its *)
(* cleanup, a node that holds it or a call that will store it.               *)
ObjOf(n) == data[At(n)].obj
Pending == {k \in DOMAIN stack : stack[k].op = "replace"}
Passed(n) == Ending /\ stack[1].running /\ n = Head(stack[1].rest)
LiveNames == {n \in Left : ~Replacing(n) /\ ~Passed(n)}

OneOwner ==
  /\ \A n, m \in LiveNames : ObjOf(n) = ObjOf(m) /\ ObjOf(n) \in Objs => n = m
  /\ \A j, k \in Pending : stack[j].obj = stack[k].obj /\ stack[j].obj \in Objs => j = k
  /\ \A n \in LiveNames, k \in Pending : ObjOf(n) = stack[k].obj => ObjOf(n) \notin Objs

Orderly ==
  /\ ~harm
  /\ Ending => Len(stack) = 1
  /\ \A j, k \in Pending : stack[j].name = stack[k].name => j = k
  /\ owed = Objs \cap ({ObjOf(n) : n \in LiveNames} \cup {stack[k].obj : k \in Pending})
  /\ OneOwner

IInv == Shape /\ Books /\ (broken \/ Orderly)

------------------------------------------------------------------------------
LEMMA KnownPlaces ==
  /\ <<"handle", "block">> \in Places /\ <<"array", "block">> \in Places /\ <<"list", "block">> \in Places
  /\ \A i \in Items : ItemPlaces(i) \subseteq Places
  /\ \A n \in EnvNames : <<"entry", n>> \in Places
  /\ \A n \in DataNames : \A t \in {"node", "name"} : <<t, n>> \in Places
<1>1. ASSUME NEW i \in Items, NEW p \in ItemPlaces(i) PROVE p \in Places
  BY <1>1 DEF Places, ItemPlaces
<1>2. /\ \A n \in EnvNames : <<"entry", n>> \in Places
      /\ \A n \in DataNames : \A t \in {"node", "name"} : <<t, n>> \in Places
  BY DEF Places
<1> QED
  BY <1>1, <1>2 DEF Places

(* An item's places are its own.                                             *)
LEMMA ItemPlacesApart ==
  ASSUME NEW i \in Items, NEW p \in ItemPlaces(i)
  PROVE  /\ \A j \in Items : p \in ItemPlaces(j) => j = i
         /\ p # <<"handle", "block">> /\ p # <<"array", "block">> /\ p # <<"list", "block">>
         /\ \A n : p # <<"entry", n>> /\ p # <<"node", n>> /\ p # <<"name", n>>
<1>1. \A j \in Items : \A q \in ItemPlaces(j) : q[1] = j
  BY DEF ItemPlaces
<1>2. i \notin {"handle", "array", "list", "entry", "node", "name"}
  BY DEF Items, StringItems
<1> QED
  BY <1>1, <1>2

LEMMA PlacesKinds ==
  ASSUME NEW p \in Places, p # <<"handle", "block">>, p # <<"array", "block">>, p # <<"list", "block">>
  PROVE  \/ \E i \in Items : p \in ItemPlaces(i)
         \/ \E n \in EnvNames : p = <<"entry", n>>
         \/ \E n \in DataNames, t \in {"node", "name"} : p = <<t, n>>
<1>1. CASE p \in (Items \cup {"handle", "array", "list"}) \X {"block"}
  BY <1>1 DEF ItemPlaces
<1>2. CASE p \in {"xauthdata"} \X {"name", "data"}
  <2>1. p \in ItemPlaces("xauthdata") /\ "xauthdata" \in Items
    BY <1>2 DEF ItemPlaces, Items
  <2> QED
    BY <2>1
<1>3. CASE p \in {"entry"} \X EnvNames
  BY <1>3
<1>4. CASE p \in {"node", "name"} \X DataNames
  BY <1>4
<1> QED
  BY <1>1, <1>2, <1>3, <1>4 DEF Places

LEMMA HeapEffect ==
  ASSUME NEW h \in [Places -> Int], NEW S
  PROVE  /\ Malloc(h, S) \in [Places -> Int] /\ Free(h, S) \in [Places -> Int]
         /\ \A p \in Places : Malloc(h, S)[p] = IF p \in S THEN h[p] + 1 ELSE h[p]
         /\ \A p \in Places : Free(h, S)[p] = IF p \in S THEN h[p] - 1 ELSE h[p]
  BY DEF Malloc, Free

(* What a step that leaves a part of the handle alone keeps of it.           *)
LEMMA ItemsBookStays ==
  ASSUME ItemsBook, items' = items, Open' <=> Open, Ending' <=> Ending, broken => broken',
         \A i \in Items : \A p \in ItemPlaces(i) : heap'[p] = heap[p]
  PROVE  ItemsBook'
  BY DEF ItemsBook, Account

LEMMA EnvBookStays ==
  ASSUME EnvBook, env' = env, Open' <=> Open, Ending' <=> Ending, broken => broken',
         heap'[<<"array", "block">>] = heap[<<"array", "block">>],
         \A n \in EnvNames : heap'[<<"entry", n>>] = heap[<<"entry", n>>]
  PROVE  EnvBook'
<1>1. \A n : Found(n)' <=> Found(n)
  BY DEF Found, Positions
<1> QED
  BY <1>1 DEF EnvBook, Account

LEMMA DataBookStays ==
  ASSUME DataBook, data' = data, stack' = stack, Open' <=> Open, broken => broken',
         \A n \in DataNames, t \in {"node", "name"} : heap'[<<t, n>>] = heap[<<t, n>>]
  PROVE  DataBook'
<1>1. /\ \A n : Stored(n)' <=> Stored(n)
      /\ Left' = Left /\ (Ending' <=> Ending)
  BY DEF Stored, Left, Ending
<1> QED
  BY <1>1 DEF DataBook, Account

LEMMA OrderlyStays ==
  ASSUME Orderly, data' = data, stack' = stack, owed' = owed, ~harm'
  PROVE  Orderly'
<1>1. /\ LiveNames' = LiveNames /\ Pending' = Pending /\ (Ending' <=> Ending)
      /\ \A n : ObjOf(n)' = ObjOf(n)
  BY DEF LiveNames, Pending, Ending, Left, Replacing, Passed, ObjOf, At, Stored
<1> QED
  BY <1>1 DEF Orderly, OneOwner

LEMMA ShapesStay ==
  /\ ItemsShape /\ items' = items => ItemsShape'
  /\ EnvShape /\ env' = env => EnvShape'
  /\ DataShape /\ data' = data => DataShape'
  /\ StackShape /\ data' = data /\ stack' = stack => StackShape'
<1>1. ASSUME EnvShape, env' = env PROVE EnvShape'
  BY <1>1 DEF EnvShape, NamesUnique
<1>2. ASSUME StackShape, data' = data, stack' = stack PROVE StackShape'
  BY <1>2 DEF StackShape, FrameShape, Stored, Distinct
<1> QED
  BY <1>1, <1>2 DEF ItemsShape, DataShape

------------------------------------------------------------------------------
LEMMA InvInit == Init => IInv
<1> SUFFICES ASSUME Init PROVE IInv
  OBVIOUS
<1>1. /\ ~Open /\ \A p \in Places : heap[p] = 0
      /\ <<"handle", "block">> \in Places /\ <<"list", "block">> \in Places /\ <<"array", "block">> \in Places
  <2>1. \A p \in Places : heap[p] = 0
    BY DEF Init
  <2> QED
    BY <2>1, KnownPlaces DEF Open
<1>2. ~Ending /\ Left = {} /\ Pending = {} /\ LiveNames = {}
  BY DEF Init, Ending, Left, Pending, LiveNames
<1>3. ItemsShape /\ EnvShape /\ DataShape
  BY HandleAssumption DEF Init, ItemsShape, EnvShape, DataShape, NoItems, NoEnv, NamesUnique
<1>4. StackShape
  BY HandleAssumption DEF Init, StackShape
<1>5. OtherTypes /\ Closed
  <2>1. heap \in [Places -> Int] /\ heap[<<"handle", "block">>] = 0 /\ heap[<<"list", "block">>] = 0
    BY <1>1 DEF Init
  <2>2. 0 \in 0..(MaxEnv + 1)
    BY HandleAssumption
  <2>3. OtherTypes
    BY <2>1, <2>2 DEF Init, OtherTypes
  <2> QED
    BY <2>1, <2>3 DEF Init, Closed
<1>6. ItemsBook
  BY <1>1, <1>2, KnownPlaces DEF ItemsBook, Account
<1>7. EnvBook
  BY <1>1, <1>2, KnownPlaces DEF EnvBook, Account
<1>8. DataBook
  <2>1. \A n \in DataNames : \A t \in {"node", "name"} : heap[<<t, n>>] = 0
    BY <1>1, KnownPlaces
  <2>2. ASSUME NEW n \in DataNames, NEW t \in {"node", "name"}
        PROVE  Account(<<t, n>>, Stored(n), n \in Left)
    <3>1. heap[<<t, n>>] = 0 /\ ~Open
      BY <1>1, <2>1
    <3> QED
      BY <3>1 DEF Account
  <2> QED
    BY <2>2 DEF DataBook
<1>9. Orderly
  BY <1>2 DEF Init, Orderly, OneOwner
<1> QED
  BY <1>3, <1>4, <1>5, <1>6, <1>7, <1>8, <1>9 DEF IInv, Shape, Books

(* A call by the owner or by a callback finds a handle and no harm done, and *)
(* where it keeps the rules pam_end is not running.                          *)
LEMMA Used ==
  ASSUME IInv, Uses(TRUE)
  PROVE  /\ Open /\ ~harm /\ broken' \in BOOLEAN /\ (broken => broken')
         /\ ~broken' => ~broken /\ ~Ending /\ Orderly
         /\ Shape /\ ItemsBook /\ EnvBook /\ DataBook
<1>1. broken \in BOOLEAN /\ Open /\ ~harm /\ broken' = (broken \/ Ending)
  BY DEF IInv, Shape, OtherTypes, Uses, Usable
<1>2. Ending \in BOOLEAN
  BY DEF Ending
<1> QED
  BY <1>1, <1>2 DEF IInv, Books

(* Until pam_end, nothing the handle's pointers lead to is free.             *)
LEMMA Allocated ==
  ASSUME Shape, ItemsBook, EnvBook, DataBook, Open, ~Ending
  PROVE  /\ \A i \in Items : ~Dangles(items[i])
         /\ ~EnvDangles
         /\ \A n \in DataNames : Stored(n) => ~Dangles(Node(n))
         /\ \A n \in DataNames : ~Dangles(Visited(n))
<1>1. ASSUME NEW i \in Items PROVE ~Dangles(items[i])
  BY <1>1 DEF Shape, ItemsShape, ItemsBook, Account, Dangles
<1>2. ~EnvDangles
  <2>1. env.array => heap[<<"array", "block">>] = 1
    BY DEF EnvBook, Account
  <2>2. \A p \in Here("array") : p = <<"array", "block">>
    BY DEF Here
  <2> QED
    BY <2>1, <2>2 DEF EnvDangles, Dangles
<1>3. ASSUME NEW n \in DataNames, Stored(n) PROVE ~Dangles(Node(n))
  <2>1. \A t \in {"node", "name"} : heap[<<t, n>>] = 1
    BY <1>3 DEF DataBook, Account
  <2>2. \A p \in Node(n) : p = <<"node", n>> \/ p = <<"name", n>>
    BY DEF Node
  <2> QED
    BY <2>1, <2>2 DEF Dangles
<1>4. ASSUME NEW n \in DataNames PROVE ~Dangles(Visited(n))
  <2>1. \A k \in DOMAIN data : data[k].name \in DataNames /\ Stored(data[k].name)
    <3>1. \A k \in DOMAIN data : data[k] \in Nodes
      BY DEF Shape, DataShape
    <3> QED
      BY <3>1 DEF Nodes, Stored
  <2>2. \A k \in DOMAIN data : ~Dangles(Node(data[k].name))
    BY <1>3, <2>1
  <2> QED
    BY <2>2 DEF Visited, Dangles
<1> QED
  BY <1>1, <1>2, <1>3, <1>4

(* A call that leaves the data alone keeps its books where it keeps those of *)
(* the items and of the environment.                                         *)
LEMMA QuietKeeps ==
  ASSUME IInv, Uses(TRUE), UNCHANGED <<data, stack, owed>>, harm' \in BOOLEAN, ~Ending => ~harm',
         ret' \in {"none", "SUCCESS", "BUF_ERR", "BAD_ITEM", "NO_MODULE_DATA"},
         heap' \in [Places -> Int], list' \in 0..(MaxEnv + 1), heap'[<<"list", "block">>] = list',
         heap'[<<"handle", "block">>] = heap[<<"handle", "block">>],
         \A n \in DataNames, t \in {"node", "name"} : heap'[<<t, n>>] = heap[<<t, n>>],
         ItemsShape', EnvShape', ~harm' => ItemsBook' /\ EnvBook'
  PROVE  IInv'
<1>0. /\ Open /\ ~harm /\ broken' \in BOOLEAN /\ (broken => broken')
      /\ ~broken' => ~broken /\ ~Ending /\ Orderly
      /\ Shape /\ DataBook
  BY Used
<1>1. Open' <=> Open
  BY DEF Open
<1>2. Shape'
  <2>1. OtherTypes'
    BY <1>0 DEF Shape, OtherTypes
  <2>2. Closed'
    BY <1>0, <1>1 DEF Shape, Closed
  <2> QED
    BY <1>0, <2>1, <2>2, ShapesStay DEF Shape
<1>3. DataBook'
  BY <1>0, <1>1, DataBookStays
<1>4. broken' \/ Orderly'
  BY <1>0, OrderlyStays
<1> QED
  BY <1>2, <1>3, <1>4 DEF IInv, Books

LEMMA QuietOpen ==
  ASSUME stack' = stack, heap'[<<"handle", "block">>] = heap[<<"handle", "block">>]
  PROVE  (Open' <=> Open) /\ (Ending' <=> Ending)
  BY DEF Open, Ending

(* The calls that only look.                                                 *)
LEMMA LookKeeps ==
  ASSUME IInv, Uses(TRUE), UNCHANGED <<items, env, data, stack, heap, list, owed>>,
         ret' \in {"SUCCESS", "NO_MODULE_DATA"}, harm' \in BOOLEAN, ~Ending => ~harm'
  PROVE  IInv'
<1>0. /\ Shape /\ ItemsBook /\ EnvBook /\ (broken => broken')
      /\ (Open' <=> Open) /\ (Ending' <=> Ending)
  BY Used, QuietOpen
<1>1. ItemsShape' /\ EnvShape'
  BY <1>0, ShapesStay DEF Shape
<1>2. ItemsBook' /\ EnvBook'
  BY <1>0, ItemsBookStays, EnvBookStays
<1>3. /\ heap' \in [Places -> Int] /\ list' \in 0..(MaxEnv + 1) /\ heap'[<<"list", "block">>] = list'
  BY <1>0 DEF Shape, OtherTypes
<1> QED
  BY <1>1, <1>2, <1>3, QuietKeeps

LEMMA DanglesBoolean == \A S : Dangles(S) \in BOOLEAN
  BY DEF Dangles

LEMMA PamGetItemKeeps ==
  ASSUME IInv, NEW i \in Items, PamGetItem(i)
  PROVE  IInv'
<1>1. ~Ending => ~harm'
  BY Used, Allocated DEF PamGetItem
<1> QED
  BY <1>1, LookKeeps, DanglesBoolean DEF PamGetItem

LEMMA PamGetEnvKeeps ==
  ASSUME IInv, PamGetEnv
  PROVE  IInv'
<1>1. ~Ending => ~harm'
  BY Used, Allocated DEF PamGetEnv
<1>2. harm' \in BOOLEAN
  BY DEF PamGetEnv, EnvDangles
<1> QED
  BY <1>1, <1>2, LookKeeps DEF PamGetEnv

LEMMA PamGetDataKeeps ==
  ASSUME IInv, NEW n \in DataNames, PamGetData(n)
  PROVE  IInv'
<1>1. ~Ending => ~harm'
  BY Used, Allocated DEF PamGetData
<1> QED
  BY <1>1, LookKeeps, DanglesBoolean DEF PamGetData

------------------------------------------------------------------------------
(* What a copy makes is at its item's places, and nothing if it fails.       *)
LEMMA CopyMade ==
  ASSUME NEW i \in Items, NEW src, NEW parts \in Parts(i), NEW c \in Copy(i, src, parts)
  PROVE  c.made \subseteq ItemPlaces(i) /\ (~c.ok => c.made = {})
<1>1. Blocks(i, parts) \subseteq ItemPlaces(i)
  BY DEF Blocks, ItemPlaces, Parts
<1> QED
  BY <1>1 DEF Copy, DupItem

LEMMA PamSetItemKeeps ==
  ASSUME IInv, NEW i \in Items, NEW src \in Sources(i), NEW parts \in Parts(i), PamSetItem(i, src, parts)
  PROVE  IInv'
<1>0. /\ Uses(TRUE) /\ Open /\ ~harm /\ (broken => broken')
      /\ ~broken' => ~broken /\ ~Ending
      /\ Shape /\ ItemsBook /\ EnvBook /\ DataBook
      /\ UNCHANGED <<env, data, stack, list, owed>>
  BY Used DEF PamSetItem
<1>a. PICK c \in Copy(i, src, parts) :
       \/ /\ c.ok
          /\ heap' = Free(Malloc(heap, c.made), items[i])
          /\ items' = [items EXCEPT ![i] = c.made]
          /\ ret' = "SUCCESS"
          /\ harm' = (Dangles(Read(src)) \/ Dangles(items[i]))
       \/ /\ ~c.ok
          /\ heap' = Malloc(heap, c.made)
          /\ ret' = "BUF_ERR"
          /\ harm' = Dangles(Read(src))
          /\ UNCHANGED items
  BY DEF PamSetItem
<1>b. c.made \subseteq ItemPlaces(i) /\ (~c.ok => c.made = {})
  BY CopyMade
<1>1. /\ items \in [Items -> SUBSET Places] /\ \A j \in Items : items[j] \subseteq ItemPlaces(j)
      /\ heap \in [Places -> Int] /\ c.made \subseteq Places /\ items[i] \subseteq ItemPlaces(i)
  BY <1>0, <1>b, KnownPlaces DEF Shape, ItemsShape, OtherTypes
<1>2. harm' \in BOOLEAN /\ ret' \in {"SUCCESS", "BUF_ERR"}
  BY <1>a, DanglesBoolean
<1>3. ~Ending => ~harm'
  <2>1. Read(src) = {} \/ \E j \in Items : Read(src) = items[j]
    BY DEF Read, Items
  <2>2. ~Dangles({})
    BY DEF Dangles
  <2> QED
    BY <1>0, <1>a, <2>1, <2>2, Allocated
<1>4. /\ items' \in [Items -> SUBSET Places]
      /\ \A j \in Items : items'[j] = IF j = i /\ c.ok THEN c.made ELSE items[j]
  <2>1. CASE c.ok
    BY <1>1, <1>a, <2>1
  <2>2. CASE ~c.ok
    BY <1>1, <1>a, <2>2
  <2> QED
    BY <2>1, <2>2
<1>5. /\ heap' \in [Places -> Int]
      /\ \A p \in Places : heap'[p] =
           IF ~c.ok THEN heap[p]
           ELSE (IF p \in c.made THEN heap[p] + 1 ELSE heap[p]) - (IF p \in items[i] THEN 1 ELSE 0)
  <2>1. /\ Malloc(heap, c.made) \in [Places -> Int]
        /\ \A p \in Places : Malloc(heap, c.made)[p] = IF p \in c.made THEN heap[p] + 1 ELSE heap[p]
    BY <1>1, HeapEffect
  <2>2. CASE c.ok
    <3>1. heap' = Free(Malloc(heap, c.made), items[i])
      BY <1>a, <2>2
    <3>2. /\ heap' \in [Places -> Int]
          /\ \A p \in Places : heap'[p] = IF p \in items[i] THEN Malloc(heap, c.made)[p] - 1 ELSE Malloc(heap, c.made)[p]
      BY <2>1, <3>1, HeapEffect
    <3>3. \A p \in Places : heap[p] \in Int /\ Malloc(heap, c.made)[p] \in Int
      BY <1>1, <2>1
    <3> QED
      BY <2>1, <2>2, <3>2, <3>3
  <2>3. CASE ~c.ok
    BY <1>a, <1>b, <2>1, <2>3
  <2> QED
    BY <2>2, <2>3
<1>6. \A p \in Places : p \notin ItemPlaces(i) => heap'[p] = heap[p]
  BY <1>1, <1>5, <1>b
<1>7. /\ heap'[<<"handle", "block">>] = heap[<<"handle", "block">>]
      /\ heap'[<<"array", "block">>] = heap[<<"array", "block">>]
      /\ heap'[<<"list", "block">>] = heap[<<"list", "block">>]
      /\ \A n \in EnvNames : heap'[<<"entry", n>>] = heap[<<"entry", n>>]
      /\ \A n \in DataNames, t \in {"node", "name"} : heap'[<<t, n>>] = heap[<<t, n>>]
  BY <1>6, KnownPlaces, ItemPlacesApart
<1>8. (Open' <=> Open) /\ (Ending' <=> Ending)
  BY <1>0, <1>7, QuietOpen
<1>9. ItemsShape' /\ EnvShape'
  BY <1>0, <1>1, <1>4, <1>b, ShapesStay DEF Shape, ItemsShape
<1>10. EnvBook'
  BY <1>0, <1>7, <1>8, EnvBookStays
<1>11. ASSUME ~harm' PROVE ItemsBook'
  <2> SUFFICES ASSUME NEW j \in Items, NEW p \in ItemPlaces(j)
               PROVE  Account(p, p \in items[j], ~Ending /\ p \in items[j])'
    BY DEF ItemsBook
  <2>1. Account(p, p \in items[j], ~Ending /\ p \in items[j]) /\ p \in Places /\ heap[p] \in 0..1
    BY <1>0, KnownPlaces DEF ItemsBook, Account
  <2>2. CASE j = i /\ c.ok
    <3>1. p \in items[i] => heap[p] = 1
      <4>1. ~Dangles(items[i])
        BY <1>11, <1>a, <2>2
      <4> QED
        BY <2>1, <4>1 DEF Dangles
    <3>2. p \notin items[i] => heap[p] = 0
      BY <1>0, <2>1, <2>2 DEF Account
    <3>3. heap'[p] = IF p \in c.made THEN 1 ELSE 0
      BY <1>5, <2>1, <2>2, <3>1, <3>2
    <3>4. items'[j] = c.made
      BY <1>4, <2>2
    <3> QED
      BY <1>0, <1>8, <3>3, <3>4 DEF Account
  <2>3. CASE ~(j = i /\ c.ok)
    <3>1. heap'[p] = heap[p]
      BY <1>5, <1>6, <2>1, <2>3, ItemPlacesApart
    <3>2. items'[j] = items[j]
      BY <1>4, <2>3
    <3> QED
      BY <1>0, <1>8, <2>1, <3>1, <3>2 DEF Account
  <2> QED
    BY <2>2, <2>3
<1>12. list' \in 0..(MaxEnv + 1) /\ heap'[<<"list", "block">>] = list'
  BY <1>0, <1>7 DEF Shape, OtherTypes
<1> QED
  BY <1>0, <1>2, <1>3, <1>5, <1>7, <1>9, <1>10, <1>11, <1>12, QuietKeeps

------------------------------------------------------------------------------
(* The environment: an entry of a name is the only one.                      *)
LEMMA Entry ==
  ASSUME EnvShape, NEW n, Found(n)
  PROVE  /\ Position(n) \in 1..Len(env.list) /\ env.list[Position(n)].name = n
         /\ \A k \in 1..Len(env.list) : env.list[k].name = n => k = Position(n)
         /\ Len(env.list) \in Nat /\ env.list \in Seq(Entries) /\ DOMAIN env.list = 1..Len(env.list)
<1>1. env.list \in Seq(Entries) /\ Len(env.list) \in Nat /\ DOMAIN env.list = 1..Len(env.list)
  BY DEF EnvShape
<1>2. PICK k \in 1..Len(env.list) : env.list[k].name = n
  BY <1>1 DEF Found, Positions
<1>3. \A j \in 1..Len(env.list) : env.list[j].name = n => j = k
  BY <1>1, <1>2 DEF EnvShape, NamesUnique
<1>4. k \in Positions(n) /\ \A j \in Positions(n) : k <= j /\ j = k
  BY <1>1, <1>2, <1>3 DEF Positions
<1>5. Position(n) = k
  BY <1>4 DEF Position
<1> QED
  BY <1>1, <1>2, <1>3, <1>5

(* What is left once it is deleted.                                          *)
LEMMA Deleted ==
  ASSUME EnvShape, NEW n, Found(n), env' = [env EXCEPT !.list = Without(Position(n))]
  PROVE  /\ EnvShape' /\ env'.array = env.array
         /\ \A m : Found(m)' <=> Found(m) /\ m # n
<1> DEFINE p == Position(n)
           s == env.list
           t == Without(Position(n))
<1>1. /\ p \in 1..Len(s) /\ s[p].name = n /\ Len(s) \in Nat /\ s \in Seq(Entries) /\ DOMAIN s = 1..Len(s)
      /\ \A k \in 1..Len(s) : s[k].name = n => k = p
  BY Entry
<1>2. /\ t \in Seq(Entries) /\ Len(t) = Len(s) - 1 /\ DOMAIN t = 1..(Len(s) - 1)
      /\ \A k \in 1..(Len(s) - 1) : t[k] = IF k < p THEN s[k] ELSE s[k + 1]
  <2> DEFINE a == SubSeq(s, 1, p - 1)
             b == SubSeq(s, p + 1, Len(s))
  <2>1. a \in Seq(Entries) /\ Len(a) = p - 1 /\ \A k \in 1..(p - 1) : a[k] = s[k]
    BY <1>1
  <2>2. b \in Seq(Entries) /\ Len(b) = Len(s) - p /\ \A k \in 1..(Len(s) - p) : b[k] = s[p + k]
    BY <1>1
  <2>3. t = a \o b
    BY DEF Without
  <2> HIDE DEF p, s, t, a, b
  <2>4. /\ t \in Seq(Entries) /\ Len(t) = Len(a) + Len(b) /\ DOMAIN t = 1..(Len(a) + Len(b))
        /\ \A k \in 1..(Len(a) + Len(b)) : t[k] = IF k <= Len(a) THEN a[k] ELSE b[k - Len(a)]
    <3>1. /\ a \o b \in Seq(Entries) /\ Len(a \o b) = Len(a) + Len(b)
          /\ \A k \in 1..(Len(a) + Len(b)) : (a \o b)[k] = IF k <= Len(a) THEN a[k] ELSE b[k - Len(a)]
      BY <2>1, <2>2, ConcatProperties
    <3> QED
      BY <2>3, <3>1, LenProperties
  <2>5. Len(a) + Len(b) = Len(s) - 1
    BY <1>1, <2>1, <2>2
  <2>6. ASSUME NEW k \in 1..(Len(s) - 1) PROVE t[k] = IF k < p THEN s[k] ELSE s[k + 1]
    <3>1. CASE k < p
      BY <1>1, <2>1, <2>2, <2>4, <3>1
    <3>2. CASE ~(k < p)
      <4>1. k - (p - 1) \in 1..(Len(s) - p) /\ p + (k - (p - 1)) = k + 1 /\ ~(k <= Len(a))
        BY <1>1, <2>1, <3>2
      <4>2. t[k] = b[k - (p - 1)]
        BY <2>1, <2>4, <2>5, <4>1
      <4> QED
        BY <2>2, <3>2, <4>1, <4>2
    <3> QED
      BY <3>1, <3>2
  <2> QED
    BY <2>4, <2>5, <2>6
<1>3. env'.list = t /\ env'.array = env.array /\ env' \in [array : BOOLEAN, list : Seq(Entries)]
  BY <1>2 DEF EnvShape
<1> HIDE DEF p, t
<1>4. \A m : Found(m) <=> \E k \in 1..Len(s) : s[k].name = m
  BY <1>1 DEF Found, Positions
<1>5. \A m : Found(m)' <=> \E k \in 1..(Len(s) - 1) : t[k].name = m
  BY <1>2, <1>3 DEF Found, Positions
<1>6. ASSUME NEW m, Found(m)' PROVE Found(m) /\ m # n
  <2>1. PICK k \in 1..(Len(s) - 1) : t[k].name = m
    BY <1>5, <1>6
  <2>2. PICK j \in 1..Len(s) : j # p /\ s[j].name = m
    <3>1. CASE k < p
      BY <1>1, <1>2, <2>1, <3>1
    <3>2. CASE ~(k < p)
      <4>1. k + 1 \in 1..Len(s) /\ k + 1 # p /\ s[k + 1].name = m
        BY <1>1, <1>2, <2>1, <3>2
      <4> QED
        BY <4>1
    <3> QED
      BY <3>1, <3>2
  <2> QED
    BY <1>1, <1>4, <2>2
<1>7. ASSUME NEW m, Found(m), m # n PROVE Found(m)'
  <2>1. PICK j \in 1..Len(s) : s[j].name = m
    BY <1>4, <1>7
  <2>2. j # p
    BY <1>1, <1>7, <2>1
  <2>3. CASE j < p
    <3>1. j \in 1..(Len(s) - 1) /\ t[j].name = m
      BY <1>1, <1>2, <2>1, <2>3
    <3> QED
      BY <1>5, <3>1
  <2>4. CASE j > p
    <3>1. j - 1 \in 1..(Len(s) - 1) /\ t[j - 1] = s[(j - 1) + 1] /\ (j - 1) + 1 = j
      BY <1>1, <1>2, <2>1, <2>4
    <3> QED
      BY <1>5, <2>1, <3>1
  <2> QED
    BY <1>1, <2>1, <2>2, <2>3, <2>4
<1>8. NamesUnique'
  <2> SUFFICES ASSUME NEW j \in 1..(Len(s) - 1), NEW k \in 1..(Len(s) - 1), t[j].name = t[k].name PROVE j = k
    BY <1>2, <1>3 DEF NamesUnique
  <2> DEFINE up(x) == IF x < p THEN x ELSE x + 1
  <2>1. \A x \in 1..(Len(s) - 1) : up(x) \in 1..Len(s) /\ t[x] = s[up(x)]
    BY <1>1, <1>2
  <2>2. /\ t[j].name = s[up(j)].name /\ t[k].name = s[up(k)].name
        /\ up(j) \in 1..Len(s) /\ up(k) \in 1..Len(s)
    BY <2>1
  <2> HIDE DEF up
  <2>3. up(j) = up(k)
    BY <1>1, <2>2 DEF EnvShape, NamesUnique
  <2>4. j = k
    BY <1>1, <2>3 DEF up
  <2> QED
    BY <2>4
<1>9. Len(env'.list) <= MaxEnv /\ (env'.list # <<>> => env'.array)
  <2>1. env.array /\ Len(s) <= MaxEnv
    BY <1>1 DEF EnvShape
  <2> QED
    BY <1>1, <1>2, <1>3, <2>1, HandleAssumption
<1> QED
  BY <1>3, <1>6, <1>7, <1>8, <1>9 DEF EnvShape

(* A value that is replaced changes no name.                                 *)
LEMMA Replaced ==
  ASSUME EnvShape, NEW n, Found(n), NEW v \in Values,
         env' = [env EXCEPT !.list[Position(n)].value = v]
  PROVE  /\ EnvShape' /\ env'.array = env.array
         /\ \A m : Found(m)' <=> Found(m)
<1> DEFINE p == Position(n)
           s == env.list
<1>1. /\ p \in 1..Len(s) /\ Len(s) \in Nat /\ s \in Seq(Entries) /\ DOMAIN s = 1..Len(s)
  BY Entry
<1>2. env' = [env EXCEPT !.list = [s EXCEPT ![p] = [s[p] EXCEPT !.value = v]]]
  OBVIOUS
<1> DEFINE t == [s EXCEPT ![p] = [s[p] EXCEPT !.value = v]]
<1>3. s[p] \in Entries
  BY <1>1
<1>4. [s[p] EXCEPT !.value = v] \in Entries /\ [s[p] EXCEPT !.value = v].name = s[p].name
  BY <1>3 DEF Entries
<1>5. /\ t \in Seq(Entries) /\ Len(t) = Len(s) /\ DOMAIN t = DOMAIN s
      /\ \A k \in DOMAIN s : t[k].name = s[k].name
  BY <1>1, <1>4, ExceptSeq
<1>6. env'.list = t /\ env'.array = env.array /\ env' \in [array : BOOLEAN, list : Seq(Entries)]
  BY <1>2, <1>5 DEF EnvShape
<1> HIDE DEF t
<1>7. \A m : Found(m)' <=> Found(m)
  BY <1>5, <1>6 DEF Found, Positions
<1>8. NamesUnique'
  BY <1>5, <1>6 DEF EnvShape, NamesUnique
<1>9. env'.list # <<>> => env'.array
  BY <1>1, <1>6 DEF EnvShape
<1> QED
  BY <1>5, <1>6, <1>7, <1>8, <1>9 DEF EnvShape

(* A new entry is of a name that has none.                                   *)
LEMMA Appended ==
  ASSUME EnvShape, NEW n \in EnvNames, ~Found(n), NEW v \in Values, Len(env.list) < MaxEnv,
         env' = [array |-> TRUE, list |-> Append(env.list, [name |-> n, value |-> v])]
  PROVE  /\ EnvShape' /\ env'.array
         /\ \A m : Found(m)' <=> Found(m) \/ m = n
<1> DEFINE s == env.list
           t == Append(s, [name |-> n, value |-> v])
<1>1. s \in Seq(Entries) /\ Len(s) \in Nat /\ DOMAIN s = 1..Len(s)
  BY DEF EnvShape
<1>2. [name |-> n, value |-> v] \in Entries
  BY DEF Entries
<1>3. /\ t \in Seq(Entries) /\ Len(t) = Len(s) + 1 /\ DOMAIN t = 1..(Len(s) + 1)
      /\ \A k \in 1..Len(s) : t[k] = s[k]
      /\ t[Len(s) + 1].name = n
  BY <1>1, <1>2
<1>4. env'.list = t /\ env'.array /\ env' \in [array : BOOLEAN, list : Seq(Entries)]
  BY <1>3
<1> HIDE DEF t
<1>5. \A m : Found(m) <=> \E k \in 1..Len(s) : s[k].name = m
  BY <1>1 DEF Found, Positions
<1>6. \A m : Found(m)' <=> \E k \in 1..(Len(s) + 1) : t[k].name = m
  <2>1. DOMAIN env'.list = 1..(Len(s) + 1) /\ env'.list = t
    BY <1>3, <1>4
  <2> QED
    BY <2>1 DEF Found, Positions
<1>7. \A m : Found(m)' <=> Found(m) \/ m = n
  <2>1. ASSUME NEW m, Found(m)', m # n PROVE Found(m)
    <3>1. PICK k \in 1..(Len(s) + 1) : t[k].name = m
      BY <1>6, <2>1
    <3>2. k \in 1..Len(s) /\ s[k].name = m
      BY <1>1, <1>3, <2>1, <3>1
    <3> QED
      BY <1>5, <3>2
  <2>2. ASSUME NEW m, Found(m) PROVE Found(m)'
    <3>1. PICK k \in 1..Len(s) : s[k].name = m
      BY <1>5, <2>2
    <3>2. k \in 1..(Len(s) + 1) /\ t[k].name = m
      BY <1>1, <1>3, <3>1
    <3> QED
      BY <1>6, <3>2
  <2>3. Found(n)'
    <3>1. Len(s) + 1 \in 1..(Len(s) + 1)
      BY <1>1
    <3> QED
      BY <1>3, <1>6, <3>1
  <2> QED
    BY <2>1, <2>2, <2>3
<1>8. NamesUnique'
  <2> SUFFICES ASSUME NEW j \in 1..(Len(s) + 1), NEW k \in 1..(Len(s) + 1), t[j].name = t[k].name PROVE j = k
    BY <1>3, <1>4 DEF NamesUnique
  <2>1. \A i \in 1..Len(s) : s[i].name # n
    BY <1>5
  <2>2. CASE j \in 1..Len(s) /\ k \in 1..Len(s)
    BY <1>1, <1>3, <2>2 DEF EnvShape, NamesUnique
  <2>3. CASE j \in 1..Len(s) /\ k = Len(s) + 1
    BY <1>1, <1>3, <2>1, <2>3
  <2>4. CASE j = Len(s) + 1 /\ k \in 1..Len(s)
    BY <1>1, <1>3, <2>1, <2>4
  <2>5. /\ j \in 1..Len(s) \/ j = Len(s) + 1
        /\ k \in 1..Len(s) \/ k = Len(s) + 1
    BY <1>1
  <2> QED
    BY <2>2, <2>3, <2>4, <2>5
<1> QED
  BY <1>1, <1>3, <1>4, <1>7, <1>8, HandleAssumption DEF EnvShape

------------------------------------------------------------------------------
(* An environment that is alive is so as a whole.                            *)
LEMMA EnvAlive ==
  ASSUME EnvShape, EnvBook, Open, ~EnvDangles
  PROVE  /\ \A n : Found(n) => env.array
         /\ env.array => heap[<<"array", "block">>] = 1
         /\ ~env.array => heap[<<"array", "block">>] = 0
         /\ \A n \in EnvNames : heap[<<"entry", n>>] = IF Found(n) THEN 1 ELSE 0
<1>1. \A n : Found(n) => env.array
  BY DEF EnvShape, Found, Positions
<1>2. heap[<<"array", "block">>] \in 0..1 /\ (~env.array => heap[<<"array", "block">>] = 0)
  BY DEF EnvBook, Account
<1>3. ASSUME env.array PROVE heap[<<"array", "block">>] = 1
  <2>1. ~Dangles(Here("array"))
    BY <1>3 DEF EnvDangles
  <2>2. heap[<<"array", "block">>] # 0
    BY <2>1 DEF Dangles, Here
  <2> QED
    BY <1>2, <2>2
<1>4. ASSUME NEW n \in EnvNames PROVE heap[<<"entry", n>>] = IF Found(n) THEN 1 ELSE 0
  <2>1. heap[<<"entry", n>>] \in 0..1 /\ (heap[<<"entry", n>>] = 1 => Found(n))
    BY DEF EnvBook, Account
  <2>2. Found(n) => heap[<<"entry", n>>] = 1
    BY <1>1, <1>3 DEF EnvBook
  <2> QED
    BY <2>1, <2>2
<1> QED
  BY <1>1, <1>2, <1>3, <1>4

(* Where each entry, and the array, is allocated just if it is there, the    *)
(* books of the environment are right.                                       *)
LEMMA EnvBookExact ==
  ASSUME Open', ~broken' => ~Ending',
         heap'[<<"array", "block">>] = IF env'.array THEN 1 ELSE 0,
         \A n \in EnvNames : heap'[<<"entry", n>>] = IF Found(n)' THEN 1 ELSE 0
  PROVE  EnvBook'
<1>1. Account(<<"array", "block">>, env.array, ~Ending /\ env.array)'
  BY DEF Account
<1>2. ASSUME NEW n \in EnvNames PROVE Account(<<"entry", n>>, Found(n), ~Ending /\ Found(n))'
  <2>1. CASE Found(n)'
    BY <2>1 DEF Account
  <2>2. CASE ~Found(n)'
    BY <2>2 DEF Account
  <2> QED
    BY <2>1, <2>2
<1> QED
  BY <1>1, <1>2 DEF EnvBook

(* What a call on the environment owes: its own part of the books.           *)
LEMMA EnvCallKeeps ==
  ASSUME IInv, Uses(TRUE), UNCHANGED <<items, data, stack, list, owed>>, harm' = EnvDangles,
         ret' \in {"SUCCESS", "BUF_ERR", "BAD_ITEM"}, heap' \in [Places -> Int], EnvShape',
         \A p \in Places : p # <<"array", "block">> /\ p \notin {"entry"} \X EnvNames => heap'[p] = heap[p],
         ~EnvDangles => /\ heap'[<<"array", "block">>] = IF env'.array THEN 1 ELSE 0
                        /\ \A n \in EnvNames : heap'[<<"entry", n>>] = IF Found(n)' THEN 1 ELSE 0
  PROVE  IInv'
<1>0. /\ Open /\ ~harm /\ (broken => broken') /\ (~broken' => ~broken /\ ~Ending)
      /\ Shape /\ ItemsBook /\ EnvBook /\ DataBook
  BY Used
<1>1. /\ heap'[<<"handle", "block">>] = heap[<<"handle", "block">>]
      /\ heap'[<<"list", "block">>] = heap[<<"list", "block">>]
      /\ \A i \in Items : \A p \in ItemPlaces(i) : heap'[p] = heap[p]
      /\ \A n \in DataNames, t \in {"node", "name"} : heap'[<<t, n>>] = heap[<<t, n>>]
  <2>1. /\ <<"handle", "block">> \notin {"entry"} \X EnvNames /\ <<"list", "block">> \notin {"entry"} \X EnvNames
        /\ \A n, t : t \in {"node", "name"} => <<t, n>> \notin {"entry"} \X EnvNames
    OBVIOUS
  <2>2. \A i \in Items : \A p \in ItemPlaces(i) : p \notin {"entry"} \X EnvNames
    BY ItemPlacesApart
  <2> QED
    BY <2>1, <2>2, KnownPlaces, ItemPlacesApart
<1>2. (Open' <=> Open) /\ (Ending' <=> Ending)
  BY <1>1, QuietOpen
<1>3. ItemsShape' /\ ItemsBook'
  BY <1>0, <1>1, <1>2, ItemsBookStays, ShapesStay DEF Shape
<1>4. ~harm' => EnvBook'
  BY <1>0, <1>2, EnvBookExact
<1>5. ~Ending => ~harm'
  BY <1>0, Allocated
<1>6. harm' \in BOOLEAN
  BY DEF EnvDangles
<1>7. list' \in 0..(MaxEnv + 1) /\ heap'[<<"list", "block">>] = list'
  BY <1>0, <1>1 DEF Shape, OtherTypes
<1> QED
  BY <1>1, <1>3, <1>4, <1>5, <1>6, <1>7, QuietKeeps

LEMMA DeleteEnvKeeps ==
  ASSUME IInv, NEW n \in EnvNames, DeleteEnv(n)
  PROVE  IInv'
<1>0. /\ Uses(TRUE) /\ UNCHANGED <<items, data, stack, list, owed>> /\ harm' = EnvDangles
      /\ Open /\ EnvShape /\ EnvBook /\ heap \in [Places -> Int]
  BY Used DEF DeleteEnv, Shape, OtherTypes
<1>1. CASE Found(n)
  <2>1. /\ heap' = Free(heap, {<<"entry", n>>}) /\ ret' = "SUCCESS"
        /\ env' = [env EXCEPT !.list = Without(Position(n))]
    BY <1>1 DEF DeleteEnv
  <2>2. /\ heap' \in [Places -> Int]
        /\ \A p \in Places : heap'[p] = IF p = <<"entry", n>> THEN heap[p] - 1 ELSE heap[p]
    BY <1>0, <2>1, HeapEffect
  <2>3. EnvShape' /\ env'.array = env.array /\ \A m : Found(m)' <=> Found(m) /\ m # n
    BY <1>0, <1>1, <2>1, Deleted
  <2>4. ASSUME ~EnvDangles
        PROVE  /\ heap'[<<"array", "block">>] = IF env'.array THEN 1 ELSE 0
               /\ \A m \in EnvNames : heap'[<<"entry", m>>] = IF Found(m)' THEN 1 ELSE 0
    <3>1. /\ heap[<<"array", "block">>] = IF env.array THEN 1 ELSE 0
          /\ \A m \in EnvNames : heap[<<"entry", m>>] = IF Found(m) THEN 1 ELSE 0
      BY <1>0, <2>4, EnvAlive
    <3>2. heap'[<<"array", "block">>] = heap[<<"array", "block">>]
      BY <2>2, KnownPlaces
    <3>3. \A m \in EnvNames : heap'[<<"entry", m>>] = IF m = n THEN heap[<<"entry", m>>] - 1 ELSE heap[<<"entry", m>>]
      BY <2>2, KnownPlaces
    <3> QED
      BY <1>1, <2>3, <3>1, <3>2, <3>3
  <2>5. \A p \in Places : p # <<"array", "block">> /\ p \notin {"entry"} \X EnvNames => heap'[p] = heap[p]
    BY <2>2
  <2> QED
    BY <1>0, <2>1, <2>2, <2>3, <2>4, <2>5, EnvCallKeeps
<1>2. CASE ~Found(n)
  <2>1. ret' = "BAD_ITEM" /\ UNCHANGED <<heap, env>>
    BY <1>2 DEF DeleteEnv
  <2>2. EnvShape' /\ \A m : Found(m)' <=> Found(m)
    BY <1>0, <2>1, ShapesStay DEF Found, Positions
  <2>3. ASSUME ~EnvDangles
        PROVE  /\ heap'[<<"array", "block">>] = IF env'.array THEN 1 ELSE 0
               /\ \A m \in EnvNames : heap'[<<"entry", m>>] = IF Found(m)' THEN 1 ELSE 0
    BY <1>0, <2>1, <2>2, <2>3, EnvAlive
  <2> QED
    BY <1>0, <2>1, <2>2, <2>3, EnvCallKeeps
<1> QED
  BY <1>1, <1>2

LEMMA PutEnvKeeps ==
  ASSUME IInv, NEW n \in EnvNames, NEW v \in Values, PutEnv(n, v)
  PROVE  IInv'
<1>0. /\ Uses(TRUE) /\ UNCHANGED <<items, data, stack, list, owed>> /\ harm' = EnvDangles
      /\ Open /\ EnvShape /\ EnvBook /\ heap \in [Places -> Int]
  BY Used DEF PutEnv, Shape, OtherTypes
<1> DEFINE grown == IF env.array THEN heap ELSE Malloc(heap, Here("array"))
<1>a. /\ grown \in [Places -> Int]
      /\ \A p \in Places : grown[p] = IF p = <<"array", "block">> /\ ~env.array THEN heap[p] + 1 ELSE heap[p]
  <2>1. CASE env.array
    BY <1>0, <2>1
  <2>2. CASE ~env.array
    BY <1>0, <2>2, HeapEffect DEF Here
  <2> QED
    BY <2>1, <2>2
<1>b. ~EnvDangles => grown[<<"array", "block">>] = 1
  BY <1>0, <1>a, EnvAlive, KnownPlaces
<1>c. \A p \in Places : p # <<"array", "block">> => grown[p] = heap[p]
  BY <1>a
<1>d. CASE UNCHANGED <<heap, env>> /\ ret' = "BUF_ERR"
  <2>1. EnvShape' /\ \A m : Found(m)' <=> Found(m)
    BY <1>0, <1>d, ShapesStay DEF Found, Positions
  <2>2. ASSUME ~EnvDangles
        PROVE  /\ heap'[<<"array", "block">>] = IF env'.array THEN 1 ELSE 0
               /\ \A m \in EnvNames : heap'[<<"entry", m>>] = IF Found(m)' THEN 1 ELSE 0
    BY <1>0, <1>d, <2>1, <2>2, EnvAlive
  <2> QED
    BY <1>0, <1>d, <2>1, <2>2, EnvCallKeeps
<1>1. CASE Found(n) /\ ret' = "SUCCESS"
  <2>1. /\ heap' = Free(Malloc(heap, {<<"entry", n>>}), {<<"entry", n>>})
        /\ env' = [env EXCEPT !.list[Position(n)].value = v]
    BY <1>1 DEF PutEnv, ReplaceEnv, AppendEnv
  <2>2. heap' \in [Places -> Int] /\ \A p \in Places : heap'[p] = heap[p]
    <3> DEFINE more == Malloc(heap, {<<"entry", n>>})
    <3>1. /\ more \in [Places -> Int]
          /\ \A p \in Places : more[p] = IF p = <<"entry", n>> THEN heap[p] + 1 ELSE heap[p]
      BY <1>0, HeapEffect
    <3>2. heap' = Free(more, {<<"entry", n>>})
      BY <2>1
    <3> HIDE DEF more
    <3>3. /\ heap' \in [Places -> Int]
          /\ \A p \in Places : heap'[p] = IF p = <<"entry", n>> THEN more[p] - 1 ELSE more[p]
      BY <3>1, <3>2, HeapEffect
    <3>4. \A p \in Places : heap[p] \in Int
      BY <1>0
    <3> QED
      BY <3>1, <3>3, <3>4
  <2>3. EnvShape' /\ env'.array = env.array /\ \A m : Found(m)' <=> Found(m)
    BY <1>0, <1>1, <2>1, Replaced
  <2>4. ASSUME ~EnvDangles
        PROVE  /\ heap'[<<"array", "block">>] = IF env'.array THEN 1 ELSE 0
               /\ \A m \in EnvNames : heap'[<<"entry", m>>] = IF Found(m)' THEN 1 ELSE 0
    BY <1>0, <2>2, <2>3, <2>4, EnvAlive, KnownPlaces
  <2> QED
    BY <1>0, <1>1, <2>2, <2>3, <2>4, EnvCallKeeps
<1>2. CASE ~Found(n) /\ ret' = "SUCCESS"
  <2>1. /\ heap' = Malloc(grown, {<<"entry", n>>}) /\ Len(env.list) < MaxEnv
        /\ env' = [array |-> TRUE, list |-> Append(env.list, [name |-> n, value |-> v])]
    BY <1>2 DEF PutEnv, ReplaceEnv, AppendEnv
  <2> HIDE DEF grown
  <2>2. /\ heap' \in [Places -> Int]
        /\ \A p \in Places : heap'[p] = IF p = <<"entry", n>> THEN grown[p] + 1 ELSE grown[p]
    BY <1>a, <2>1, HeapEffect
  <2>3. EnvShape' /\ env'.array /\ \A m : Found(m)' <=> Found(m) \/ m = n
    BY <1>0, <1>2, <2>1, Appended
  <2>4. ASSUME ~EnvDangles
        PROVE  /\ heap'[<<"array", "block">>] = IF env'.array THEN 1 ELSE 0
               /\ \A m \in EnvNames : heap'[<<"entry", m>>] = IF Found(m)' THEN 1 ELSE 0
    <3>1. \A m \in EnvNames : grown[<<"entry", m>>] = IF Found(m) THEN 1 ELSE 0
      BY <1>0, <1>c, <2>4, EnvAlive, KnownPlaces
    <3>2. heap'[<<"array", "block">>] = grown[<<"array", "block">>]
      BY <2>2, KnownPlaces
    <3>3. \A m \in EnvNames : heap'[<<"entry", m>>] = IF m = n THEN grown[<<"entry", m>>] + 1 ELSE grown[<<"entry", m>>]
      BY <2>2, KnownPlaces
    <3> QED
      BY <1>2, <1>b, <2>3, <2>4, <3>1, <3>2, <3>3
  <2>5. \A p \in Places : p # <<"array", "block">> /\ p \notin {"entry"} \X EnvNames => heap'[p] = heap[p]
    BY <1>c, <2>2
  <2> QED
    BY <1>0, <1>2, <2>2, <2>3, <2>4, <2>5, EnvCallKeeps
<1>3. CASE ~Found(n) /\ ret' = "BUF_ERR" /\ ~UNCHANGED <<heap, env>>
  <2>1. heap' = grown /\ env' = [env EXCEPT !.array = TRUE]
    BY <1>3 DEF PutEnv, ReplaceEnv, AppendEnv
  <2> HIDE DEF grown
  <2>2. env'.array /\ env'.list = env.list /\ env' \in [array : BOOLEAN, list : Seq(Entries)]
    BY <1>0, <2>1 DEF EnvShape
  <2>3. EnvShape' /\ \A m : Found(m)' <=> Found(m)
    BY <1>0, <2>2 DEF EnvShape, NamesUnique, Found, Positions
  <2>4. ASSUME ~EnvDangles
        PROVE  /\ heap'[<<"array", "block">>] = IF env'.array THEN 1 ELSE 0
               /\ \A m \in EnvNames : heap'[<<"entry", m>>] = IF Found(m)' THEN 1 ELSE 0
    <3>1. \A m \in EnvNames : grown[<<"entry", m>>] = IF Found(m) THEN 1 ELSE 0
      BY <1>0, <1>c, <2>4, EnvAlive, KnownPlaces
    <3> QED
      BY <1>b, <2>1, <2>2, <2>3, <2>4, <3>1
  <2> QED
    BY <1>0, <1>3, <1>a, <1>c, <2>1, <2>3, <2>4, EnvCallKeeps
<1> QED
  BY <1>d, <1>1, <1>2, <1>3 DEF PutEnv, ReplaceEnv, AppendEnv

LEMMA PamGetEnvListKeeps ==
  ASSUME IInv, NEW copied \in -1..MaxEnv, PamGetEnvList(copied)
  PROVE  IInv'
<1>0. /\ Uses(TRUE) /\ UNCHANGED <<items, env, data, stack, owed>> /\ harm' = EnvDangles
      /\ ret' \in {"SUCCESS", "BUF_ERR"} /\ copied <= Len(env.list)
      /\ Open /\ (broken => broken') /\ Shape /\ ItemsBook /\ EnvBook /\ heap \in [Places -> Int]
      /\ heap[<<"list", "block">>] = list /\ list \in 0..(MaxEnv + 1)
  BY Used DEF PamGetEnvList, Shape, OtherTypes
<1>1. /\ heap' \in [Places -> Int] /\ heap'[<<"list", "block">>] = list' /\ list' \in 0..(MaxEnv + 1)
      /\ \A p \in Places : p # <<"list", "block">> => heap'[p] = heap[p]
  <2>1. CASE UNCHANGED <<heap, list>>
    BY <1>0, <2>1
  <2>2. CASE /\ copied = Len(env.list) /\ list' = copied + 1
             /\ heap' = [heap EXCEPT ![<<"list", "block">>] = copied + 1]
    <3>1. Len(env.list) \in Nat
      BY <1>0 DEF Shape, EnvShape
    <3>2. copied + 1 \in 0..(MaxEnv + 1) /\ copied + 1 \in Int
      BY <2>2, <3>1, HandleAssumption
    <3> QED
      BY <1>0, <2>2, <3>2, KnownPlaces
  <2> QED
    BY <2>1, <2>2 DEF PamGetEnvList
<1>2. /\ heap'[<<"handle", "block">>] = heap[<<"handle", "block">>]
      /\ heap'[<<"array", "block">>] = heap[<<"array", "block">>]
      /\ \A n \in EnvNames : heap'[<<"entry", n>>] = heap[<<"entry", n>>]
      /\ \A i \in Items : \A p \in ItemPlaces(i) : heap'[p] = heap[p]
      /\ \A n \in DataNames, t \in {"node", "name"} : heap'[<<t, n>>] = heap[<<t, n>>]
  BY <1>1, KnownPlaces, ItemPlacesApart
<1>3. (Open' <=> Open) /\ (Ending' <=> Ending)
  BY <1>0, <1>2, QuietOpen
<1>4. ItemsShape' /\ EnvShape'
  BY <1>0, ShapesStay DEF Shape
<1>5. ItemsBook' /\ EnvBook'
  BY <1>0, <1>2, <1>3, ItemsBookStays, EnvBookStays
<1>6. harm' \in BOOLEAN /\ (~Ending => ~harm')
  BY <1>0, Used, Allocated DEF EnvDangles
<1> QED
  BY <1>0, <1>1, <1>2, <1>4, <1>5, <1>6, QuietKeeps

LEMMA CallerFreesListKeeps ==
  ASSUME IInv, CallerFreesList
  PROVE  IInv'
<1>0. /\ UNCHANGED <<items, env, data, stack, owed, harm, broken>> /\ ret' = "none" /\ list' = 0 /\ ~harm
      /\ heap' = [heap EXCEPT ![<<"list", "block">>] = heap[<<"list", "block">>] - list]
      /\ Shape /\ ItemsBook /\ EnvBook /\ DataBook /\ (broken \/ Orderly) /\ heap \in [Places -> Int]
      /\ heap[<<"list", "block">>] = list /\ list \in 0..(MaxEnv + 1)
  BY DEF CallerFreesList, IInv, Books, Shape, OtherTypes
<1>1. /\ heap' \in [Places -> Int] /\ heap'[<<"list", "block">>] = 0
      /\ \A p \in Places : p # <<"list", "block">> => heap'[p] = heap[p]
  BY <1>0, KnownPlaces
<1>2. /\ heap'[<<"handle", "block">>] = heap[<<"handle", "block">>]
      /\ heap'[<<"array", "block">>] = heap[<<"array", "block">>]
      /\ \A n \in EnvNames : heap'[<<"entry", n>>] = heap[<<"entry", n>>]
      /\ \A i \in Items : \A p \in ItemPlaces(i) : heap'[p] = heap[p]
      /\ \A n \in DataNames, t \in {"node", "name"} : heap'[<<t, n>>] = heap[<<t, n>>]
  BY <1>1, KnownPlaces, ItemPlacesApart
<1>3. (Open' <=> Open) /\ (Ending' <=> Ending)
  BY <1>0, <1>2, QuietOpen
<1>4. ItemsBook' /\ EnvBook' /\ DataBook'
  BY <1>0, <1>2, <1>3, ItemsBookStays, EnvBookStays, DataBookStays
<1>5. OtherTypes'
  <2>1. 0 \in 0..(MaxEnv + 1)
    BY HandleAssumption
  <2> QED
    BY <1>0, <1>1, <2>1 DEF Shape, OtherTypes
<1>6. Closed'
  BY <1>0, <1>2, <1>3 DEF Shape, Closed
<1>7. Shape'
  BY <1>0, <1>5, <1>6, ShapesStay DEF Shape
<1>8. broken' \/ Orderly'
  BY <1>0, OrderlyStays
<1> QED
  BY <1>4, <1>7, <1>8 DEF IInv, Books

------------------------------------------------------------------------------
LEMMA ItemsBookExact ==
  ASSUME Open', ~broken' => ~Ending',
         \A i \in Items : \A p \in ItemPlaces(i) : heap'[p] = IF p \in items'[i] THEN 1 ELSE 0
  PROVE  ItemsBook'
<1> SUFFICES ASSUME NEW i \in Items, NEW p \in ItemPlaces(i)
             PROVE  Account(p, p \in items[i], ~Ending /\ p \in items[i])'
  BY DEF ItemsBook
<1>1. heap'[p] = IF p \in items'[i] THEN 1 ELSE 0
  OBVIOUS
<1> QED
  BY <1>1 DEF Account

LEMMA DataBookExact ==
  ASSUME Open', ~Ending',
         \A n \in DataNames, t \in {"node", "name"} : heap'[<<t, n>>] = IF Stored(n)' THEN 1 ELSE 0
  PROVE  DataBook'
<1>1. \A n : n \in Left' <=> Stored(n)'
  BY DEF Left, Stored
<1> SUFFICES ASSUME NEW n \in DataNames, NEW t \in {"node", "name"}
             PROVE  Account(<<t, n>>, Stored(n), n \in Left)'
  BY DEF DataBook
<1>2. heap'[<<t, n>>] = IF Stored(n)' THEN 1 ELSE 0
  OBVIOUS
<1>3. CASE Stored(n)'
  BY <1>1, <1>2, <1>3 DEF Account
<1>4. CASE ~Stored(n)'
  BY <1>1, <1>2, <1>4 DEF Account
<1> QED
  BY <1>3, <1>4

LEMMA PamStartKeeps ==
  ASSUME IInv, NEW user \in BOOLEAN, NEW copied \in -1..3, PamStart(user, copied)
  PROVE  IInv'
<1> DEFINE made == {StartItems(user)[k] : k \in 1..copied}
           new == Handle(made)
<1>0. /\ ~Open /\ ~harm /\ ~broken /\ UNCHANGED <<env, data, stack, list, owed, harm, broken>>
      /\ copied <= Len(StartItems(user)) /\ ret' \in {"SUCCESS", "BUF_ERR"}
      /\ \/ /\ copied = Len(StartItems(user))
            /\ heap' = Malloc(heap, new)
            /\ items' = [i \in Items |-> IF i \in made THEN Blocks(i, {}) ELSE {}]
         \/ heap' = Unwind(Malloc(heap, new), made) /\ UNCHANGED items
         \/ UNCHANGED <<heap, items>>
  BY DEF PamStart
<1>1. /\ items = NoItems /\ env = NoEnv /\ data = <<>> /\ stack = <<>>
      /\ Shape /\ ItemsBook /\ EnvBook /\ DataBook /\ Orderly
      /\ heap \in [Places -> Int] /\ heap[<<"list", "block">>] = list
  BY <1>0 DEF IInv, Books, Shape, Closed, OtherTypes
<1>2. made \subseteq Items /\ \A i \in made : Blocks(i, {}) = {<<i, "block">>}
  <2>1. StartItems(user) \in Seq(Items) /\ Len(StartItems(user)) \in Nat
    <3>1. {"service", "user", "conv"} \subseteq Items
      BY DEF Items, StringItems
    <3>2. CASE user
      BY <3>1, <3>2 DEF StartItems
    <3>3. CASE ~user
      BY <3>1, <3>3 DEF StartItems
    <3> QED
      BY <3>2, <3>3
  <2>2. \A k \in 1..copied : StartItems(user)[k] \in Items
    BY <1>0, <2>1
  <2> QED
    BY <2>2 DEF Blocks
<1>3. \A p : p \in new <=> p = <<"handle", "block">> \/ \E i \in made : p = <<i, "block">>
  BY <1>2 DEF Handle, Here
<1> HIDE DEF made, new
<1>4. \A n \in EnvNames : ~Found(n) /\ ~Found(n)'
  BY <1>0, <1>1 DEF Found, Positions, NoEnv
<1>5. ~Ending /\ ~Ending' /\ Left = {} /\ Left' = {} /\ \A n : ~Stored(n) /\ ~Stored(n)'
  BY <1>0, <1>1 DEF Ending, Left, Stored
<1>6. /\ heap[<<"handle", "block">>] = 0 /\ heap[<<"array", "block">>] = 0
      /\ \A i \in Items : \A p \in ItemPlaces(i) : heap[p] = 0
      /\ \A n \in EnvNames : heap[<<"entry", n>>] = 0
      /\ \A n \in DataNames, t \in {"node", "name"} : heap[<<t, n>>] = 0
  <2>1. heap[<<"handle", "block">>] = 0
    BY <1>0, <1>1 DEF Shape, Closed, Open
  <2>2. \A i \in Items : \A p \in ItemPlaces(i) : heap[p] = 0
    BY <1>0, <1>1 DEF ItemsBook, Account
  <2>3. heap[<<"array", "block">>] = 0 /\ \A n \in EnvNames : heap[<<"entry", n>>] = 0
    BY <1>0, <1>1 DEF EnvBook, Account
  <2>4. ASSUME NEW n \in DataNames, NEW t \in {"node", "name"} PROVE heap[<<t, n>>] = 0
    <3>1. Account(<<t, n>>, Stored(n), n \in Left)
      BY <1>1 DEF DataBook
    <3> QED
      BY <1>0, <3>1 DEF Account
  <2> QED
    BY <2>1, <2>2, <2>3, <2>4
<1>7. broken' \/ Orderly'
  BY <1>0, <1>1, OrderlyStays
<1>8. EnvShape' /\ DataShape' /\ StackShape'
  BY <1>0, <1>1, ShapesStay DEF Shape
<1>9. CASE /\ heap' = Malloc(heap, new)
           /\ items' = [i \in Items |-> IF i \in made THEN Blocks(i, {}) ELSE {}]
  <2>1. /\ heap' \in [Places -> Int]
        /\ \A p \in Places : heap'[p] = IF p \in new THEN heap[p] + 1 ELSE heap[p]
    BY <1>1, <1>9, HeapEffect
  <2>2. heap'[<<"handle", "block">>] = 1 /\ Open'
    BY <1>3, <1>6, <2>1, KnownPlaces DEF Open
  <2>3. \A i \in Items : items'[i] = IF i \in made THEN {<<i, "block">>} ELSE {}
    BY <1>2, <1>9
  <2>4. ItemsShape'
    <3>1. \A i \in Items : items'[i] \subseteq ItemPlaces(i)
      BY <2>3 DEF ItemPlaces
    <3>2. \A i \in Items : items'[i] \subseteq Places
      BY <3>1, KnownPlaces
    <3> QED
      BY <1>9, <3>1, <3>2 DEF ItemsShape
  <2>5. ASSUME NEW i \in Items, NEW p \in ItemPlaces(i) PROVE heap'[p] = IF p \in items'[i] THEN 1 ELSE 0
    <3>1. p \in new <=> p \in items'[i]
      <4>1. p # <<"handle", "block">> /\ \A j \in Items : p \in ItemPlaces(j) => j = i
        BY ItemPlacesApart
      <4>2. \A j \in made : p = <<j, "block">> => j = i
        BY <1>2, <4>1 DEF ItemPlaces
      <4>3. p \in new <=> i \in made /\ p = <<i, "block">>
        BY <1>3, <4>1, <4>2
      <4>4. items'[i] = IF i \in made THEN {<<i, "block">>} ELSE {}
        BY <2>3
      <4>5. CASE i \in made
        BY <4>3, <4>4, <4>5
      <4>6. CASE i \notin made
        BY <4>3, <4>4, <4>6
      <4> QED
        BY <4>5, <4>6
    <3> QED
      BY <1>6, <2>1, <3>1, KnownPlaces
  <2>6. /\ <<"array", "block">> \notin new /\ <<"list", "block">> \notin new
        /\ \A n : <<"entry", n>> \notin new /\ \A t \in {"node", "name"} : <<t, n>> \notin new
    BY <1>2, <1>3 DEF Items, StringItems
  <2>7. /\ heap'[<<"array", "block">>] = 0 /\ heap'[<<"list", "block">>] = heap[<<"list", "block">>]
        /\ \A n \in EnvNames : heap'[<<"entry", n>>] = 0
        /\ \A n \in DataNames, t \in {"node", "name"} : heap'[<<t, n>>] = 0
    BY <1>6, <2>1, <2>6, KnownPlaces
  <2>8. ItemsBook'
    BY <1>5, <2>2, <2>5, ItemsBookExact
  <2>9. EnvBook'
    <3>1. ~env'.array
      BY <1>0, <1>1 DEF NoEnv
    <3> QED
      BY <1>4, <1>5, <2>2, <2>7, <3>1, EnvBookExact
  <2>10. DataBook'
    BY <1>5, <2>2, <2>7, DataBookExact
  <2>11. OtherTypes'
    BY <1>0, <1>1, <2>1, <2>7 DEF Shape, OtherTypes
  <2>12. Closed'
    BY <2>2 DEF Closed
  <2> QED
    BY <1>7, <1>8, <2>4, <2>8, <2>9, <2>10, <2>11, <2>12 DEF IInv, Shape, Books
<1>10. CASE /\ UNCHANGED items
            /\ heap' = heap \/ heap' = Unwind(Malloc(heap, new), made)
  <2>1. heap' \in [Places -> Int] /\ \A p \in Places : heap'[p] = heap[p]
    <3>1. CASE heap' = Unwind(Malloc(heap, new), made)
      <4> DEFINE more == Malloc(heap, new)
      <4>1. /\ more \in [Places -> Int] /\ heap' = Free(more, new)
            /\ \A p \in Places : more[p] = IF p \in new THEN heap[p] + 1 ELSE heap[p]
        BY <1>1, <3>1, HeapEffect DEF Unwind, new
      <4> HIDE DEF more
      <4>2. /\ heap' \in [Places -> Int]
            /\ \A p \in Places : heap'[p] = IF p \in new THEN more[p] - 1 ELSE more[p]
        BY <4>1, HeapEffect
      <4>3. \A p \in Places : heap[p] \in Int
        BY <1>1
      <4> QED
        BY <4>1, <4>2, <4>3
    <3> QED
      BY <1>1, <1>10, <3>1
  <2>2. (Open' <=> Open) /\ (Ending' <=> Ending)
    BY <1>5, <2>1, KnownPlaces DEF Open
  <2>3. ItemsBook' /\ EnvBook' /\ DataBook'
    BY <1>0, <1>1, <1>10, <2>1, <2>2, KnownPlaces, ItemsBookStays, EnvBookStays, DataBookStays
  <2>4. OtherTypes'
    BY <1>0, <1>1, <2>1, KnownPlaces DEF Shape, OtherTypes
  <2>5. Closed'
    BY <1>0, <1>1, <1>10, <2>1, <2>2, KnownPlaces DEF Shape, Closed
  <2>6. ItemsShape'
    BY <1>1, <1>10, ShapesStay DEF Shape
  <2> QED
    BY <1>7, <1>8, <2>3, <2>4, <2>5, <2>6 DEF IInv, Shape, Books
<1> QED
  BY <1>0, <1>9, <1>10

------------------------------------------------------------------------------
(* The data: a node of a name is the only one.                               *)
LEMMA AtIs ==
  ASSUME NEW d, \A j, k \in DOMAIN d : d[j].name = d[k].name => j = k, NEW k \in DOMAIN d
  PROVE  (CHOOSE j \in DOMAIN d : d[j].name = d[k].name) = k
  OBVIOUS

LEMMA NodeAt ==
  ASSUME DataShape, NEW n, Stored(n)
  PROVE  /\ At(n) \in 1..Len(data) /\ data[At(n)].name = n /\ n \in DataNames
         /\ data[At(n)] \in Nodes /\ data \in Seq(Nodes) /\ Len(data) \in Nat /\ DOMAIN data = 1..Len(data)
<1>1. data \in Seq(Nodes) /\ Len(data) \in Nat /\ DOMAIN data = 1..Len(data)
  BY DEF DataShape
<1>2. PICK k \in DOMAIN data : data[k].name = n
  BY DEF Stored
<1>3. At(n) = k
  BY <1>2, AtIs DEF DataShape, At
<1>4. data[k] \in Nodes
  BY <1>1, <1>2
<1> QED
  BY <1>1, <1>2, <1>3, <1>4 DEF Nodes

LEMMA Updated ==
  ASSUME DataShape, NEW n, Stored(n), NEW o \in Objs \cup {Plain},
         data' = [data EXCEPT ![At(n)].obj = o]
  PROVE  /\ DataShape' /\ \A m : Stored(m)' <=> Stored(m)
         /\ ObjOf(n)' = o
         /\ \A m : Stored(m) /\ m # n => ObjOf(m)' = ObjOf(m)
<1> DEFINE p == At(n)
           t == [data[p] EXCEPT !.obj = o]
<1>1. /\ p \in 1..Len(data) /\ data[p].name = n /\ data[p] \in Nodes
      /\ data \in Seq(Nodes) /\ Len(data) \in Nat /\ DOMAIN data = 1..Len(data)
  BY NodeAt
<1>2. t \in Nodes /\ t.name = n /\ t.obj = o
  BY <1>1 DEF Nodes
<1>3. data' = [data EXCEPT ![p] = t]
  OBVIOUS
<1> HIDE DEF p, t
<1>4. /\ data' \in Seq(Nodes) /\ DOMAIN data' = DOMAIN data /\ data'[p] = t
      /\ \A k \in DOMAIN data : k # p => data'[k] = data[k]
  <2>1. data' \in Seq(Nodes)
    <3>1. [data EXCEPT ![p] = t] \in Seq(Nodes)
      BY <1>1, <1>2, ExceptSeq
    <3> QED
      BY <1>3, <3>1
  <2>2. data'[p] = t /\ DOMAIN data' = DOMAIN data /\ \A k \in DOMAIN data : k # p => data'[k] = data[k]
    BY <1>1, <1>3
  <2> QED
    BY <2>1, <2>2
<1>5. \A k \in DOMAIN data : data'[k].name = data[k].name
  BY <1>1, <1>2, <1>4
<1>6. DataShape'
  BY <1>4, <1>5 DEF DataShape
<1>7. \A m : Stored(m)' <=> Stored(m)
  BY <1>4, <1>5 DEF Stored
<1>8. ASSUME NEW m, Stored(m) PROVE At(m)' = At(m)
  BY <1>4, <1>5 DEF At
<1>9. ObjOf(n)' = o
  BY <1>2, <1>4, <1>8 DEF ObjOf, p
<1>10. ASSUME NEW m, Stored(m), m # n PROVE ObjOf(m)' = ObjOf(m)
  <2>1. At(m) \in DOMAIN data /\ data[At(m)].name = m
    BY <1>1, <1>10, NodeAt
  <2> QED
    BY <1>1, <1>4, <1>8, <1>10, <2>1 DEF ObjOf
<1> QED
  BY <1>6, <1>7, <1>9, <1>10

LEMMA Inserted ==
  ASSUME DataShape, NEW n \in DataNames, ~Stored(n), NEW o \in Objs \cup {Plain},
         data' = <<[name |-> n, obj |-> o]>> \o data
  PROVE  /\ DataShape' /\ \A m : Stored(m)' <=> Stored(m) \/ m = n
         /\ ObjOf(n)' = o
         /\ \A m : Stored(m) => ObjOf(m)' = ObjOf(m)
<1>1. data \in Seq(Nodes) /\ Len(data) \in Nat /\ DOMAIN data = 1..Len(data)
  BY DEF DataShape
<1>2. [name |-> n, obj |-> o] \in Nodes
  BY DEF Nodes
<1>3. /\ data' \in Seq(Nodes) /\ DOMAIN data' = 1..(Len(data) + 1) /\ data'[1] = [name |-> n, obj |-> o]
      /\ \A k \in 1..Len(data) : data'[k + 1] = data[k]
  BY <1>1, <1>2
<1>4. ASSUME NEW k \in DOMAIN data', k # 1
      PROVE  k - 1 \in 1..Len(data) /\ data'[k] = data[k - 1]
  <2>1. k \in 1..(Len(data) + 1)
    BY <1>3
  <2>2. k - 1 \in 1..Len(data) /\ (k - 1) + 1 = k
    BY <1>1, <1>4, <2>1
  <2> QED
    BY <1>3, <2>2
<1>5. \A k \in 1..Len(data) : data[k].name # n
  BY <1>1 DEF Stored
<1>6. ASSUME NEW j \in DOMAIN data', NEW k \in DOMAIN data', data'[j].name = data'[k].name PROVE j = k
  <2>1. CASE j = 1 \/ k = 1
    BY <1>3, <1>4, <1>5, <1>6, <2>1
  <2>2. CASE j # 1 /\ k # 1
    <3>1. j - 1 = k - 1
      BY <1>1, <1>4, <1>6, <2>2 DEF DataShape
    <3> QED
      BY <1>1, <1>3, <3>1
  <2> QED
    BY <2>1, <2>2
<1>7. DataShape'
  BY <1>3, <1>6 DEF DataShape
<1>8. ASSUME NEW m, Stored(m) PROVE Stored(m)' /\ ObjOf(m)' = ObjOf(m)
  <2>1. At(m) \in 1..Len(data) /\ data[At(m)].name = m
    BY <1>8, NodeAt
  <2>2. At(m) + 1 \in DOMAIN data' /\ data'[At(m) + 1] = data[At(m)]
    BY <1>1, <1>3, <2>1
  <2>3. At(m)' = At(m) + 1
    BY <1>6, <2>1, <2>2 DEF At
  <2> QED
    BY <2>1, <2>2, <2>3 DEF Stored, ObjOf
<1>9. ASSUME NEW m, Stored(m)', m # n PROVE Stored(m)
  <2>1. PICK k \in DOMAIN data' : data'[k].name = m
    BY <1>9 DEF Stored
  <2>2. k - 1 \in 1..Len(data) /\ data[k - 1].name = m
    BY <1>3, <1>4, <1>9, <2>1
  <2> QED
    BY <1>1, <2>2 DEF Stored
<1>10. Stored(n)' /\ ObjOf(n)' = o
  <2>1. 1 \in DOMAIN data' /\ data'[1].name = n
    BY <1>1, <1>3
  <2>2. At(n)' = 1
    BY <1>6, <2>1 DEF At
  <2>3. Stored(n)'
    BY <2>1 DEF Stored
  <2>4. ObjOf(n)' = data'[1].obj
    BY <2>2 DEF ObjOf
  <2> QED
    BY <1>3, <2>3, <2>4
<1> QED
  BY <1>7, <1>8, <1>9, <1>10

(* What a step on the data keeps, where the heap changes at nodes alone.     *)
LEMMA DataStepKeeps ==
  ASSUME IInv, Open, ~harm, UNCHANGED <<items, env, list>>,
         ret' \in {"none", "SUCCESS", "BUF_ERR", "BAD_ITEM", "NO_MODULE_DATA"},
         harm' \in BOOLEAN, broken' \in BOOLEAN, broken => broken', owed' \subseteq Objs,
         heap' \in [Places -> Int],
         \A p \in Places : heap'[p] = heap[p] \/ \E n \in DataNames : p \in Node(n),
         Ending' <=> Ending, DataShape', StackShape', ~harm' => DataBook', broken' \/ Orderly'
  PROVE  IInv'
<1>1. Shape /\ ItemsBook /\ EnvBook
  BY DEF IInv, Books
<1>2. \A n : \A p \in Node(n) : p[1] \in {"node", "name"}
  BY DEF Node
<1>3. /\ heap'[<<"handle", "block">>] = heap[<<"handle", "block">>]
      /\ heap'[<<"array", "block">>] = heap[<<"array", "block">>]
      /\ heap'[<<"list", "block">>] = heap[<<"list", "block">>]
      /\ \A n \in EnvNames : heap'[<<"entry", n>>] = heap[<<"entry", n>>]
  BY <1>2, KnownPlaces
<1>4. ASSUME NEW i \in Items, NEW p \in ItemPlaces(i) PROVE heap'[p] = heap[p]
  <2>1. p[1] = i /\ i \notin {"node", "name"} /\ p \in Places
    BY KnownPlaces DEF ItemPlaces, Items, StringItems
  <2> QED
    BY <1>2, <2>1
<1>5. Open' <=> Open
  BY <1>3 DEF Open
<1>6. ItemsBook' /\ EnvBook'
  BY <1>1, <1>3, <1>4, <1>5, ItemsBookStays, EnvBookStays
<1>7. ItemsShape' /\ EnvShape' /\ Closed'
  <2>1. Closed'
    BY <1>1, <1>3, <1>5 DEF Shape, Closed
  <2> QED
    BY <1>1, <2>1, ShapesStay DEF Shape
<1>8. OtherTypes'
  BY <1>1, <1>3 DEF Shape, OtherTypes
<1> QED
  BY <1>6, <1>7, <1>8 DEF IInv, Shape, Books

LEMMA LeftStored ==
  ASSUME DataShape, StackShape
  PROVE  /\ ~Ending => \A n : n \in Left <=> Stored(n)
         /\ \A n \in Left : Stored(n)
         /\ \A n : Stored(n) => n \in DataNames
<1>1. ~Ending => \A n : n \in Left <=> Stored(n)
  BY DEF Left, Stored
<1>2. ASSUME Ending, NEW n \in Left PROVE Stored(n)
  <2>1. PICK k \in DOMAIN stack : stack[k].op = "end"
    BY <1>2 DEF Ending
  <2>2. k = 1 /\ \A j \in DOMAIN stack[k].rest : Stored(stack[k].rest[j])
    BY <2>1 DEF StackShape, FrameShape
  <2> QED
    BY <1>2, <2>2 DEF Left
<1>3. \A n : Stored(n) => n \in DataNames
  BY NodeAt
<1> QED
  BY <1>1, <1>2, <1>3

LEMMA StackStays ==
  ASSUME StackShape, stack' = stack, \A n : Stored(n) => Stored(n)'
  PROVE  StackShape'
<1>1. ASSUME NEW k \in DOMAIN stack, FrameShape(k) PROVE FrameShape(k)'
  BY <1>1 DEF FrameShape, Distinct
<1> QED
  BY <1>1 DEF StackShape

LEMMA SameBook ==
  ASSUME DataBook, Open' <=> Open, Ending' <=> Ending, broken => broken',
         \A n \in DataNames, t \in {"node", "name"} : heap'[<<t, n>>] = heap[<<t, n>>],
         \A n : Stored(n)' <=> Stored(n), \A n : n \in Left' <=> n \in Left
  PROVE  DataBook'
  BY DEF DataBook, Account

(* A call that stores data under n, where it keeps the rules.                *)
LEMMA StoreUsed ==
  ASSUME IInv, NEW n \in DataNames, NEW o \in Objs \cup {Plain}, PamSetData(n, o)
  PROVE  /\ Open /\ ~harm /\ broken' \in BOOLEAN /\ (broken => broken')
         /\ ~broken' => /\ ~broken /\ ~Ending /\ ~Replacing(n) /\ Orderly
                        /\ \A m \in DataNames : ~Dangles(Visited(m))
                        /\ Stored(n) /\ ObjOf(n) \in Objs => ObjOf(n) \in owed
         /\ ~Ending /\ ~Replacing(n) /\ Stored(n) => n \in LiveNames
         /\ o \notin owed /\ ({o} \cap Objs) \subseteq Objs
         /\ Shape /\ ItemsBook /\ EnvBook /\ DataBook
<1>1. /\ broken \in BOOLEAN /\ Open /\ ~harm /\ broken' = (broken \/ Ending \/ Replacing(n))
      /\ o \notin owed
  <2>1. Open /\ ~harm /\ broken' = (broken \/ Ending \/ ~~Replacing(n)) /\ o \notin owed
    BY DEF PamSetData, Uses, Usable
  <2> QED
    BY <2>1 DEF IInv, Shape, OtherTypes
<1>2. Ending \in BOOLEAN /\ Replacing(n) \in BOOLEAN
  BY DEF Ending, Replacing
<1>3. Shape /\ ItemsBook /\ EnvBook /\ DataBook
  BY <1>1 DEF IInv, Books
<1>4. ASSUME ~Ending, ~Replacing(n), Stored(n) PROVE n \in LiveNames
  <2>1. n \in Left /\ ~Passed(n)
    BY <1>3, <1>4, LeftStored DEF Shape, Passed
  <2> QED
    BY <1>4, <2>1 DEF LiveNames
<1>5. ASSUME ~broken'
      PROVE  /\ ~broken /\ ~Ending /\ ~Replacing(n) /\ Orderly
             /\ \A m \in DataNames : ~Dangles(Visited(m))
             /\ Stored(n) /\ ObjOf(n) \in Objs => ObjOf(n) \in owed
  <2>1. ~broken /\ ~Ending /\ ~Replacing(n) /\ Orderly
    BY <1>1, <1>2, <1>5 DEF IInv
  <2>2. \A m \in DataNames : ~Dangles(Visited(m))
    BY <1>1, <1>3, <2>1, Allocated
  <2>3. Stored(n) /\ ObjOf(n) \in Objs => ObjOf(n) \in owed
    BY <1>4, <2>1 DEF Orderly
  <2> QED
    BY <2>1, <2>2, <2>3
<1> QED
  BY <1>1, <1>2, <1>3, <1>4, <1>5

(* The three outcomes of pam_set_data for a name that is stored, or not.     *)
LEMMA PlainUpdateKeeps ==
  ASSUME IInv, NEW n \in DataNames, NEW o \in Objs \cup {Plain}, PamSetData(n, o), Stored(n),
         ObjOf(n) = Plain, data' = [data EXCEPT ![At(n)].obj = o], owed' = owed \cup ({o} \cap Objs),
         harm' = Dangles(Visited(n)), ret' = "SUCCESS", UNCHANGED <<stack, heap>>
  PROVE  IInv'
<1>1. UNCHANGED <<items, env, list>>
  BY DEF PamSetData
<1>2. /\ Open /\ ~harm /\ broken' \in BOOLEAN /\ (broken => broken')
      /\ ~broken' => /\ ~broken /\ ~Ending /\ ~Replacing(n) /\ Orderly
                     /\ \A m \in DataNames : ~Dangles(Visited(m))
      /\ ~Ending /\ ~Replacing(n) /\ Stored(n) => n \in LiveNames
      /\ o \notin owed /\ Shape /\ DataBook
  BY StoreUsed
<1>3. /\ DataShape' /\ \A m : Stored(m)' <=> Stored(m)
      /\ ObjOf(n)' = o
      /\ \A m : Stored(m) /\ m # n => ObjOf(m)' = ObjOf(m)
  BY <1>2, Updated DEF Shape
<1>4. StackShape' /\ (Open' <=> Open) /\ (Ending' <=> Ending)
  BY <1>2, <1>3, StackStays DEF Shape, Open, Ending
<1>5. \A m : m \in Left' <=> m \in Left
  <2>1. /\ ~Ending => \A m : m \in Left <=> Stored(m)
        /\ ~Ending' => \A m : m \in Left' <=> Stored(m)'
    BY DEF Left, Stored
  <2>2. Ending => Left' = Left
    BY <1>4 DEF Left
  <2> QED
    BY <1>3, <1>4, <2>1, <2>2
<1>6. DataBook'
  BY <1>2, <1>3, <1>4, <1>5, SameBook
<1>7. ASSUME ~broken' PROVE Orderly'
  <2>1. ~harm' /\ ~Ending' /\ Orderly /\ n \in LiveNames /\ ObjOf(n) \notin Objs
    BY <1>2, <1>4, <1>7, HandleAssumption
  <2>2. Pending' = Pending /\ \A m : m \in LiveNames' <=> m \in LiveNames
    BY <1>4, <1>5 DEF Pending, LiveNames, Replacing, Passed
  <2>3. \A m \in LiveNames : m # n => ObjOf(m)' = ObjOf(m)
    BY <1>2, <1>3, LeftStored DEF Shape, LiveNames
  <2>4. owed = Objs \cap ({ObjOf(m) : m \in LiveNames} \cup {stack[k].obj : k \in Pending}) /\ OneOwner
    BY <2>1 DEF Orderly
  <2>5. owed' = Objs \cap ({ObjOf(m)' : m \in LiveNames'} \cup {stack'[k].obj : k \in Pending'})
    BY <1>3, <2>1, <2>2, <2>3, <2>4
  <2>6. OneOwner'
    <3>1. ASSUME NEW m \in LiveNames', NEW l \in LiveNames', ObjOf(m)' = ObjOf(l)', ObjOf(m)' \in Objs
          PROVE  m = l
      BY <1>2, <1>3, <2>2, <2>3, <2>4, <3>1 DEF OneOwner
    <3>2. ASSUME NEW m \in LiveNames', NEW k \in Pending', ObjOf(m)' = stack'[k].obj
          PROVE  ObjOf(m)' \notin Objs
      BY <1>2, <1>3, <2>2, <2>3, <2>4, <3>2 DEF OneOwner
    <3>3. \A j, k \in Pending' : stack'[j].obj = stack'[k].obj /\ stack'[j].obj \in Objs => j = k
      BY <2>2, <2>4 DEF OneOwner
    <3> QED
      BY <3>1, <3>2, <3>3 DEF OneOwner
  <2> QED
    BY <2>1, <2>2, <2>5, <2>6 DEF Orderly
<1>8. harm' \in BOOLEAN /\ owed' \subseteq Objs /\ heap' \in [Places -> Int]
  BY <1>2, DanglesBoolean DEF Shape, OtherTypes
<1> QED
  BY <1>1, <1>2, <1>3, <1>4, <1>6, <1>7, <1>8, DataStepKeeps

LEMMA ReplaceStartsKeeps ==
  ASSUME IInv, NEW n \in DataNames, NEW o \in Objs \cup {Plain}, PamSetData(n, o), Stored(n),
         ObjOf(n) \in Objs, Len(stack) < MaxDepth,
         stack' = Append(stack, [op |-> "replace", name |-> n, obj |-> o]),
         owed' = (owed \ {ObjOf(n)}) \cup ({o} \cap Objs),
         harm' = (Dangles(Visited(n)) \/ ObjOf(n) \notin owed), ret' = "none",
         UNCHANGED <<data, heap>>
  PROVE  IInv'
<1> DEFINE frame == [op |-> "replace", name |-> n, obj |-> o]
<1>1. UNCHANGED <<items, env, list>>
  BY DEF PamSetData
<1>2. /\ Open /\ ~harm /\ broken' \in BOOLEAN /\ (broken => broken')
      /\ ~broken' => /\ ~broken /\ ~Ending /\ ~Replacing(n) /\ Orderly
                     /\ \A m \in DataNames : ~Dangles(Visited(m))
                     /\ Stored(n) /\ ObjOf(n) \in Objs => ObjOf(n) \in owed
      /\ ~Ending /\ ~Replacing(n) /\ Stored(n) => n \in LiveNames
      /\ o \notin owed /\ Shape /\ DataBook
  BY StoreUsed
<1>3. frame \in Frames /\ frame.op = "replace" /\ frame.name = n /\ frame.obj = o
  BY DEF Frames
<1>4. PICK L \in Nat : stack \in Seq(Frames) /\ L = Len(stack) /\ DOMAIN stack = 1..L /\ L + 1 <= MaxDepth
  BY <1>2, HandleAssumption DEF Shape, StackShape
<1>5. stack' = Append(stack, frame)
  OBVIOUS
<1> HIDE DEF frame
<1>6. /\ stack' \in Seq(Frames) /\ Len(stack') = L + 1 /\ DOMAIN stack' = 1..(L + 1)
      /\ stack'[L + 1] = frame /\ \A k \in 1..L : stack'[k] = stack[k]
  BY <1>3, <1>4, <1>5, AppendProperties
<1>7. \A m : ObjOf(m)' = ObjOf(m) /\ (Stored(m)' <=> Stored(m))
  BY DEF ObjOf, At, Stored
<1>8. StackShape'
  <2>1. ASSUME NEW k \in 1..L PROVE FrameShape(k)'
    <3>1. stack'[k] = stack[k] /\ FrameShape(k)
      BY <1>2, <1>4, <1>6 DEF Shape, StackShape
    <3> QED
      BY <1>7, <3>1 DEF FrameShape, Distinct
  <2>2. FrameShape(L + 1)'
    BY <1>3, <1>6, <1>7 DEF FrameShape
  <2>3. \A k \in DOMAIN stack' : k \in 1..L \/ k = L + 1
    BY <1>4, <1>6
  <2>4. Len(stack') <= MaxDepth + 1
    BY <1>4, <1>6, HandleAssumption
  <2> QED
    BY <1>6, <2>1, <2>2, <2>3, <2>4 DEF StackShape
<1>9. PICK top :
      /\ top = L + 1 /\ (Ending' <=> Ending)
      /\ Pending' = Pending \cup {top} /\ top \notin Pending
      /\ \A m : Replacing(m)' <=> Replacing(m) \/ m = n
      /\ Ending => stack'[1] = stack[1]
  <2>1. DOMAIN stack' = DOMAIN stack \cup {L + 1} /\ L + 1 \notin DOMAIN stack
        /\ stack'[L + 1].op = "replace" /\ stack'[L + 1].name = n
        /\ \A k \in DOMAIN stack : stack'[k] = stack[k]
    BY <1>3, <1>4, <1>6
  <2>2. Ending => 1 \in DOMAIN stack
    BY <1>4 DEF Ending
  <2> QED
    BY <2>1, <2>2 DEF Ending, Pending, Replacing
<1>10. \A m : m \in Left' <=> m \in Left
  <2>1. CASE Ending
    BY <1>9, <2>1 DEF Left
  <2>2. CASE ~Ending
    BY <1>9, <2>2 DEF Left
  <2> QED
    BY <2>1, <2>2
<1>11. Open' <=> Open
  BY DEF Open
<1>12. DataBook'
  BY <1>2, <1>7, <1>9, <1>10, <1>11, SameBook
<1>13. ASSUME ~broken' PROVE Orderly'
  <2>1. /\ ~harm' /\ ~Ending /\ ~Ending' /\ Orderly /\ n \in LiveNames /\ ~Replacing(n)
    BY <1>2, <1>9, <1>13
  <2>2. LiveNames' = LiveNames \ {n}
    <3>1. \A m : ~Passed(m) /\ ~Passed(m)'
      BY <2>1 DEF Passed
    <3> QED
      BY <1>9, <1>10, <3>1 DEF LiveNames
  <2>3. /\ owed = Objs \cap ({ObjOf(m) : m \in LiveNames} \cup {stack[k].obj : k \in Pending})
        /\ OneOwner /\ \A j, k \in Pending : stack[j].name = stack[k].name => j = k
    BY <2>1 DEF Orderly
  <2>4. /\ \A k \in Pending : stack'[k] = stack[k] /\ stack[k].name # n
        /\ stack'[top].name = n /\ stack'[top].obj = o
        /\ Pending' = Pending \cup {top} /\ top \notin Pending
    BY <1>3, <1>4, <1>6, <1>9, <2>1 DEF Pending, Replacing
  <2>5. \A j, k \in Pending' : stack'[j].name = stack'[k].name => j = k
    <3> SUFFICES ASSUME NEW j \in Pending', NEW k \in Pending', stack'[j].name = stack'[k].name PROVE j = k
      OBVIOUS
    <3>1. CASE j = top
      BY <2>4, <3>1
    <3>2. CASE k = top
      BY <2>4, <3>2
    <3>3. CASE j \in Pending /\ k \in Pending
      BY <2>3, <2>4, <3>3
    <3> QED
      BY <2>4, <3>1, <3>2, <3>3
  <2>6. owed' = Objs \cap ({ObjOf(m)' : m \in LiveNames'} \cup {stack'[k].obj : k \in Pending'})
    <3>1. /\ \A m \in LiveNames \ {n} : ObjOf(m) \in Objs => ObjOf(m) # ObjOf(n)
          /\ \A k \in Pending : stack[k].obj \in Objs => stack[k].obj # ObjOf(n)
      BY <2>1, <2>3 DEF OneOwner
    <3>2. {stack'[k].obj : k \in Pending'} = {stack[k].obj : k \in Pending} \cup {o}
      BY <2>4
    <3>3. {ObjOf(m)' : m \in LiveNames'} = {ObjOf(m) : m \in LiveNames \ {n}}
      BY <1>7, <2>2
    <3>4. \A x \in Objs : x \in {ObjOf(m) : m \in LiveNames \ {n}} <=>
                            x \in {ObjOf(m) : m \in LiveNames} /\ x # ObjOf(n)
      BY <2>1, <3>1
    <3>5. \A x \in Objs : x \in {stack[k].obj : k \in Pending} => x # ObjOf(n)
      BY <3>1
    <3> QED
      BY <2>3, <3>2, <3>3, <3>4, <3>5
  <2>7. OneOwner'
    <3>1. \A m, l \in LiveNames' : ObjOf(m)' = ObjOf(l)' /\ ObjOf(m)' \in Objs => m = l
      BY <1>7, <2>2, <2>3 DEF OneOwner
    <3>2. ASSUME NEW j \in Pending', NEW k \in Pending', stack'[j].obj = stack'[k].obj, stack'[j].obj \in Objs
          PROVE  j = k
      <4>1. \A i \in Pending : stack[i].obj \in Objs => stack[i].obj # o
        BY <1>2, <2>3
      <4>2. CASE j = top \/ k = top
        BY <2>4, <3>2, <4>1, <4>2
      <4>3. CASE j \in Pending /\ k \in Pending
        BY <2>3, <2>4, <3>2, <4>3 DEF OneOwner
      <4> QED
        BY <2>4, <4>2, <4>3
    <3>3. ASSUME NEW m \in LiveNames', NEW k \in Pending', ObjOf(m)' = stack'[k].obj
          PROVE  ObjOf(m)' \notin Objs
      <4>1. m \in LiveNames /\ ObjOf(m)' = ObjOf(m)
        BY <1>7, <2>2
      <4>2. CASE k = top
        <5>1. ObjOf(m)' = o
          BY <2>4, <3>3, <4>2
        <5>2. ObjOf(m) \in Objs => ObjOf(m) \in owed
          BY <2>3, <4>1
        <5> QED
          BY <1>2, <4>1, <5>1, <5>2
      <4>3. CASE k \in Pending
        BY <2>3, <2>4, <3>3, <4>1, <4>3 DEF OneOwner
      <4> QED
        BY <2>4, <4>2, <4>3
    <3> QED
      BY <3>1, <3>2, <3>3 DEF OneOwner
  <2> QED
    BY <2>1, <2>5, <2>6, <2>7 DEF Orderly
<1>14. harm' \in BOOLEAN /\ owed' \subseteq Objs /\ heap' \in [Places -> Int]
  BY <1>2, DanglesBoolean DEF Shape, OtherTypes
<1>15. DataShape'
  BY <1>2, ShapesStay DEF Shape
<1> QED
  BY <1>1, <1>2, <1>8, <1>9, <1>12, <1>13, <1>14, <1>15, DataStepKeeps

LEMMA InsertKeeps ==
  ASSUME IInv, NEW n \in DataNames, NEW o \in Objs \cup {Plain}, PamSetData(n, o), ~Stored(n),
         data' = <<[name |-> n, obj |-> o]>> \o data, owed' = owed \cup ({o} \cap Objs),
         heap' = Malloc(heap, Node(n)),
         harm' = Dangles(Visited(n)), ret' = "SUCCESS", UNCHANGED stack
  PROVE  IInv'
<1>1. UNCHANGED <<items, env, list>>
  BY DEF PamSetData
<1>2. /\ Open /\ ~harm /\ broken' \in BOOLEAN /\ (broken => broken')
      /\ ~broken' => /\ ~broken /\ ~Ending /\ ~Replacing(n) /\ Orderly
                     /\ \A m \in DataNames : ~Dangles(Visited(m))
      /\ o \notin owed /\ Shape /\ DataBook
  BY StoreUsed
<1>3. /\ DataShape' /\ \A m : Stored(m)' <=> Stored(m) \/ m = n
      /\ ObjOf(n)' = o
      /\ \A m : Stored(m) => ObjOf(m)' = ObjOf(m)
  BY <1>2, Inserted DEF Shape
<1>4. StackShape' /\ (Ending' <=> Ending)
  BY <1>2, <1>3, StackStays DEF Shape, Ending
<1>5. \A m : m \in Left' <=> m \in Left \/ (~Ending /\ m = n)
  <2>1. /\ ~Ending => \A m : m \in Left <=> Stored(m)
        /\ ~Ending' => \A m : m \in Left' <=> Stored(m)'
    BY DEF Left, Stored
  <2>2. Ending => Left' = Left
    BY <1>4 DEF Left
  <2> QED
    BY <1>3, <1>4, <2>1, <2>2
<1>6. \A p : p \in Node(n) <=> p = <<"node", n>> \/ p = <<"name", n>>
  BY DEF Node
<1>7. /\ heap \in [Places -> Int] /\ heap' \in [Places -> Int]
      /\ \A p \in Places : heap'[p] = IF p \in Node(n) THEN heap[p] + 1 ELSE heap[p]
  <2>1. heap \in [Places -> Int]
    BY <1>2 DEF Shape, OtherTypes
  <2> QED
    BY <2>1, HeapEffect
<1>8. Open'
  BY <1>2, <1>6, <1>7, KnownPlaces DEF Open
<1>9. DataBook'
  <2> SUFFICES ASSUME NEW m \in DataNames, NEW t \in {"node", "name"}
               PROVE  Account(<<t, m>>, Stored(m), m \in Left)'
    BY DEF DataBook
  <2>1. Account(<<t, m>>, Stored(m), m \in Left)
    BY <1>2 DEF DataBook
  <2>2. CASE m = n
    <3>1. heap[<<t, n>>] = 0
      BY <1>2, <2>1, <2>2 DEF Account
    <3>2. heap'[<<t, n>>] = 1
      <4>1. <<t, n>> \in Places /\ <<t, n>> \in Node(n)
        BY <1>6, KnownPlaces
      <4> QED
        BY <1>7, <3>1, <4>1
    <3>3. Stored(n)' /\ (~broken' => n \in Left')
      BY <1>2, <1>3, <1>5
    <3> QED
      BY <1>8, <2>2, <3>2, <3>3 DEF Account
  <2>3. CASE m # n
    <3>1. heap'[<<t, m>>] = heap[<<t, m>>]
      BY <1>6, <1>7, <2>3, KnownPlaces
    <3> QED
      BY <1>2, <1>3, <1>4, <1>5, <1>8, <2>1, <2>3, <3>1 DEF Account
  <2> QED
    BY <2>2, <2>3
<1>10. ASSUME ~broken' PROVE Orderly'
  <2>1. ~harm' /\ ~Ending /\ ~Ending' /\ Orderly /\ ~Replacing(n)
    BY <1>2, <1>4, <1>10
  <2>2. Pending' = Pending /\ \A m : m \in LiveNames' <=> m \in LiveNames \/ m = n
    BY <1>4, <1>5, <2>1 DEF Pending, LiveNames, Replacing, Passed
  <2>3. \A m \in LiveNames : m # n /\ ObjOf(m)' = ObjOf(m)
    BY <1>2, <1>3, LeftStored DEF Shape, LiveNames
  <2>4. owed = Objs \cap ({ObjOf(m) : m \in LiveNames} \cup {stack[k].obj : k \in Pending}) /\ OneOwner
    BY <2>1 DEF Orderly
  <2>5. owed' = Objs \cap ({ObjOf(m)' : m \in LiveNames'} \cup {stack'[k].obj : k \in Pending'})
    BY <1>3, <2>2, <2>3, <2>4
  <2>6. OneOwner'
    <3>1. \A m, l \in LiveNames' : ObjOf(m)' = ObjOf(l)' /\ ObjOf(m)' \in Objs => m = l
      <4> SUFFICES ASSUME NEW m \in LiveNames', NEW l \in LiveNames', ObjOf(m)' = ObjOf(l)', ObjOf(m)' \in Objs
                   PROVE  m = l
        OBVIOUS
      <4>1. \A i \in LiveNames : ObjOf(i) \in Objs => ObjOf(i) # o
        BY <1>2, <2>4
      <4>2. CASE m = n \/ l = n
        BY <1>3, <2>2, <2>3, <4>1, <4>2
      <4>3. CASE m \in LiveNames /\ l \in LiveNames
        BY <2>3, <2>4, <4>3 DEF OneOwner
      <4> QED
        BY <2>2, <4>2, <4>3
    <3>2. ASSUME NEW m \in LiveNames', NEW k \in Pending', ObjOf(m)' = stack'[k].obj
          PROVE  ObjOf(m)' \notin Objs
      <4>1. k \in Pending /\ stack'[k].obj = stack[k].obj
        BY <2>2
      <4>2. CASE m = n
        <5>1. stack[k].obj = o
          BY <1>3, <3>2, <4>1, <4>2
        <5>2. stack[k].obj \in Objs => stack[k].obj \in owed
          BY <2>4, <4>1
        <5> QED
          BY <1>2, <3>2, <4>1, <5>1, <5>2
      <4>3. CASE m \in LiveNames
        BY <2>3, <2>4, <3>2, <4>1, <4>3 DEF OneOwner
      <4> QED
        BY <2>2, <4>2, <4>3
    <3>3. \A j, k \in Pending' : stack'[j].obj = stack'[k].obj /\ stack'[j].obj \in Objs => j = k
      BY <2>2, <2>4 DEF OneOwner
    <3> QED
      BY <3>1, <3>2, <3>3 DEF OneOwner
  <2> QED
    BY <2>1, <2>2, <2>5, <2>6 DEF Orderly
<1>11. harm' \in BOOLEAN /\ owed' \subseteq Objs
  BY <1>2, DanglesBoolean DEF Shape, OtherTypes
<1> QED
  BY <1>1, <1>2, <1>3, <1>4, <1>7, <1>9, <1>10, <1>11, DataStepKeeps

LEMMA PamSetDataKeeps ==
  ASSUME IInv, NEW n \in DataNames, NEW o \in Objs \cup {Plain}, PamSetData(n, o)
  PROVE  IInv'
<1>1. Replace(n, o) \/ Insert(n, o)
  BY DEF PamSetData
<1>2. CASE Replace(n, o) /\ ObjOf(n) = Plain
  BY <1>2, HandleAssumption, PlainUpdateKeeps DEF Replace, ObjOf
<1>3. CASE Replace(n, o) /\ ObjOf(n) \in Objs
  BY <1>3, HandleAssumption, ReplaceStartsKeeps DEF Replace, ObjOf
<1>4. CASE Insert(n, o) /\ ret' = "SUCCESS"
  BY <1>4, InsertKeeps DEF Insert
<1>5. CASE Insert(n, o) /\ ret' = "BUF_ERR"
  <2>1. /\ UNCHANGED <<items, env, list, data, owed, heap, stack>> /\ harm' = Dangles(Visited(n))
    BY <1>5 DEF Insert, PamSetData
  <2>2. /\ Open /\ ~harm /\ broken' \in BOOLEAN /\ (broken => broken')
        /\ ~broken' => ~broken /\ Orderly /\ ~Dangles(Visited(n))
        /\ Shape /\ DataBook
    BY StoreUsed
  <2>3. DataShape' /\ StackShape' /\ (Open' <=> Open) /\ (Ending' <=> Ending)
    BY <2>1, <2>2, ShapesStay DEF Shape, Open, Ending
  <2>4. DataBook'
    BY <2>1, <2>2, <2>3, DataBookStays
  <2>5. broken' \/ Orderly'
    BY <2>1, <2>2, OrderlyStays
  <2>6. harm' \in BOOLEAN /\ owed' \subseteq Objs /\ heap' \in [Places -> Int]
    BY <2>1, <2>2, DanglesBoolean DEF Shape, OtherTypes
  <2> QED
    BY <1>5, <2>1, <2>2, <2>3, <2>4, <2>5, <2>6, DataStepKeeps
<1> QED
  BY <1>1, <1>2, <1>3, <1>4, <1>5 DEF Replace, Insert, ObjOf

LEMMA ReplaceReturnsKeeps ==
  ASSUME IInv, ReplaceReturns
  PROVE  IInv'
<1>1. PICK L \in Nat : stack \in Seq(Frames) /\ L = Len(stack) /\ DOMAIN stack = 1..L /\ L <= MaxDepth + 1
  BY DEF IInv, Shape, StackShape
<1>2. L >= 1 /\ stack # <<>> /\ L \in DOMAIN stack /\ L - 1 \in Nat
  BY <1>1 DEF ReplaceReturns
<1>3. PICK n, o : /\ n = stack[L].name /\ o = stack[L].obj /\ stack[L].op = "replace"
                  /\ n \in DataNames /\ o \in Objs \cup {Plain}
  <2>1. stack[L].op = "replace"
    BY <1>1 DEF ReplaceReturns, Top
  <2>2. stack[L] \in Frames
    BY <1>1, <1>2
  <2> QED
    BY <2>1, <2>2 DEF Frames
<1>4. /\ data' = [data EXCEPT ![At(n)].obj = o] /\ harm' = Dangles(Node(n))
      /\ stack' = SubSeq(stack, 1, L - 1) /\ ret' = "SUCCESS" /\ ~harm
      /\ UNCHANGED <<items, env, heap, list, owed, broken>>
  BY <1>1, <1>3 DEF ReplaceReturns, Top, Pop
<1>5. Shape /\ ItemsBook /\ EnvBook /\ DataBook /\ Open
  BY <1>2, <1>4 DEF IInv, Books, Shape, Closed
<1>6. Stored(n)
  BY <1>2, <1>3, <1>5 DEF Shape, StackShape, FrameShape
<1>7. /\ DataShape' /\ \A m : Stored(m)' <=> Stored(m)
      /\ ObjOf(n)' = o
      /\ \A m : Stored(m) /\ m # n => ObjOf(m)' = ObjOf(m)
  BY <1>3, <1>4, <1>5, <1>6, Updated DEF Shape
<1>8. /\ stack' \in Seq(Frames) /\ Len(stack') = L - 1 /\ DOMAIN stack' = 1..(L - 1)
      /\ \A k \in 1..(L - 1) : stack'[k] = stack[k] /\ k \in DOMAIN stack
  <2>1. /\ SubSeq(stack, 1, L - 1) \in Seq(Frames) /\ Len(SubSeq(stack, 1, L - 1)) = L - 1
        /\ \A k \in 1..(L - 1) : SubSeq(stack, 1, L - 1)[k] = stack[k]
    BY <1>1, <1>2
  <2>2. \A k \in 1..(L - 1) : k \in 1..L
    BY <1>2
  <2> QED
    BY <1>1, <1>4, <2>1, <2>2
<1>9. StackShape'
  <2>1. ASSUME NEW k \in 1..(L - 1) PROVE FrameShape(k)'
    <3>1. stack'[k] = stack[k] /\ FrameShape(k)
      BY <1>5, <1>8 DEF Shape, StackShape
    <3> QED
      BY <1>7, <3>1 DEF FrameShape, Distinct
  <2>2. Len(stack') <= MaxDepth + 1
    BY <1>1, <1>8, HandleAssumption
  <2> QED
    BY <1>8, <2>1, <2>2 DEF StackShape
<1>10. /\ DOMAIN stack = DOMAIN stack' \cup {L} /\ L \notin DOMAIN stack'
       /\ \A k \in DOMAIN stack' : stack'[k] = stack[k]
  BY <1>1, <1>2, <1>8
<1>11. /\ Ending' <=> Ending
       /\ Pending = Pending' \cup {L} /\ L \notin Pending'
       /\ Ending => stack'[1] = stack[1]
  <2>1. Ending => 1 \in DOMAIN stack /\ stack[1].op = "end"
    BY <1>5 DEF Ending, Shape, StackShape, FrameShape
  <2> QED
    BY <1>3, <1>10, <2>1 DEF Ending, Pending
<1>12. \A m : m \in Left' <=> m \in Left
  <2>1. /\ ~Ending => \A m : m \in Left <=> Stored(m)
        /\ ~Ending' => \A m : m \in Left' <=> Stored(m)'
    BY DEF Left, Stored
  <2>2. Ending => Left' = Left
    BY <1>11 DEF Left
  <2> QED
    BY <1>7, <1>11, <2>1, <2>2
<1>13. Open' <=> Open
  BY <1>4 DEF Open
<1>14. DataBook'
  BY <1>4, <1>5, <1>7, <1>11, <1>12, <1>13, SameBook
<1>15. ASSUME ~broken' PROVE Orderly'
  <2>1. Orderly /\ ~Ending
    <3>1. Orderly
      BY <1>4, <1>15 DEF IInv
    <3>2. Ending => L = 1 /\ stack[1].op = "end"
      BY <1>1, <1>5, <3>1 DEF Orderly, Ending, Shape, StackShape, FrameShape
    <3> QED
      BY <1>3, <3>1, <3>2
  <2>2. ~harm' /\ ~Ending'
    BY <1>3, <1>4, <1>5, <1>6, <1>11, <2>1, Allocated
  <2>3. /\ owed = Objs \cap ({ObjOf(m) : m \in LiveNames} \cup {stack[k].obj : k \in Pending})
        /\ OneOwner /\ \A j, k \in Pending : stack[j].name = stack[k].name => j = k
    BY <2>1 DEF Orderly
  <2>4. \A k \in Pending' : k \in Pending /\ k # L /\ stack'[k] = stack[k] /\ stack[k].name # n
    <3>1. \A k \in Pending' : k \in Pending /\ k # L /\ stack'[k] = stack[k]
      BY <1>10, <1>11 DEF Pending
    <3> QED
      BY <1>3, <1>11, <2>3, <3>1
  <2>5. \A m : (Replacing(m) <=> m = n \/ Replacing(m)') /\ ~Replacing(n)'
    <3>1. \A m : /\ Replacing(m) <=> \E k \in Pending : stack[k].name = m
                 /\ Replacing(m)' <=> \E k \in Pending' : stack'[k].name = m
      BY DEF Replacing, Pending
    <3> QED
      BY <1>3, <1>11, <2>4, <3>1
  <2>6. /\ \A m : m \in LiveNames' <=> m \in LiveNames \/ m = n
        /\ n \notin LiveNames
    <3>1. n \in Left /\ \A m : ~Passed(m) /\ ~Passed(m)'
      BY <1>5, <1>6, <2>1, <2>2, LeftStored DEF Shape, Passed
    <3> QED
      BY <1>12, <2>5, <3>1 DEF LiveNames
  <2>7. \A m \in LiveNames : ObjOf(m)' = ObjOf(m)
    BY <1>5, <1>7, <2>6, LeftStored DEF Shape, LiveNames
  <2>8. owed' = Objs \cap ({ObjOf(m)' : m \in LiveNames'} \cup {stack'[k].obj : k \in Pending'})
    <3>1. {ObjOf(m)' : m \in LiveNames'} = {ObjOf(m) : m \in LiveNames} \cup {o}
      BY <1>7, <2>6, <2>7
    <3>2. {stack[k].obj : k \in Pending} = {stack'[k].obj : k \in Pending'} \cup {o}
      BY <1>3, <1>11, <2>4
    <3> QED
      BY <1>4, <2>3, <3>1, <3>2
  <2>9. OneOwner'
    <3>1. ASSUME NEW m \in LiveNames', NEW l \in LiveNames', ObjOf(m)' = ObjOf(l)', ObjOf(m)' \in Objs
          PROVE  m = l
      <4>1. \A i \in LiveNames : ObjOf(i) \in Objs => ObjOf(i) # o
        BY <1>3, <1>11, <2>3 DEF OneOwner
      <4>2. CASE m = n \/ l = n
        BY <1>7, <2>6, <2>7, <3>1, <4>1, <4>2
      <4>3. CASE m \in LiveNames /\ l \in LiveNames
        BY <2>3, <2>7, <3>1, <4>3 DEF OneOwner
      <4> QED
        BY <2>6, <4>2, <4>3
    <3>2. ASSUME NEW m \in LiveNames', NEW k \in Pending', ObjOf(m)' = stack'[k].obj
          PROVE  ObjOf(m)' \notin Objs
      <4>1. CASE m = n
        <5>1. stack[L].obj = stack[k].obj /\ k # L /\ L \in Pending /\ k \in Pending
          BY <1>3, <1>7, <1>11, <2>4, <3>2, <4>1
        <5> QED
          BY <1>3, <1>7, <2>3, <4>1, <5>1 DEF OneOwner
      <4>2. CASE m \in LiveNames
        BY <2>3, <2>4, <2>7, <3>2, <4>2 DEF OneOwner
      <4> QED
        BY <2>6, <4>1, <4>2
    <3>3. \A j, k \in Pending' : stack'[j].obj = stack'[k].obj /\ stack'[j].obj \in Objs => j = k
      BY <2>3, <2>4 DEF OneOwner
    <3> QED
      BY <3>1, <3>2, <3>3 DEF OneOwner
  <2>10. \A j, k \in Pending' : stack'[j].name = stack'[k].name => j = k
    BY <2>3, <2>4
  <2> QED
    BY <2>2, <2>8, <2>9, <2>10 DEF Orderly
<1>16. harm' \in BOOLEAN /\ owed' \subseteq Objs /\ heap' \in [Places -> Int] /\ broken' \in BOOLEAN
  BY <1>4, <1>5, DanglesBoolean DEF Shape, OtherTypes
<1> QED
  BY <1>4, <1>5, <1>7, <1>9, <1>11, <1>14, <1>15, <1>16, DataStepKeeps

------------------------------------------------------------------------------
(* pam_end. All that the items and the environment lead to is allocated, and *)
(* nothing else of theirs is.                                                *)
LEMMA EndBlocks ==
  ASSUME ItemsShape
  PROVE  /\ \A i \in Items : \A p \in ItemPlaces(i) : p \in ItemBlocks \cup EnvBlocks <=> p \in items[i]
         /\ <<"array", "block">> \in ItemBlocks \cup EnvBlocks <=> env.array
         /\ \A n : <<"entry", n>> \in ItemBlocks \cup EnvBlocks <=> env.array /\ Found(n)
         /\ <<"handle", "block">> \notin ItemBlocks \cup EnvBlocks
         /\ <<"list", "block">> \notin ItemBlocks \cup EnvBlocks
         /\ \A n, t : t \in {"node", "name"} => <<t, n>> \notin ItemBlocks \cup EnvBlocks
<1>1. \A p \in ItemBlocks : \E i \in Items : p \in items[i] /\ p \in ItemPlaces(i) /\ p[1] = i
  BY DEF ItemsShape, ItemBlocks, ItemPlaces
<1>2. \A p : p \in EnvBlocks <=> env.array /\ (p = <<"array", "block">> \/ \E n : Found(n) /\ p = <<"entry", n>>)
  BY DEF EnvBlocks, Here, Found, Positions
<1>3. \A i \in Items : i \notin {"handle", "array", "list", "entry", "node", "name"}
  BY DEF Items, StringItems
<1>4. ASSUME NEW i \in Items, NEW p \in ItemPlaces(i)
      PROVE  p \in ItemBlocks \cup EnvBlocks <=> p \in items[i]
  <2>1. p \in items[i] => p \in ItemBlocks
    BY DEF ItemBlocks
  <2>2. p \notin EnvBlocks
    BY <1>2, <1>3 DEF ItemPlaces
  <2>3. p \in ItemBlocks => p \in items[i]
    BY <1>1 DEF ItemPlaces
  <2> QED
    BY <2>1, <2>2, <2>3
<1> QED
  BY <1>1, <1>2, <1>3, <1>4

LEMMA PamEndKeeps ==
  ASSUME IInv, PamEnd
  PROVE  IInv'
<1> DEFINE freed == ItemBlocks \cup EnvBlocks
<1>1. /\ Open /\ ~harm /\ stack = <<>> /\ heap' = Free(heap, freed) /\ harm' = Dangles(freed)
      /\ stack' = <<[op |-> "end", running |-> FALSE, rest |-> Names]>> /\ ret' = "none"
      /\ UNCHANGED <<items, env, data, list, owed, broken>>
  BY DEF PamEnd, Usable
<1>2. Shape /\ ItemsBook /\ EnvBook /\ DataBook
  BY <1>1 DEF IInv, Books
<1>3. /\ \A i \in Items : \A p \in ItemPlaces(i) : p \in freed <=> p \in items[i]
      /\ <<"array", "block">> \in freed <=> env.array
      /\ \A n : <<"entry", n>> \in freed <=> env.array /\ Found(n)
      /\ <<"handle", "block">> \notin freed /\ <<"list", "block">> \notin freed
      /\ \A n, t : t \in {"node", "name"} => <<t, n>> \notin freed
  BY <1>2, EndBlocks DEF Shape
<1>4. \A n : Found(n) => env.array
  BY <1>2 DEF Shape, EnvShape, Found, Positions
<1>5. ~Ending
  BY <1>1 DEF Ending
<1> HIDE DEF freed
<1>6. /\ heap \in [Places -> Int] /\ heap' \in [Places -> Int]
      /\ \A p \in Places : heap'[p] = IF p \in freed THEN heap[p] - 1 ELSE heap[p]
  <2>1. heap \in [Places -> Int]
    BY <1>2 DEF Shape, OtherTypes
  <2> QED
    BY <1>1, <2>1, HeapEffect
<1>7. /\ heap'[<<"handle", "block">>] = heap[<<"handle", "block">>]
      /\ heap'[<<"list", "block">>] = heap[<<"list", "block">>]
      /\ \A n \in DataNames, t \in {"node", "name"} : heap'[<<t, n>>] = heap[<<t, n>>]
  BY <1>3, <1>6, KnownPlaces
<1>8. PICK ns : /\ ns = Names /\ Open' /\ ns \in Seq(DataNames) /\ DOMAIN ns = DOMAIN data
                /\ \A k \in DOMAIN data : ns[k] = data[k].name
  <2>1. data \in Seq(Nodes) /\ DOMAIN data = 1..Len(data) /\ Len(data) \in Nat
    BY <1>2 DEF Shape, DataShape
  <2>2. \A k \in 1..Len(data) : data[k].name \in DataNames
    <3>1. \A k \in 1..Len(data) : data[k] \in Nodes
      BY <2>1
    <3> QED
      BY <3>1 DEF Nodes
  <2>3. Names \in Seq(DataNames)
    BY <2>1, <2>2, IsASeq DEF Names
  <2>4. Open'
    BY <1>1, <1>7 DEF Open
  <2> QED
    BY <2>3, <2>4 DEF Names
<1>9. /\ Len(stack') = 1 /\ DOMAIN stack' = {1} /\ stack' \in Seq(Frames)
      /\ stack'[1].op = "end" /\ ~stack'[1].running /\ stack'[1].rest = ns
  <2>1. [op |-> "end", running |-> FALSE, rest |-> Names] \in Frames
    BY <1>8 DEF Frames
  <2> QED
    BY <1>1, <1>8, <2>1
<1>10. Ending' /\ Pending' = {} /\ Pending = {} /\ \A n : ~Replacing(n) /\ ~Replacing(n)' /\ ~Passed(n)'
  BY <1>1, <1>9 DEF Ending, Pending, Replacing, Passed
<1>11. \A n : (n \in Left' <=> Stored(n)) /\ (n \in Left <=> Stored(n)) /\ (Stored(n)' <=> Stored(n))
  <2>1. Left' = {ns[k] : k \in DOMAIN ns}
    BY <1>9, <1>10 DEF Left
  <2> QED
    BY <1>1, <1>5, <1>8, <2>1 DEF Left, Stored
<1>12. StackShape'
  <2>1. Distinct(ns)
    BY <1>2, <1>8 DEF Distinct, Shape, DataShape
  <2>2. \A j \in DOMAIN ns : Stored(ns[j])'
    BY <1>8, <1>11 DEF Stored
  <2>3. FrameShape(1)'
    BY <1>9, <2>1, <2>2 DEF FrameShape, Distinct
  <2>4. 1 <= MaxDepth + 1
    BY HandleAssumption
  <2> QED
    BY <1>9, <2>3, <2>4 DEF StackShape
<1>13. ItemsShape' /\ EnvShape' /\ DataShape'
  BY <1>1, <1>2, ShapesStay DEF Shape
<1>14. OtherTypes' /\ Closed'
  <2>1. harm' \in BOOLEAN
    BY <1>1, DanglesBoolean
  <2>2. OtherTypes'
    BY <1>1, <1>2, <1>6, <1>7, <2>1 DEF Shape, OtherTypes
  <2>3. Closed'
    BY <1>2, <1>7, <1>8 DEF Shape, Closed
  <2> QED
    BY <2>2, <2>3
<1>15. ItemsBook'
  <2> SUFFICES ASSUME NEW i \in Items, NEW p \in ItemPlaces(i)
               PROVE  Account(p, p \in items[i], ~Ending /\ p \in items[i])'
    BY DEF ItemsBook
  <2>1. heap[p] = IF p \in items[i] THEN 1 ELSE 0
    BY <1>1, <1>2, <1>5 DEF ItemsBook, Account
  <2>2. heap'[p] = 0
    BY <1>3, <1>6, <2>1, KnownPlaces
  <2> QED
    BY <1>10, <2>2 DEF Account
<1>16. EnvBook'
  <2>1. heap'[<<"array", "block">>] = 0
    <3>1. heap[<<"array", "block">>] = IF env.array THEN 1 ELSE 0
      BY <1>1, <1>2, <1>5 DEF EnvBook, Account
    <3> QED
      BY <1>3, <1>6, <3>1, KnownPlaces
  <2>2. ASSUME NEW n \in EnvNames PROVE heap'[<<"entry", n>>] = 0
    <3>1. heap[<<"entry", n>>] = IF Found(n) THEN 1 ELSE 0
      BY <1>1, <1>2, <1>5 DEF EnvBook, Account
    <3> QED
      BY <1>3, <1>4, <1>6, <3>1, KnownPlaces
  <2> QED
    BY <1>10, <2>1, <2>2 DEF EnvBook, Account
<1>17. DataBook'
  <2> SUFFICES ASSUME NEW n \in DataNames, NEW t \in {"node", "name"}
               PROVE  Account(<<t, n>>, Stored(n), n \in Left)'
    BY DEF DataBook
  <2>1. Account(<<t, n>>, Stored(n), n \in Left) /\ heap'[<<t, n>>] = heap[<<t, n>>]
    BY <1>2, <1>7 DEF DataBook
  <2> QED
    BY <1>1, <1>5, <1>8, <1>10, <1>11, <2>1 DEF Account
<1>18. ASSUME ~broken' PROVE Orderly'
  <2>1. Orderly
    BY <1>1, <1>18 DEF IInv
  <2>2. ~harm'
    <3>1. ASSUME NEW p \in freed PROVE heap[p] # 0
      <4>1. CASE p \in ItemBlocks
        <5>1. PICK i \in Items : p \in items[i] /\ p \in ItemPlaces(i)
          BY <1>2, <4>1 DEF Shape, ItemsShape, ItemBlocks
        <5> QED
          BY <1>1, <1>2, <1>5, <5>1 DEF ItemsBook, Account
      <4>2. CASE p \in EnvBlocks
        <5>1. \/ env.array /\ p = <<"array", "block">>
              \/ \E n \in EnvNames : Found(n) /\ p = <<"entry", n>>
          <6>1. \A k \in DOMAIN env.list : env.list[k].name \in EnvNames
            <7>1. \A k \in DOMAIN env.list : env.list[k] \in Entries
              BY <1>2 DEF Shape, EnvShape
            <7> QED
              BY <7>1 DEF Entries
          <6> QED
            BY <4>2, <6>1 DEF EnvBlocks, Here, Found, Positions
        <5> QED
          BY <1>1, <1>2, <1>5, <5>1 DEF EnvBook, Account
      <4> QED
        BY <3>1, <4>1, <4>2 DEF freed
    <3> QED
      BY <1>1, <3>1 DEF Dangles
  <2>3. LiveNames' = LiveNames /\ \A n : ObjOf(n)' = ObjOf(n)
    <3>1. \A n : ~Passed(n)
      BY <1>5 DEF Passed
    <3>2. \A n : ObjOf(n)' = ObjOf(n)
      BY <1>1 DEF ObjOf, At
    <3> QED
      BY <1>10, <1>11, <3>1, <3>2 DEF LiveNames
  <2> QED
    BY <1>1, <1>9, <1>10, <2>1, <2>2, <2>3 DEF Orderly, OneOwner
<1> QED
  BY <1>12, <1>13, <1>14, <1>15, <1>16, <1>17, <1>18 DEF IInv, Shape, Books

(* pam_end is the outermost call, and where it is the innermost too it is    *)
(* the only one.                                                             *)
LEMMA InEndIs ==
  ASSUME IInv, NEW r \in BOOLEAN, InEnd(r)
  PROVE  /\ Len(stack) = 1 /\ Top = stack[1] /\ stack[1] \in Frames /\ DOMAIN stack = {1}
         /\ stack[1].op = "end" /\ stack[1].running = r /\ stack[1].rest \in Seq(DataNames)
         /\ Ending /\ Left = {stack[1].rest[k] : k \in DOMAIN stack[1].rest} /\ Pending = {}
         /\ \A n : ~Replacing(n)
         /\ ~harm /\ Open /\ Shape /\ ItemsBook /\ EnvBook /\ DataBook
         /\ Distinct(stack[1].rest) /\ (r => stack[1].rest # <<>>)
<1>1. PICK L \in Nat : stack \in Seq(Frames) /\ L = Len(stack) /\ DOMAIN stack = 1..L
  BY DEF IInv, Shape, StackShape
<1>2. L >= 1 /\ Top = stack[L] /\ L \in DOMAIN stack /\ stack[L].op = "end" /\ stack[L].running = r
      /\ ~harm /\ stack # <<>>
  BY <1>1 DEF InEnd, Top
<1>3. L = 1 /\ Distinct(stack[L].rest) /\ (r => stack[L].rest # <<>>)
  BY <1>2 DEF IInv, Shape, StackShape, FrameShape
<1>4. stack[1] \in Frames /\ DOMAIN stack = {1}
  <2>1. DOMAIN stack = 1..1
    BY <1>1, <1>3
  <2> QED
    BY <1>1, <2>1
<1>5. stack[1].rest \in Seq(DataNames)
  BY <1>2, <1>3, <1>4 DEF Frames
<1>6. Open /\ Shape /\ ItemsBook /\ EnvBook /\ DataBook
  BY <1>2 DEF IInv, Books, Shape, Closed
<1>7. Ending /\ Pending = {} /\ \A n : ~Replacing(n)
  BY <1>2, <1>3, <1>4 DEF Ending, Pending, Replacing
<1>8. Left = {stack[1].rest[k] : k \in DOMAIN stack[1].rest}
  BY <1>7 DEF Left
<1> QED
  BY <1>1, <1>2, <1>3, <1>4, <1>5, <1>6, <1>7, <1>8

LEMMA EndRunsCleanupKeeps ==
  ASSUME IInv, EndRunsCleanup
  PROVE  IInv'
<1>1. PICK c, rs : /\ c = Current /\ rs = stack[1].rest /\ InEnd(FALSE) /\ rs # <<>>
  BY InEndIs DEF EndRunsCleanup, InEnd
<1>2. /\ Len(stack) = 1 /\ Top = stack[1] /\ stack[1] \in Frames /\ DOMAIN stack = {1}
      /\ stack[1].op = "end" /\ stack[1].running = FALSE /\ rs \in Seq(DataNames)
      /\ Ending /\ Left = {rs[k] : k \in DOMAIN rs} /\ Pending = {}
      /\ \A n : ~Replacing(n)
      /\ ~harm /\ Open /\ Shape /\ DataBook
      /\ Distinct(rs)
  BY <1>1, InEndIs
<1>3. c = rs[1] /\ c = Head(rs) /\ 1 \in DOMAIN rs /\ c \in DataNames /\ c \in Left
  BY <1>1, <1>2 DEF Current
<1>4. /\ ObjOf(c) \in Objs /\ harm' = (Dangles(Node(c)) \/ ObjOf(c) \notin owed)
      /\ owed' = owed \ {ObjOf(c)} /\ stack' = [stack EXCEPT ![1].running = TRUE]
      /\ ret' = "none" /\ UNCHANGED <<items, env, data, heap, list, broken>>
  BY <1>1, <1>2 DEF EndRunsCleanup, ObjOf
<1>5. /\ stack' = <<[stack[1] EXCEPT !.running = TRUE]>>
      /\ [stack[1] EXCEPT !.running = TRUE] \in Frames
  <2>1. stack \in Seq(Frames)
    BY <1>2 DEF Shape, StackShape
  <2>2. [stack[1] EXCEPT !.running = TRUE] \in Frames
    BY <1>2 DEF Frames
  <2> DEFINE f == [stack[1] EXCEPT !.running = TRUE]
  <2>3. stack' = [stack EXCEPT ![1] = f]
    BY <1>4
  <2> HIDE DEF f
  <2>4. stack' = <<f>>
    BY <1>2, <2>1, <2>3
  <2> QED
    BY <2>2, <2>4 DEF f
<1>6. /\ stack' \in Seq(Frames) /\ Len(stack') = 1 /\ DOMAIN stack' = {1}
      /\ stack'[1].op = "end" /\ stack'[1].running = TRUE /\ stack'[1].rest = rs
  BY <1>1, <1>2, <1>5 DEF Frames
<1>7. /\ Ending' /\ Pending' = {} /\ \A n : ~Replacing(n)'
      /\ Left' = Left /\ \A n : (Passed(n)' <=> n = c) /\ ~Passed(n)
  <2>1. Ending' /\ Pending' = {} /\ \A n : ~Replacing(n)'
    BY <1>6 DEF Ending, Pending, Replacing
  <2>2. Left' = Left
    BY <1>2, <1>6, <2>1 DEF Left
  <2> QED
    BY <1>2, <1>3, <1>6, <2>1, <2>2 DEF Passed
<1>8. \A n : (Stored(n)' <=> Stored(n)) /\ ObjOf(n)' = ObjOf(n)
  BY <1>4 DEF Stored, ObjOf, At
<1>9. StackShape'
  <2>1. FrameShape(1)
    BY <1>2 DEF Shape, StackShape
  <2>2. \A j \in DOMAIN rs : Stored(rs[j])
    BY <1>1, <1>2, <2>1 DEF FrameShape
  <2>3. FrameShape(1)'
    BY <1>1, <1>2, <1>6, <1>8, <2>2 DEF FrameShape, Distinct
  <2>4. Len(stack') <= MaxDepth + 1
    BY <1>6, HandleAssumption
  <2> QED
    BY <1>6, <2>3, <2>4 DEF StackShape
<1>10. DataBook'
  <2>1. Open' <=> Open
    BY <1>4 DEF Open
  <2> QED
    BY <1>2, <1>4, <1>7, <1>8, <2>1, SameBook
<1>11. ASSUME ~broken' PROVE Orderly'
  <2>1. Orderly
    BY <1>4, <1>11 DEF IInv
  <2>2. LiveNames = Left /\ LiveNames' = Left \ {c}
    BY <1>2, <1>7 DEF LiveNames
  <2>3. owed = Objs \cap {ObjOf(n) : n \in LiveNames} /\ OneOwner
    BY <1>2, <2>1 DEF Orderly
  <2>4. ~harm'
    <3>1. ObjOf(c) \in owed
      BY <1>3, <1>4, <2>2, <2>3
    <3>2. ASSUME NEW t \in {"node", "name"} PROVE heap[<<t, c>>] = 1
      <4>1. Account(<<t, c>>, Stored(c), c \in Left)
        BY <1>2, <1>3 DEF DataBook
      <4> QED
        BY <1>2, <1>3, <1>4, <1>11, <4>1 DEF Account
    <3>3. \A p \in Node(c) : p = <<"node", c>> \/ p = <<"name", c>>
      BY DEF Node
    <3>4. ~Dangles(Node(c))
      BY <3>2, <3>3 DEF Dangles
    <3> QED
      BY <1>4, <3>1, <3>4
  <2>5. OneOwner'
    BY <1>7, <1>8, <2>2, <2>3 DEF OneOwner
  <2>6. owed' = Objs \cap {ObjOf(n)' : n \in LiveNames'}
    <3>1. \A n \in Left : n # c => ObjOf(n) # ObjOf(c)
      BY <1>3, <1>4, <2>2, <2>3 DEF OneOwner
    <3>2. {ObjOf(n)' : n \in LiveNames'} = {ObjOf(n) : n \in Left \ {c}}
      BY <1>8, <2>2
    <3>3. \A x : x \in {ObjOf(n) : n \in Left \ {c}} <=> x \in {ObjOf(n) : n \in Left} /\ x # ObjOf(c)
      BY <1>3, <3>1
    <3> QED
      BY <1>4, <2>2, <2>3, <3>2, <3>3
  <2> QED
    BY <1>6, <1>7, <2>4, <2>5, <2>6 DEF Orderly
<1>12. harm' \in BOOLEAN /\ owed' \subseteq Objs /\ heap' \in [Places -> Int] /\ broken' \in BOOLEAN /\ DataShape'
  BY <1>2, <1>4, DanglesBoolean, ShapesStay DEF Shape, OtherTypes
<1> QED
  BY <1>2, <1>4, <1>7, <1>9, <1>10, <1>11, <1>12, DataStepKeeps

LEMMA EndFreesNodeKeeps ==
  ASSUME IInv, EndFreesNode
  PROVE  IInv'
<1>0. PICK r \in BOOLEAN : InEnd(r) /\ (~r => Top.rest # <<>> /\ data[At(Current)].obj = Plain)
  BY DEF EndFreesNode
<1>1. PICK c, rs : /\ c = Current /\ rs = stack[1].rest /\ InEnd(r) /\ rs # <<>>
                   /\ ~r => data[At(c)].obj = Plain
  <2>1. Top = stack[1] /\ (r => stack[1].rest # <<>>)
    BY <1>0, InEndIs
  <2> QED
    BY <1>0, <2>1
<1>2. /\ Len(stack) = 1 /\ Top = stack[1] /\ stack[1] \in Frames /\ DOMAIN stack = {1}
      /\ stack[1].op = "end" /\ stack[1].running = r /\ rs \in Seq(DataNames)
      /\ Ending /\ Left = {rs[k] : k \in DOMAIN rs} /\ Pending = {}
      /\ \A n : ~Replacing(n)
      /\ ~harm /\ Open /\ Shape /\ DataBook
      /\ Distinct(rs)
  BY <1>1, InEndIs
<1>3. c = rs[1] /\ c = Head(rs) /\ 1 \in DOMAIN rs /\ c \in DataNames /\ c \in Left
  BY <1>1, <1>2 DEF Current
<1>4. /\ harm' = Dangles(Node(c)) /\ heap' = Free(heap, Node(c))
      /\ stack' = [stack EXCEPT ![1].running = FALSE, ![1].rest = Tail(rs)]
      /\ ret' = "none" /\ UNCHANGED <<items, env, data, list, owed, broken>>
  BY <1>1, <1>2 DEF EndFreesNode
<1>5. PICK ts : /\ ts = Tail(rs) /\ ts \in Seq(DataNames) /\ DOMAIN ts = 1..(Len(rs) - 1)
                /\ \A k \in DOMAIN ts : k + 1 \in DOMAIN rs /\ ts[k] = rs[k + 1]
                /\ DOMAIN rs = 1..Len(rs) /\ Len(rs) \in Nat
  <2>1. /\ Tail(rs) \in Seq(DataNames) /\ Len(Tail(rs)) = Len(rs) - 1
        /\ \A k \in 1..Len(Tail(rs)) : Tail(rs)[k] = rs[k + 1]
        /\ Len(rs) \in Nat /\ DOMAIN rs = 1..Len(rs)
    BY <1>1, <1>2, HeadTailProperties
  <2>2. DOMAIN Tail(rs) = 1..(Len(rs) - 1)
    BY <2>1
  <2>3. \A k \in 1..(Len(rs) - 1) : k + 1 \in 1..Len(rs)
    BY <2>1
  <2> QED
    BY <2>1, <2>2, <2>3
<1>6. /\ Distinct(ts)
      /\ \A n : n \in {ts[k] : k \in DOMAIN ts} <=> n \in Left /\ n # c
  <2>1. Distinct(ts)
    <3> SUFFICES ASSUME NEW j \in DOMAIN ts, NEW k \in DOMAIN ts, ts[j] = ts[k] PROVE j = k
      BY DEF Distinct
    <3>1. j + 1 = k + 1
      BY <1>2, <1>5 DEF Distinct
    <3> QED
      BY <1>5, <3>1
  <2>2. ASSUME NEW k \in DOMAIN ts PROVE ts[k] \in Left /\ ts[k] # c
    <3>1. k + 1 \in DOMAIN rs /\ ts[k] = rs[k + 1] /\ k + 1 # 1
      BY <1>5
    <3> QED
      BY <1>2, <1>3, <3>1 DEF Distinct
  <2>3. ASSUME NEW n \in Left, n # c PROVE n \in {ts[k] : k \in DOMAIN ts}
    <3>1. PICK k \in DOMAIN rs : rs[k] = n
      BY <1>2
    <3>2. k # 1
      BY <1>3, <2>3, <3>1
    <3>3. k - 1 \in DOMAIN ts /\ (k - 1) + 1 = k
      BY <1>5, <3>2
    <3> QED
      BY <1>5, <3>1, <3>3
  <2> QED
    BY <2>1, <2>2, <2>3
<1>7. /\ stack' \in Seq(Frames) /\ Len(stack') = 1 /\ DOMAIN stack' = {1}
      /\ stack'[1].op = "end" /\ stack'[1].running = FALSE /\ stack'[1].rest = ts
  <2> DEFINE f == [stack[1] EXCEPT !.running = FALSE, !.rest = ts]
  <2>1. stack \in Seq(Frames)
    BY <1>2 DEF Shape, StackShape
  <2>2. f \in Frames /\ f.op = "end" /\ f.running = FALSE /\ f.rest = ts
    BY <1>2, <1>5 DEF Frames
  <2>3. stack' = [stack EXCEPT ![1] = f]
    BY <1>2, <1>4, <1>5
  <2> HIDE DEF f
  <2>4. stack' = <<f>>
    BY <1>2, <2>1, <2>3
  <2> QED
    BY <2>2, <2>4
<1>8. /\ Ending' /\ Pending' = {} /\ \A n : ~Replacing(n)' /\ ~Passed(n)'
      /\ \A n : n \in Left' <=> n \in Left /\ n # c
  <2>1. Ending' /\ Pending' = {} /\ \A n : ~Replacing(n)' /\ ~Passed(n)'
    BY <1>7 DEF Ending, Pending, Replacing, Passed
  <2>2. Left' = {ts[k] : k \in DOMAIN ts}
    BY <1>7, <2>1 DEF Left
  <2> QED
    BY <1>6, <2>1, <2>2
<1>9. \A n : (Stored(n)' <=> Stored(n)) /\ ObjOf(n)' = ObjOf(n)
  BY <1>4 DEF Stored, ObjOf, At
<1>10. StackShape'
  <2>1. \A j \in DOMAIN ts : Stored(ts[j])
    <3>1. \A n \in Left : Stored(n)
      BY <1>2, LeftStored DEF Shape
    <3> QED
      BY <1>6, <3>1
  <2>2. FrameShape(1)'
    BY <1>6, <1>7, <1>9, <2>1 DEF FrameShape, Distinct
  <2>3. Len(stack') <= MaxDepth + 1
    BY <1>7, HandleAssumption
  <2> QED
    BY <1>7, <2>2, <2>3 DEF StackShape
<1>11. \A p : p \in Node(c) <=> p = <<"node", c>> \/ p = <<"name", c>>
  BY DEF Node
<1>12. /\ heap \in [Places -> Int] /\ heap' \in [Places -> Int]
       /\ \A p \in Places : heap'[p] = IF p \in Node(c) THEN heap[p] - 1 ELSE heap[p]
  <2>1. heap \in [Places -> Int]
    BY <1>2 DEF Shape, OtherTypes
  <2> QED
    BY <1>4, <2>1, HeapEffect
<1>13. Open'
  BY <1>2, <1>11, <1>12, KnownPlaces DEF Open
<1>14. ASSUME ~harm' PROVE DataBook'
  <2> SUFFICES ASSUME NEW m \in DataNames, NEW t \in {"node", "name"}
               PROVE  Account(<<t, m>>, Stored(m), m \in Left)'
    BY DEF DataBook
  <2>1. Account(<<t, m>>, Stored(m), m \in Left)
    BY <1>2 DEF DataBook
  <2>2. <<t, m>> \in Places
    BY KnownPlaces
  <2>3. CASE m = c
    <3>1. <<t, m>> \in Node(c)
      BY <1>11, <2>3
    <3>2. heap[<<t, m>>] = 1
      BY <1>4, <1>14, <2>1, <3>1 DEF Dangles, Account
    <3>3. heap'[<<t, m>>] = 0
      BY <1>12, <2>2, <3>1, <3>2
    <3> QED
      BY <1>8, <2>3, <3>3 DEF Account
  <2>4. CASE m # c
    <3>1. heap'[<<t, m>>] = heap[<<t, m>>]
      BY <1>11, <1>12, <2>2, <2>4
    <3> QED
      BY <1>2, <1>4, <1>8, <1>9, <1>13, <2>1, <2>4, <3>1 DEF Account
  <2> QED
    BY <2>3, <2>4
<1>15. ASSUME ~broken' PROVE Orderly'
  <2>1. Orderly
    BY <1>4, <1>15 DEF IInv
  <2>2. ~harm'
    <3>1. ASSUME NEW t \in {"node", "name"} PROVE heap[<<t, c>>] = 1
      <4>1. Account(<<t, c>>, Stored(c), c \in Left)
        BY <1>2, <1>3 DEF DataBook
      <4> QED
        BY <1>2, <1>3, <1>4, <1>15, <4>1 DEF Account
    <3> QED
      BY <1>4, <1>11, <3>1 DEF Dangles
  <2>3. \A n : n \in LiveNames' <=> n \in Left /\ n # c
    BY <1>8 DEF LiveNames
  <2>4. \A n : n \in LiveNames <=> n \in Left /\ ~(r /\ n = c)
    BY <1>1, <1>2, <1>3 DEF LiveNames, Passed
  <2>5. owed = Objs \cap {ObjOf(n) : n \in LiveNames} /\ OneOwner
    BY <1>2, <2>1 DEF Orderly
  <2>6. OneOwner'
    BY <1>8, <1>9, <2>3, <2>4, <2>5 DEF OneOwner
  <2>7. owed' = Objs \cap {ObjOf(n)' : n \in LiveNames'}
    <3>1. ~r => ObjOf(c) \notin Objs
      BY <1>1, HandleAssumption DEF ObjOf
    <3>2. \A x \in Objs : x \in {ObjOf(n) : n \in LiveNames'} <=> x \in {ObjOf(n) : n \in LiveNames}
      BY <2>3, <2>4, <3>1
    <3>3. {ObjOf(n)' : n \in LiveNames'} = {ObjOf(n) : n \in LiveNames'}
      BY <1>9
    <3> QED
      BY <1>4, <2>5, <3>2, <3>3
  <2> QED
    BY <1>7, <1>8, <2>2, <2>6, <2>7 DEF Orderly
<1>16. harm' \in BOOLEAN /\ owed' \subseteq Objs /\ broken' \in BOOLEAN /\ DataShape'
  BY <1>2, <1>4, DanglesBoolean, ShapesStay DEF Shape, OtherTypes
<1> QED
  BY <1>2, <1>3, <1>4, <1>8, <1>10, <1>12, <1>14, <1>15, <1>16, DataStepKeeps

LEMMA EndReturnsKeeps ==
  ASSUME IInv, EndReturns
  PROVE  IInv'
<1>1. /\ InEnd(FALSE) /\ Top.rest = <<>> /\ heap' = Free(heap, Here("handle")) /\ stack' = <<>>
      /\ items' = NoItems /\ env' = NoEnv /\ data' = <<>> /\ ret' = "SUCCESS"
      /\ UNCHANGED <<list, owed, harm, broken>>
  BY DEF EndReturns
<1>2. /\ Ending /\ Left = {} /\ Pending = {} /\ ~harm /\ Open
      /\ Shape /\ ItemsBook /\ EnvBook /\ DataBook
  <2>1. /\ Ending /\ Left = {stack[1].rest[k] : k \in DOMAIN stack[1].rest} /\ Pending = {}
        /\ ~harm /\ Open /\ Shape /\ ItemsBook /\ EnvBook /\ DataBook /\ Top = stack[1]
    BY <1>1, InEndIs
  <2>2. Left = {}
    BY <1>1, <2>1
  <2> QED
    BY <2>1, <2>2
<1>3. /\ heap \in [Places -> Int] /\ heap' \in [Places -> Int]
      /\ \A p \in Places : p # <<"handle", "block">> => heap'[p] = heap[p]
      /\ heap'[<<"handle", "block">>] = 0
  <2>1. heap \in [Places -> Int] /\ heap[<<"handle", "block">>] = 1
    BY <1>2 DEF Shape, OtherTypes, Open
  <2>2. \A p : p \in Here("handle") <=> p = <<"handle", "block">>
    BY DEF Here
  <2> QED
    BY <1>1, <2>1, <2>2, HeapEffect, KnownPlaces
<1>4. ~Open' /\ ~Ending' /\ Left' = {} /\ Pending' = {} /\ LiveNames' = {}
  BY <1>1, <1>3 DEF Open, Ending, Left, Pending, LiveNames
<1>5. ItemsShape' /\ EnvShape' /\ DataShape' /\ StackShape'
  BY <1>1, HandleAssumption DEF ItemsShape, EnvShape, DataShape, StackShape, NoItems, NoEnv, NamesUnique
<1>6. OtherTypes' /\ Closed'
  BY <1>1, <1>2, <1>3, KnownPlaces DEF Shape, OtherTypes, Closed
<1>7. ItemsBook'
  <2> SUFFICES ASSUME NEW i \in Items, NEW p \in ItemPlaces(i)
               PROVE  Account(p, p \in items[i], ~Ending /\ p \in items[i])'
    BY DEF ItemsBook
  <2>1. heap'[p] = heap[p]
    BY <1>3, KnownPlaces, ItemPlacesApart
  <2> QED
    BY <1>1, <1>2, <1>4, <2>1 DEF ItemsBook, Account
<1>8. EnvBook'
  <2>1. /\ heap'[<<"array", "block">>] = heap[<<"array", "block">>]
        /\ \A n \in EnvNames : heap'[<<"entry", n>>] = heap[<<"entry", n>>]
    BY <1>3, KnownPlaces
  <2> QED
    BY <1>1, <1>2, <1>4, <2>1 DEF EnvBook, Account
<1>9. DataBook'
  <2> SUFFICES ASSUME NEW n \in DataNames, NEW t \in {"node", "name"}
               PROVE  Account(<<t, n>>, Stored(n), n \in Left)'
    BY DEF DataBook
  <2>1. Account(<<t, n>>, Stored(n), n \in Left) /\ heap'[<<t, n>>] = heap[<<t, n>>]
    BY <1>2, <1>3, KnownPlaces DEF DataBook
  <2> QED
    BY <1>1, <1>2, <1>4, <2>1 DEF Account
<1>10. ASSUME ~broken' PROVE Orderly'
  <2>1. owed = {}
    <3>1. LiveNames = {}
      BY <1>2 DEF LiveNames
    <3>2. owed = Objs \cap ({ObjOf(n) : n \in LiveNames} \cup {stack[k].obj : k \in Pending})
      BY <1>1, <1>10 DEF IInv, Orderly
    <3> QED
      BY <1>2, <3>1, <3>2
  <2> QED
    BY <1>1, <1>2, <1>4, <2>1 DEF Orderly, OneOwner
<1> QED
  BY <1>5, <1>6, <1>7, <1>8, <1>9, <1>10 DEF IInv, Shape, Books

------------------------------------------------------------------------------
LEMMA Quiet == ASSUME IInv, UNCHANGED vars PROVE IInv'
<1>1. UNCHANGED <<items, env, data, stack, heap, list, owed, ret, harm, broken>>
  BY DEF vars
<1>2. Shape'
  BY <1>1, ShapesStay DEF IInv, Shape, OtherTypes, Closed, Open
<1>3. (Open' <=> Open) /\ (Ending' <=> Ending)
  BY <1>1 DEF Open, Ending
<1>4. Books'
  BY <1>1, <1>3, ItemsBookStays, EnvBookStays, DataBookStays DEF IInv, Books
<1>5. broken' \/ Orderly'
  <2>1. Orderly => Orderly'
    BY <1>1, OrderlyStays DEF Orderly
  <2> QED
    BY <1>1, <2>1 DEF IInv
<1> QED
  BY <1>2, <1>4, <1>5 DEF IInv

LEMMA InvNext == IInv /\ [Next]_vars => IInv'
<1> SUFFICES ASSUME IInv, [Next]_vars PROVE IInv'
  OBVIOUS
<1>1. ASSUME NEW user \in BOOLEAN, NEW copied \in -1..3, PamStart(user, copied) PROVE IInv'
  BY <1>1, PamStartKeeps
<1>2. ASSUME NEW i \in Items, PamGetItem(i) PROVE IInv'
  BY <1>2, PamGetItemKeeps
<1>3. ASSUME NEW i \in Settable, NEW src \in Sources(i), NEW parts \in Parts(i), PamSetItem(i, src, parts)
      PROVE  IInv'
  BY <1>3, SettableAssumption, PamSetItemKeeps
<1>4. ASSUME NEW n \in EnvNames, DeleteEnv(n) PROVE IInv'
  BY <1>4, DeleteEnvKeeps
<1>5. ASSUME NEW n \in EnvNames, NEW v \in Values, PutEnv(n, v) PROVE IInv'
  BY <1>5, PutEnvKeeps
<1>6. CASE PamGetEnv
  BY <1>6, PamGetEnvKeeps
<1>7. ASSUME NEW copied \in -1..MaxEnv, PamGetEnvList(copied) PROVE IInv'
  BY <1>7, PamGetEnvListKeeps
<1>8. CASE CallerFreesList
  BY <1>8, CallerFreesListKeeps
<1>9. ASSUME NEW n \in DataNames, NEW o \in Objs \cup {Plain}, PamSetData(n, o) PROVE IInv'
  BY <1>9, PamSetDataKeeps
<1>10. ASSUME NEW n \in DataNames, PamGetData(n) PROVE IInv'
  BY <1>10, PamGetDataKeeps
<1>11. CASE ReplaceReturns
  BY <1>11, ReplaceReturnsKeeps
<1>12. CASE PamEnd
  BY <1>12, PamEndKeeps
<1>13. CASE EndRunsCleanup
  BY <1>13, EndRunsCleanupKeeps
<1>14. CASE EndFreesNode
  BY <1>14, EndFreesNodeKeeps
<1>15. CASE EndReturns
  BY <1>15, EndReturnsKeeps
<1>16. CASE UNCHANGED vars
  BY <1>16, Quiet
<1> QED
  BY <1>1, <1>2, <1>3, <1>4, <1>5, <1>6, <1>7, <1>8, <1>9, <1>10, <1>11, <1>12, <1>13, <1>14, <1>15,
     <1>16 DEF Next

(* The invariant holds throughout every history of a handle, or of several   *)
(* one after the other.                                                      *)
THEOREM Invariance == Spec => []IInv
  BY InvInit, InvNext, PTL DEF Spec

(* Every variable keeps its type, and no place of the handle ever has two    *)
(* blocks or fewer than none, unless a callback has broken a rule and done   *)
(* harm.                                                                     *)
THEOREM TypeCorrect == Spec => []TypeOK
<1>1. IInv => TypeOK
  <2> SUFFICES ASSUME IInv PROVE TypeOK
    OBVIOUS
  <2>1. /\ items \in [Items -> SUBSET Places] /\ list \in 0..(MaxEnv + 1) /\ owed \subseteq Objs
        /\ env.array \in BOOLEAN /\ env.list \in Seq(Entries) /\ data \in Seq(Nodes)
        /\ stack \in Seq(Frames) /\ Len(stack) <= MaxDepth + 1
        /\ ret \in {"none", "SUCCESS", "BUF_ERR", "BAD_ITEM", "NO_MODULE_DATA"}
        /\ harm \in BOOLEAN /\ broken \in BOOLEAN
    BY DEF IInv, Shape, ItemsShape, EnvShape, DataShape, StackShape, OtherTypes
  <2>2. ASSUME ~harm, NEW p \in Places \ Here("list") PROVE heap[p] \in 0..1
    <3>1. ItemsBook /\ EnvBook /\ DataBook /\ Closed /\ p # <<"list", "block">>
      BY <2>2 DEF IInv, Books, Shape, Here
    <3>2. CASE p = <<"handle", "block">>
      BY <3>1, <3>2 DEF Closed
    <3>3. CASE p = <<"array", "block">>
      BY <3>1, <3>3 DEF EnvBook, Account
    <3>4. CASE \E i \in Items : p \in ItemPlaces(i)
      BY <3>1, <3>4 DEF ItemsBook, Account
    <3>5. CASE \E n \in EnvNames : p = <<"entry", n>>
      BY <3>1, <3>5 DEF EnvBook, Account
    <3>6. CASE \E n \in DataNames, t \in {"node", "name"} : p = <<t, n>>
      BY <3>1, <3>6 DEF DataBook, Account
    <3> QED
      BY <3>1, <3>2, <3>3, <3>4, <3>5, <3>6, PlacesKinds
  <2> QED
    BY <2>1, <2>2 DEF TypeOK
<1> QED
  BY <1>1, Invariance, PTL

(* As long as the callbacks keep the rules, what is allocated is what the    *)
(* handle leads to, whichever malloc fails and however calls nest, nothing   *)
(* is left without a handle, and each object whose cleanup was asked for and *)
(* has not run is one that is stored or being stored.                        *)
THEOREM NothingIsLost == Spec => []NothingLost
<1>1. IInv => NothingLost
  <2> SUFFICES ASSUME IInv, ~broken PROVE NothingLost
    BY DEF NothingLost
  <2>1. Shape /\ Orderly /\ ~harm /\ ItemsBook /\ EnvBook /\ DataBook
    BY DEF IInv, Books, Orderly
  <2>2. ASSUME NEW p \in Places \ Here("list") PROVE heap[p] = IF Open /\ p \in Reachable THEN 1 ELSE 0
    <3>0. /\ p # <<"list", "block">> /\ \A q : q \in Here("handle") <=> q = <<"handle", "block">>
          /\ \A n : \A q : q \in Node(n) <=> q = <<"node", n>> \/ q = <<"name", n>>
      BY DEF Here, Node
    <3>1. /\ \A i \in Items : \A q \in ItemPlaces(i) : q \in ItemBlocks \cup EnvBlocks <=> q \in items[i]
          /\ <<"array", "block">> \in ItemBlocks \cup EnvBlocks <=> env.array
          /\ \A n : <<"entry", n>> \in ItemBlocks \cup EnvBlocks <=> env.array /\ Found(n)
          /\ <<"handle", "block">> \notin ItemBlocks \cup EnvBlocks
          /\ \A n, t : t \in {"node", "name"} => <<t, n>> \notin ItemBlocks \cup EnvBlocks
      BY <2>1, EndBlocks DEF Shape
    <3>2. \A q : q \in Reachable <=> \/ q \in Here("handle")
                                     \/ \E n \in Left : q \in Node(n)
                                     \/ ~Ending /\ q \in ItemBlocks \cup EnvBlocks
      <4>1. CASE Ending
        BY <4>1 DEF Reachable
      <4>2. CASE ~Ending
        BY <4>2 DEF Reachable
      <4> QED
        BY <4>1, <4>2
    <3>3. CASE p = <<"handle", "block">>
      BY <2>1, <3>0, <3>2, <3>3 DEF Shape, Closed, Open
    <3>4. CASE p = <<"array", "block">>
      <4>1. p \in Reachable <=> ~Ending /\ env.array
        BY <3>0, <3>1, <3>2, <3>4
      <4> QED
        BY <2>1, <3>4, <4>1 DEF EnvBook, Account
    <3>5. CASE \E i \in Items : p \in ItemPlaces(i)
      <4>1. PICK i \in Items : p \in ItemPlaces(i)
        BY <3>5
      <4>2. p # <<"handle", "block">> /\ \A n : p \notin Node(n)
        BY <3>0, <4>1, ItemPlacesApart
      <4>3. p \in Reachable <=> ~Ending /\ p \in items[i]
        BY <3>0, <3>1, <3>2, <4>1, <4>2
      <4> QED
        BY <2>1, <4>1, <4>3 DEF ItemsBook, Account
    <3>6. CASE \E n \in EnvNames : p = <<"entry", n>>
      <4>1. PICK n \in EnvNames : p = <<"entry", n>>
        BY <3>6
      <4>2. Found(n) => env.array
        BY <2>1 DEF Shape, EnvShape, Found, Positions
      <4>3. p \in Reachable <=> ~Ending /\ Found(n)
        BY <3>0, <3>1, <3>2, <4>1, <4>2
      <4> QED
        BY <2>1, <4>1, <4>3 DEF EnvBook, Account
    <3>7. CASE \E n \in DataNames, t \in {"node", "name"} : p = <<t, n>>
      <4>1. PICK n \in DataNames, t \in {"node", "name"} : p = <<t, n>>
        BY <3>7
      <4>2. p \in Reachable <=> n \in Left
        BY <3>0, <3>1, <3>2, <4>1
      <4>3. Account(p, Stored(n), n \in Left)
        BY <2>1, <4>1 DEF DataBook
      <4> QED
        BY <4>2, <4>3 DEF Account
    <3> QED
      BY <3>0, <3>3, <3>4, <3>5, <3>6, <3>7, PlacesKinds
  <2>3. heap[<<"list", "block">>] = list
    BY <2>1 DEF Shape, OtherTypes
  <2>4. LiveNames = {m \in Left : ~Replacing(m) /\ ~(Ending /\ stack[1].running /\ m = Current)}
    <3>1. Ending => Top = stack[1]
      BY <2>1 DEF Orderly, Top
    <3>2. \A m : Passed(m) <=> Ending /\ stack[1].running /\ m = Current
      BY <3>1 DEF Passed, Current
    <3> QED
      BY <3>2 DEF LiveNames
  <2>5. owed = Objs \cap
          ({data[At(n)].obj : n \in {m \in Left : ~Replacing(m) /\ ~(Ending /\ stack[1].running /\ m = Current)}}
           \cup {stack[k].obj : k \in {j \in DOMAIN stack : stack[j].op = "replace"}})
    BY <2>1, <2>4 DEF Orderly, Pending, ObjOf
  <2> QED
    BY <2>2, <2>3, <2>5 DEF NothingLost
<1> QED
  BY <1>1, Invariance, PTL

(* As long as the callbacks keep the rules, no call of the owner or of a     *)
(* callback uses or frees a block that is free, and no object is cleaned up  *)
(* twice.                                                                    *)
THEOREM Safe == Spec => []SafeByTheRules
<1>1. IInv => SafeByTheRules
  BY DEF IInv, Orderly, SafeByTheRules
<1> QED
  BY <1>1, Invariance, PTL

(* pam_putenv keeps one entry for each name, whatever is put and deleted and *)
(* whichever malloc fails.                                                   *)
THEOREM NamesAreUnique == Spec => []NamesUnique
<1>1. IInv => NamesUnique
  BY DEF IInv, Shape, EnvShape
<1> QED
  BY <1>1, Invariance, PTL

(* A call that fails leaves the items, the entries, the data and the objects *)
(* that are owed as they were.                                               *)
THEOREM FailuresAreClean == Spec => FailureChangesNothing
<1>1. IInv /\ [Next]_vars => FailureIsClean
  <2> SUFFICES ASSUME IInv, [Next]_vars, ret' \in {"BUF_ERR", "BAD_ITEM"}
               PROVE  UNCHANGED <<items, env.list, data, stack, owed>>
    BY DEF FailureIsClean
  <2> DEFINE Same == UNCHANGED <<items, env.list, data, stack, owed>>
  <2>1. ASSUME NEW user \in BOOLEAN, NEW copied \in -1..3, PamStart(user, copied) PROVE Same
    BY <2>1 DEF PamStart
  <2>2. ASSUME NEW i \in Settable, NEW src \in Sources(i), NEW parts \in Parts(i), PamSetItem(i, src, parts)
        PROVE  Same
    BY <2>2 DEF PamSetItem
  <2>3. ASSUME NEW n \in EnvNames, DeleteEnv(n) PROVE Same
    BY <2>3 DEF DeleteEnv
  <2>4. ASSUME NEW n \in EnvNames, NEW v \in Values, PutEnv(n, v) PROVE Same
    <3>1. env \in [array : BOOLEAN, list : Seq(Entries)]
      BY DEF IInv, Shape, EnvShape
    <3>2. env' = env \/ env' = [env EXCEPT !.array = TRUE]
      BY <2>4 DEF PutEnv, ReplaceEnv, AppendEnv
    <3>3. env'.list = env.list
      BY <3>1, <3>2
    <3> QED
      BY <2>4, <3>3 DEF PutEnv
  <2>5. ASSUME NEW copied \in -1..MaxEnv, PamGetEnvList(copied) PROVE Same
    BY <2>5 DEF PamGetEnvList
  <2>6. ASSUME NEW n \in DataNames, NEW o \in Objs \cup {Plain}, PamSetData(n, o) PROVE Same
    BY <2>6 DEF PamSetData, Replace, Insert
  <2>7. ASSUME NEW i \in Items, PamGetItem(i) PROVE Same
    BY <2>7 DEF PamGetItem
  <2>8. CASE PamGetEnv
    BY <2>8 DEF PamGetEnv
  <2>9. ASSUME NEW n \in DataNames, PamGetData(n) PROVE Same
    BY <2>9 DEF PamGetData
  <2>10. CASE CallerFreesList \/ ReplaceReturns \/ PamEnd \/ EndRunsCleanup \/ EndFreesNode \/ EndReturns
    BY <2>10 DEF CallerFreesList, ReplaceReturns, PamEnd, EndRunsCleanup, EndFreesNode, EndReturns
  <2>11. CASE UNCHANGED vars
    BY <2>11 DEF vars
  <2> QED
    BY <2>1, <2>2, <2>3, <2>4, <2>5, <2>6, <2>7, <2>8, <2>9, <2>10, <2>11 DEF Next
<1> QED
  BY <1>1, Invariance, PTL DEF Spec, FailureChangesNothing
=============================================================================
