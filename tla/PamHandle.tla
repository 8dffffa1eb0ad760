------------------------------ MODULE PamHandle ------------------------------
(* The memory of one PAM handle of libpam/pam.c: its items, its environment  *)
(* and its data list, whose cleanup callbacks pam_set_data and pam_end call  *)
(* with the handle, so that a callback may use the handle in the middle of   *)
(* the call that runs it. Any malloc may fail.                               *)
(*                                                                           *)
(* A block of memory is named by the place it is made for; heap counts the   *)
(* blocks of each place that are allocated. A pointer to a place whose count *)
(* is 0 dangles. The string items behave alike: one that pam_start sets and  *)
(* one that it may set stand for them.                                       *)
EXTENDS Integers, Sequences, FiniteSets

CONSTANTS
  EnvNames, Values,   \* of the environment; a name is not empty, has no '='
  DataNames,          \* names modules store data under
  Objs,               \* data with a cleanup callback
  Plain,              \* data stored without one
  Settable,           \* the items pam_set_item is called for
  MaxEnv, MaxDepth    \* bounds: entries, nested callbacks

ASSUME HandleAssumption == Plain \notin Objs /\ MaxEnv \in Nat /\ MaxDepth \in Nat

StringItems == {"service", "user"}
Items == StringItems \cup {"conv", "xauthdata"}
ASSUME SettableAssumption == Settable \subseteq Items

Places == ((Items \cup {"handle", "array", "list"}) \X {"block"})
          \cup ({"xauthdata"} \X {"name", "data"})
          \cup ({"entry"} \X EnvNames) \cup ({"node", "name"} \X DataNames)

VARIABLES
  items,     \* the places each item's pointers point to, {} for NULL
  env,       \* array: whether there is one; list: its entries in order
  data,      \* the list of data, head first: [name, obj]
  stack,     \* calls that run a callback, innermost last: see Frames
  heap,      \* blocks allocated at each place
  list,      \* blocks of a pam_getenvlist result the caller holds
  owed,      \* objects whose cleanup is still to be called
  ret,       \* what the last step returned, "none" if its call goes on
  harm,      \* freed memory was used or freed, an object was cleaned up twice
  broken     \* history: a callback broke a rule, see Uses and PamSetData

vars == <<items, env, data, stack, heap, list, owed, ret, harm, broken>>

Entries == [name : EnvNames, value : Values]
Nodes == [name : DataNames, obj : Objs \cup {Plain}]

(* replace: pam_set_data calls the cleanup of the old object of `name`, obj  *)
(* is the new one. end: pam_end, at the node `name` if running, with the     *)
(* nodes `rest` to come.                                                     *)
Frames == [op : {"replace"}, name : DataNames, obj : Objs \cup {Plain}]
          \cup [op : {"end"}, running : BOOLEAN, rest : Seq(DataNames)]

Here(p) == {<<p, "block">>}
Malloc(h, places) == [p \in Places |-> IF p \in places THEN h[p] + 1 ELSE h[p]]
Free(h, places) == [p \in Places |-> IF p \in places THEN h[p] - 1 ELSE h[p]]
Dangles(places) == \E p \in places : heap[p] = 0

NoItems == [i \in Items |-> {}]
NoEnv == [array |-> FALSE, list |-> <<>>]

Init ==
  /\ items = NoItems /\ env = NoEnv /\ data = <<>> /\ stack = <<>>
  /\ heap = [p \in Places |-> 0]
  /\ list = 0 /\ owed = {} /\ ret = "none" /\ harm = FALSE /\ broken = FALSE

Open == heap[<<"handle", "block">>] = 1
Ending == \E k \in DOMAIN stack : stack[k].op = "end"
Replacing(n) == \E k \in DOMAIN stack : stack[k].op = "replace" /\ stack[k].name = n
Top == stack[Len(stack)]
Pop == SubSeq(stack, 1, Len(stack) - 1)

(* The handle may be used by its owner, or by a callback that runs. The      *)
(* rules for a callback: one that pam_end calls leaves the handle alone; no  *)
(* callback stores data under a name that is being replaced.                 *)
Usable ==
  /\ Open /\ ~harm
  /\ stack # <<>> /\ Top.op = "end" => Top.running
Uses(rule) ==
  /\ Usable
  /\ broken' = (broken \/ Ending \/ ~rule)

------------------------------------------------------------------------------
(* dup_item: what a copy may come to, [ok, made], where made is what it      *)
(* leaves allocated. A copy of an xauthdata has the parts the source has.    *)
Blocks(i, parts) == {<<i, "block">>} \cup {<<i, p>> : p \in parts}

(* Mutant: free(dst->name) forgotten at 141.                                 *)
LosesName(i, parts) ==
  {[ok |-> TRUE, made |-> Blocks(i, parts)], [ok |-> FALSE, made |-> {<<i, p>> : p \in parts \ {"data"}}]}

DupItem(i, parts) ==
  {[ok |-> TRUE, made |-> Blocks(i, parts)], [ok |-> FALSE, made |-> {}]}

Parts(i) == IF i = "xauthdata" THEN SUBSET {"name", "data"} ELSE {{}}

(* The caller passes a string of its own, or the pointer pam_get_item gives  *)
(* for an item, or NULL.                                                     *)
Sources(i) == IF i \in StringItems THEN StringItems \cup {"own", "NULL"} ELSE {"own", "NULL"}
Read(src) == IF src \in StringItems THEN items[src] ELSE {}
IsNull(src) == src = "NULL" \/ (src \in StringItems /\ items[src] = {})

Copy(i, src, parts) ==
  IF IsNull(src) THEN {[ok |-> TRUE, made |-> {}]} ELSE DupItem(i, parts)

(* Mutant: the old item is freed before the new one is copied.               *)
FreesFirst(i, src, parts) ==
  /\ Uses(TRUE)
  /\ harm' = (Dangles(Read(src)) \/ Dangles(items[i]) \/ (src = i /\ items[i] # {}))
  /\ \E c \in Copy(i, src, parts) :
       /\ heap' = Malloc(Free(heap, items[i]), c.made)
       /\ items' = [items EXCEPT ![i] = c.made]
       /\ ret' = IF c.ok THEN "SUCCESS" ELSE "BUF_ERR"
  /\ UNCHANGED <<env, data, stack, list, owed>>

PamSetItem(i, src, parts) ==
  /\ Uses(TRUE)
  /\ \E c \in Copy(i, src, parts) :
       \/ /\ c.ok
          /\ heap' = Free(Malloc(heap, c.made), items[i])
          /\ items' = [items EXCEPT ![i] = c.made]
          /\ ret' = "SUCCESS"
          /\ harm' = (Dangles(Read(src)) \/ Dangles(items[i]))
       \/ /\ ~c.ok
          /\ heap' = Malloc(heap, c.made)
          /\ ret' = "BUF_ERR"
          /\ harm' = Dangles(Read(src))
          /\ UNCHANGED items
  /\ UNCHANGED <<env, data, stack, list, owed>>

(* The caller reads the string an item's pointer leads to.                   *)
PamGetItem(i) ==
  /\ Uses(TRUE)
  /\ harm' = Dangles(items[i])
  /\ ret' = "SUCCESS"
  /\ UNCHANGED <<items, env, data, stack, heap, list, owed>>

(* pam_start: the service, the user unless NULL, the conversation. Where one *)
(* cannot be copied, pam_end frees what there is.                            *)
StartItems(user) == IF user THEN <<"service", "user", "conv">> ELSE <<"service", "conv">>
Handle(made) == Here("handle") \cup UNION {Blocks(i, {}) : i \in made}

Unwind(h, made) == Free(h, Handle(made))

(* copied: how many items there was memory for, -1 if there was none for the *)
(* handle. Exploration stops after a handle whose callbacks broke a rule.    *)
PamStart(user, copied) ==
  LET made == {StartItems(user)[k] : k \in 1..copied} IN
  /\ ~Open /\ ~harm /\ ~broken
  /\ copied <= Len(StartItems(user))
  /\ \/ /\ copied = Len(StartItems(user))
        /\ heap' = Malloc(heap, Handle(made))
        /\ items' = [i \in Items |-> IF i \in made THEN Blocks(i, {}) ELSE {}]
        /\ ret' = "SUCCESS"
     \/ /\ copied \in 0..(Len(StartItems(user)) - 1)
        /\ heap' = Unwind(Malloc(heap, Handle(made)), made)
        /\ ret' = "BUF_ERR" /\ UNCHANGED items
     \/ copied = -1 /\ ret' = "BUF_ERR" /\ UNCHANGED <<heap, items>>
  /\ UNCHANGED <<env, data, stack, list, owed, harm, broken>>

------------------------------------------------------------------------------
(* The environment. A NULL array is never walked.                            *)
EnvDangles == env.array /\ Dangles(Here("array"))
Positions(n) == {k \in DOMAIN env.list : env.list[k].name = n}
Found(n) == Positions(n) # {}
Position(n) == CHOOSE k \in Positions(n) : \A j \in Positions(n) : k <= j
Without(k) == SubSeq(env.list, 1, k - 1) \o SubSeq(env.list, k + 1, Len(env.list))

(* pam_putenv with a name alone (715-728).                                   *)
DeleteEnv(n) ==
  /\ Uses(TRUE)
  /\ harm' = EnvDangles
  /\ \/ /\ Found(n)
        /\ heap' = Free(heap, {<<"entry", n>>})
        /\ env' = [env EXCEPT !.list = Without(Position(n))]
        /\ ret' = "SUCCESS"
     \/ /\ ~Found(n)
        /\ ret' = "BAD_ITEM"
        /\ UNCHANGED <<heap, env>>
  /\ UNCHANGED <<items, data, stack, list, owed>>

(* Mutant: the entry freed before its copy is made, and lost if it is not.   *)
FreesEntryFirst(n, v) ==
  /\ Found(n)
  /\ \/ /\ heap' = heap
        /\ env' = [env EXCEPT !.list[Position(n)].value = v]
        /\ ret' = "SUCCESS"
     \/ /\ heap' = Free(heap, {<<"entry", n>>})
        /\ env' = [env EXCEPT !.list = Without(Position(n))]
        /\ ret' = "BUF_ERR"

(* An entry of that name is replaced, once its copy is made (731-740).       *)
ReplaceEnv(n, v) ==
  /\ Found(n)
  /\ \/ /\ heap' = Free(Malloc(heap, {<<"entry", n>>}), {<<"entry", n>>})
        /\ env' = [env EXCEPT !.list[Position(n)].value = v]
        /\ ret' = "SUCCESS"
     \/ ret' = "BUF_ERR" /\ UNCHANGED <<heap, env>>

(* The array grows first. If then the string cannot be copied, the new slot  *)
(* holds the NULL that ends the list (741-749).                              *)
AppendEnv(n, v) ==
  LET grown == IF env.array THEN heap ELSE Malloc(heap, Here("array")) IN
  /\ ~Found(n) /\ Len(env.list) < MaxEnv
  /\ \/ /\ heap' = Malloc(grown, {<<"entry", n>>})
        /\ env' = [array |-> TRUE, list |-> Append(env.list, [name |-> n, value |-> v])]
        /\ ret' = "SUCCESS"
     \/ /\ heap' = grown
        /\ env' = [env EXCEPT !.array = TRUE]
        /\ ret' = "BUF_ERR"
     \/ ret' = "BUF_ERR" /\ UNCHANGED <<heap, env>>

(* Mutant: the search for the name compares one character too many, the '='  *)
(* and the first of the value, and misses the entry.                         *)
PutsTwice(n, v) ==
  /\ Uses(TRUE)
  /\ harm' = EnvDangles
  /\ Len(env.list) < MaxEnv
  /\ heap' = Malloc(IF env.array THEN heap ELSE Malloc(heap, Here("array")), {<<"entry", n>>})
  /\ env' = [array |-> TRUE, list |-> Append(env.list, [name |-> n, value |-> v])]
  /\ ret' = "SUCCESS"
  /\ UNCHANGED <<items, data, stack, list, owed>>

PutEnv(n, v) ==
  /\ Uses(TRUE)
  /\ harm' = EnvDangles
  /\ ReplaceEnv(n, v) \/ AppendEnv(n, v)
  /\ UNCHANGED <<items, data, stack, list, owed>>

PamGetEnv ==
  /\ Uses(TRUE)
  /\ harm' = EnvDangles
  /\ ret' = "SUCCESS"
  /\ UNCHANGED <<items, env, data, stack, heap, list, owed>>

(* copied: how many strings there was memory for, -1 if none for the array.  *)
(* A list that is not complete is freed. The caller frees one it was given.  *)
PamGetEnvList(copied) ==
  /\ Uses(TRUE)
  /\ list = 0 /\ copied <= Len(env.list)
  /\ harm' = EnvDangles
  /\ \/ /\ copied = Len(env.list)
        /\ heap' = [heap EXCEPT ![<<"list", "block">>] = copied + 1]
        /\ list' = copied + 1 /\ ret' = "SUCCESS"
     \/ copied < Len(env.list) /\ ret' = "BUF_ERR" /\ UNCHANGED <<heap, list>>
  /\ UNCHANGED <<items, env, data, stack, owed>>

CallerFreesList ==
  /\ list > 0 /\ ~harm /\ stack = <<>>
  /\ heap' = [heap EXCEPT ![<<"list", "block">>] = heap[<<"list", "block">>] - list]
  /\ list' = 0 /\ ret' = "none"
  /\ UNCHANGED <<items, env, data, stack, owed, harm, broken>>

------------------------------------------------------------------------------
(* The data list. A search visits the nodes up to the one of that name.      *)
Stored(n) == \E k \in DOMAIN data : data[k].name = n
At(n) == CHOOSE k \in DOMAIN data : data[k].name = n
Node(n) == {"node", "name"} \X {n}
Visited(n) == UNION {Node(data[k].name) : k \in {j \in DOMAIN data : ~Stored(n) \/ j <= At(n)}}
StoredObjs == {data[k].obj : k \in DOMAIN data}

(* A name that is stored: its cleanup runs first, with the node still        *)
(* holding the old object.                                                   *)
Replace(n, o) ==
  /\ Stored(n)
  /\ \/ /\ data[At(n)].obj = Plain
        /\ data' = [data EXCEPT ![At(n)].obj = o]
        /\ owed' = owed \cup ({o} \cap Objs)
        /\ harm' = Dangles(Visited(n))
        /\ ret' = "SUCCESS"
        /\ UNCHANGED stack
     \/ /\ data[At(n)].obj \in Objs /\ Len(stack) < MaxDepth
        /\ stack' = Append(stack, [op |-> "replace", name |-> n, obj |-> o])
        /\ owed' = (owed \ {data[At(n)].obj}) \cup ({o} \cap Objs)
        /\ harm' = (Dangles(Visited(n)) \/ data[At(n)].obj \notin owed)
        /\ ret' = "none"
        /\ UNCHANGED data
  /\ UNCHANGED heap

(* A new name goes to the head of the list.                                  *)
Insert(n, o) ==
  /\ ~Stored(n)
  /\ harm' = Dangles(Visited(n))
  /\ \/ /\ data' = <<[name |-> n, obj |-> o]>> \o data
        /\ owed' = owed \cup ({o} \cap Objs)
        /\ heap' = Malloc(heap, Node(n))
        /\ ret' = "SUCCESS"
     \/ ret' = "BUF_ERR" /\ UNCHANGED <<data, owed, heap>>
  /\ UNCHANGED stack

PamSetData(n, o) ==
  /\ Uses(~Replacing(n))
  /\ o \notin owed \cup (StoredObjs \cap Objs)
  /\ Replace(n, o) \/ Insert(n, o)
  /\ UNCHANGED <<items, env, list>>

PamGetData(n) ==
  /\ Uses(TRUE)
  /\ harm' = Dangles(Visited(n))
  /\ ret' = IF Stored(n) THEN "SUCCESS" ELSE "NO_MODULE_DATA"
  /\ UNCHANGED <<items, env, data, stack, heap, list, owed>>

(* The callback has returned: the node takes the new object (796-798).       *)
ReplaceReturns ==
  /\ stack # <<>> /\ Top.op = "replace" /\ ~harm
  /\ data' = [data EXCEPT ![At(Top.name)].obj = Top.obj]
  /\ harm' = Dangles(Node(Top.name))
  /\ stack' = Pop
  /\ ret' = "SUCCESS"
  /\ UNCHANGED <<items, env, heap, list, owed, broken>>

------------------------------------------------------------------------------
EnvBlocks == IF env.array THEN Here("array") \cup {<<"entry", env.list[k].name>> : k \in DOMAIN env.list}
             ELSE {}
ItemBlocks == UNION {items[i] : i \in Items}
Names == [k \in DOMAIN data |-> data[k].name]

(* pam_end frees the items and the environment, then walks the data. The     *)
(* handle's pointers to what it freed stay as they are.                      *)
PamEnd ==
  /\ Usable /\ stack = <<>>
  /\ heap' = Free(heap, ItemBlocks \cup EnvBlocks)
  /\ harm' = Dangles(ItemBlocks \cup EnvBlocks)
  /\ stack' = <<[op |-> "end", running |-> FALSE, rest |-> Names]>>
  /\ ret' = "none"
  /\ UNCHANGED <<items, env, data, list, owed, broken>>

InEnd(running) == stack # <<>> /\ Top.op = "end" /\ Top.running = running /\ ~harm
Current == Head(Top.rest)

EndRunsCleanup ==
  /\ InEnd(FALSE) /\ Top.rest # <<>>
  /\ data[At(Current)].obj \in Objs
  /\ harm' = (Dangles(Node(Current)) \/ data[At(Current)].obj \notin owed)
  /\ owed' = owed \ {data[At(Current)].obj}
  /\ stack' = [stack EXCEPT ![Len(stack)].running = TRUE]
  /\ ret' = "none"
  /\ UNCHANGED <<items, env, data, heap, list, broken>>

(* Mutant: a node without a callback is passed over and not freed.           *)
SkipsPlain ==
  /\ \/ InEnd(TRUE) /\ heap' = Free(heap, Node(Current)) /\ harm' = Dangles(Node(Current))
     \/ /\ InEnd(FALSE) /\ Top.rest # <<>> /\ data[At(Current)].obj = Plain
        /\ UNCHANGED <<heap, harm>>
  /\ stack' = [stack EXCEPT ![Len(stack)].running = FALSE, ![Len(stack)].rest = Tail(Top.rest)]
  /\ ret' = "none"
  /\ UNCHANGED <<items, env, data, list, owed, broken>>

EndFreesNode ==
  /\ \/ InEnd(TRUE)
     \/ InEnd(FALSE) /\ Top.rest # <<>> /\ data[At(Current)].obj = Plain
  /\ harm' = Dangles(Node(Current))
  /\ heap' = Free(heap, Node(Current))
  /\ stack' = [stack EXCEPT ![Len(stack)].running = FALSE, ![Len(stack)].rest = Tail(Top.rest)]
  /\ ret' = "none"
  /\ UNCHANGED <<items, env, data, list, owed, broken>>

EndReturns ==
  /\ InEnd(FALSE) /\ Top.rest = <<>>
  /\ heap' = Free(heap, Here("handle"))
  /\ stack' = <<>> /\ items' = NoItems /\ env' = NoEnv /\ data' = <<>>
  /\ ret' = "SUCCESS"
  /\ UNCHANGED <<list, owed, harm, broken>>

------------------------------------------------------------------------------
Next ==
  \/ \E user \in BOOLEAN, copied \in -1..3 : PamStart(user, copied)
  \/ \E i \in Items : PamGetItem(i)
  \/ \E i \in Settable : \E src \in Sources(i), parts \in Parts(i) : PamSetItem(i, src, parts)
  \/ \E n \in EnvNames : DeleteEnv(n)
  \/ \E n \in EnvNames, v \in Values : PutEnv(n, v)
  \/ PamGetEnv
  \/ \E copied \in -1..MaxEnv : PamGetEnvList(copied)
  \/ CallerFreesList
  \/ \E n \in DataNames, o \in Objs \cup {Plain} : PamSetData(n, o)
  \/ \E n \in DataNames : PamGetData(n)
  \/ ReplaceReturns
  \/ PamEnd \/ EndRunsCleanup \/ EndFreesNode \/ EndReturns

Spec == Init /\ [][Next]_vars

------------------------------------------------------------------------------
(* Every variable keeps its type; no place has two blocks, so what a call    *)
(* replaces it frees.                                                        *)
TypeOK ==
  /\ items \in [Items -> SUBSET Places] /\ list \in 0..(MaxEnv + 1) /\ owed \subseteq Objs
  /\ env.array \in BOOLEAN /\ env.list \in Seq(Entries) /\ data \in Seq(Nodes)
  /\ stack \in Seq(Frames) /\ Len(stack) <= MaxDepth + 1
  /\ ret \in {"none", "SUCCESS", "BUF_ERR", "BAD_ITEM", "NO_MODULE_DATA"}
  /\ harm \in BOOLEAN /\ broken \in BOOLEAN
  /\ harm \/ \A p \in Places \ Here("list") : heap[p] \in 0..1

(* What the handle leads to, in pam_end what it has yet to free.             *)
Left == IF Ending THEN {stack[1].rest[k] : k \in DOMAIN stack[1].rest} ELSE {data[k].name : k \in DOMAIN data}
Reachable ==
  Here("handle") \cup (IF Ending THEN {} ELSE ItemBlocks \cup EnvBlocks) \cup UNION {Node(n) : n \in Left}

(* As long as the callbacks keep the rules, no call on any path leaks a      *)
(* block, whichever malloc fails, and none forgets an object whose cleanup   *)
(* was asked for: what is allocated is what the handle leads to, and nothing *)
(* when there is no handle; what is owed is what is stored or being stored.  *)
NothingLost == broken \/
  /\ \A p \in Places \ Here("list") : heap[p] = IF Open /\ p \in Reachable THEN 1 ELSE 0
  /\ heap[<<"list", "block">>] = list
  /\ owed = Objs \cap
       ({data[At(n)].obj : n \in {m \in Left : ~Replacing(m) /\ ~(Ending /\ stack[1].running /\ m = Current)}}
        \cup {stack[k].obj : k \in {j \in DOMAIN stack : stack[j].op = "replace"}})

(* As long as the callbacks keep the rules, no call uses or frees a block    *)
(* that is free, and no object is cleaned up twice, however the calls of     *)
(* the owner and of the callbacks nest.                                      *)
SafeByTheRules == harm => broken

(* pam_putenv keeps one entry for each name, so that a deletion cannot       *)
(* bring back a value that was replaced.                                     *)
NamesUnique == \A j, k \in DOMAIN env.list : env.list[j].name = env.list[k].name => j = k

(* A call that fails, for want of memory or of the name it was given, leaves *)
(* the items, the entries and the data as they were.                         *)
FailureIsClean == ret' \in {"BUF_ERR", "BAD_ITEM"} => UNCHANGED <<items, env.list, data, stack, owed>>
FailureChangesNothing == [][FailureIsClean]_vars
=============================================================================
