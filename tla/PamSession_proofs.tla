------------------------- MODULE PamSession_proofs -------------------------
(* Proofs about PamSession, for every set of users and passwords: the type   *)
(* invariant and the three action properties of its run, from one inductive  *)
(* invariant about what the call in progress has established so far.         *)
EXTENDS PamSession, TLAPS

Authenticating == {"token", "check", "compare"}
ProvingOld == {"old", "verify", "compareOld"}
Changing == {"new", "retype", "hash", "copy", "update"}
Working == Authenticating \cup ProvingOld \cup Changing

(* Which call is at which step, and on whose behalf.                         *)
Where ==
  /\ call.op = "none" => call.at = "done"
  /\ call.at \in Authenticating => call.op = "authenticate"
  /\ call.at \in ProvingOld => call.op = "chauthtok" /\ access = "setuid"
  /\ call.at \in Changing => call.op = "chauthtok"

(* What the lookup found is what the file holds while nobody changes it.     *)
Looked ==
  call.at \in Working =>
    /\ call.snap = "denied" <=> ~MayRead
    /\ call.at \in ProvingOld \cup {"compare"} => IsHash(call.snap)
    /\ quiet => call.snap = Found

(* What the shared buffers hold as long as no other handle writes them, and  *)
(* what has been learnt from them: the old password once it was compared.    *)
Buffers ==
  ~crossed =>
    /\ call.at \in Authenticating \cup ProvingOld /\ IsHash(call.snap) =>
         call.sp = Hash(items.user, call.snap)
    /\ call.at = "compare" => call.calc = Hash(items.user, Token(items.authtok))
    /\ call.at = "compareOld" => call.calc = Hash(items.user, Token(items.oldauthtok))
    /\ call.at \in {"copy", "update"} => call.calc = Hash(NoName, items.authtok)
    /\ call.at \in Changing =>
         access = "root" \/ (access = "setuid" /\ call.snap = Token(items.oldauthtok))

(* What is known of the tokens, whatever other handles do.                   *)
Tokens ==
  /\ call.at = "compare" => ~Refused
  /\ call.at \in {"hash", "copy", "update"} => items.authtok \in Passwords
  /\ call.at \in {"copy", "update"} => call.calc.of \in Typed

IInv == TypeOK /\ Where /\ Looked /\ Buffers /\ Tokens

------------------------------------------------------------------------------
(* What the helpers of the actions do to the record of the call and to the   *)
(* items, field by field.                                                    *)
Steps == {"done", "user", "lookup"} \cup Working

(* Going on changes where the call stands, and nothing else of it.           *)
LEMMA GotoEffect ==
  ASSUME call \in Calls, NEW l \in Steps, Goto(l)
  PROVE  /\ call' \in Calls /\ call'.at = l
         /\ call'.op = call.op /\ call'.nonull = call.nonull /\ call'.snap = call.snap
         /\ call'.sp = call.sp /\ call'.calc = call.calc
BY DEF Goto, Calls, Steps, Working, Authenticating, ProvingOld, Changing

(* Returning sets the result and forgets the buffers.                        *)
LEMMA ReturnEffect ==
  ASSUME call \in Calls, NEW r \in Errors \cup {"SUCCESS"}, Return(r)
  PROVE  /\ call' \in Calls /\ call'.at = "done" /\ call'.ret = r
         /\ call'.op = call.op
<1>1. NoHash \in HashSet /\ NoEntry \in Entries
  BY DEF NoHash, HashSet, Hash, Entries
<1> QED
  BY <1>1 DEF Return, Calls

(* crypt fills its buffer.                                                   *)
LEMMA CryptEffect ==
  ASSUME call \in Calls, NEW l \in Steps, NEW h \in HashSet, Crypt(l, h)
  PROVE  /\ call' \in Calls /\ call'.at = l
         /\ call'.op = call.op /\ call'.nonull = call.nonull /\ call'.snap = call.snap
         /\ call'.sp = call.sp /\ call'.calc = h
BY DEF Crypt, Calls, Steps, Working, Authenticating, ProvingOld, Changing

(* Storing an item leaves the other two alone.                               *)
Holds(item) == IF item = "user" THEN Users \cup {NoName, NoItem} ELSE Typed \cup {NoItem}
ItemNames == {"user", "authtok", "oldauthtok"}

LEMMA PutEffect ==
  ASSUME items \in Items, NEW item \in ItemNames, NEW v \in Holds(item), Put(item, v)
  PROVE  /\ items' \in Items
         /\ items'[item] = v
         /\ \A other \in ItemNames \ {item} : items'[other] = items[other]
BY DEF Put, Items, ItemNames, Holds

(* A missing item is asked for: the call goes on with it, or ends.           *)
LEMMA GetItemEffect ==
  ASSUME call \in Calls, items \in Items, NEW item \in ItemNames, NEW answers,
         answers \subseteq Holds(item), NoItem \in Holds(item),
         NEW l \in Steps, GetItem(item, answers, l)
  PROVE  /\ call' \in Calls /\ items' \in Items
         /\ call'.op = call.op
         /\ \A other \in ItemNames \ {item} : items'[other] = items[other]
         /\ \/ /\ call'.at = l
               /\ call'.nonull = call.nonull /\ call'.snap = call.snap
               /\ call'.sp = call.sp /\ call'.calc = call.calc
            \/ call'.at = "done" /\ call'.ret = "CONV_ERR"
<1>1. CASE Goto(l) /\ UNCHANGED items
  BY <1>1, GotoEffect
<1>2. CASE \E a \in answers \cup {NoItem} : Put(item, a) /\ Goto(l)
  BY <1>2, GotoEffect, PutEffect
<1>3. CASE Return("CONV_ERR") /\ UNCHANGED items
  BY <1>3, ReturnEffect DEF Errors
<1> QED
  BY <1>1, <1>2, <1>3 DEF GetItem, Ask

------------------------------------------------------------------------------
(* Before its lookup, and after its return, a call claims nothing.           *)
LEMMA Outside ==
  ASSUME TypeOK', call'.at \in {"done", "user", "lookup"},
         call'.op = "none" => call'.at = "done"
  PROVE  IInv'
BY DEF IInv, Where, Looked, Buffers, Tokens, Working, Authenticating, ProvingOld, Changing

(* A call that returns keeps the invariant, whatever it returns.             *)
LEMMA Ending ==
  ASSUME TypeOK, items' \in Items, entry' \in [Users -> Entries], call' \in Calls,
         call'.at = "done", UNCHANGED <<access, histories>>
  PROVE  IInv'
<1>1. TypeOK'
  BY DEF TypeOK, histories
<1> QED
  BY <1>1, Outside

(* Nothing is known before the first call.                                   *)
LEMMA Initially == Init => IInv
<1> SUFFICES ASSUME Init PROVE IInv
  OBVIOUS
<1>1. call \in Calls
  <2>1. NoHash \in HashSet
    BY DEF NoHash, HashSet, Hash
  <2>2. NoEntry \in Entries \cup {"denied"}
    BY DEF Entries
  <2> QED
    BY <2>1, <2>2 DEF Init, Calls
<1>2. items \in Items
  BY DEF Init, Items
<1>3. TypeOK
  BY <1>1, <1>2 DEF Init, TypeOK
<1> QED
  BY <1>3 DEF Init, IInv, Where, Looked, Buffers, Tokens, Working, Authenticating,
     ProvingOld, Changing

(* A call starts with nothing looked up and nothing hashed.                  *)
LEMMA BeginKeeps ==
  ASSUME IInv, NEW operation \in {"authenticate", "chauthtok"},
         NEW disallowNull \in BOOLEAN, Begin(operation, disallowNull)
  PROVE  IInv'
<1>1. /\ call' \in Calls /\ call'.at = "user" /\ call'.op # "none"
  <2>1. NoHash \in HashSet
    BY DEF NoHash, HashSet, Hash
  <2>2. NoEntry \in Entries \cup {"denied"}
    BY DEF Entries
  <2> QED
    BY <2>1, <2>2 DEF Begin, Calls
<1>2. TypeOK'
  BY <1>1 DEF Begin, IInv, TypeOK
<1> QED
  BY <1>1, <1>2, Outside

(* pam_set_item works between calls only.                                    *)
LEMMA SetItemKeeps ==
  ASSUME IInv, NEW item \in ItemNames, NEW v \in Holds(item), SetItem(item, v)
  PROVE  IInv'
<1>1. items' \in Items
  BY PutEffect DEF SetItem, IInv, TypeOK
<1> QED
  BY <1>1, Ending DEF SetItem, IInv, TypeOK

(* The user name is cached or asked for; nothing is looked up yet.           *)
LEMMA GetUserKeeps ==
  ASSUME IInv, GetUser
  PROVE  IInv'
<1>1. /\ call' \in Calls /\ items' \in Items /\ call'.op = call.op
      /\ call'.at \in {"lookup", "done"}
  <2>1. NoItem \in Holds("user") /\ Users \cup {NoName} \subseteq Holds("user")
    BY DEF Holds
  <2> QED
    BY <2>1, GetItemEffect DEF GetUser, IInv, TypeOK, Steps, ItemNames
<1>2. TypeOK' /\ call.op # "none"
  BY <1>1 DEF GetUser, IInv, TypeOK, Where, histories
<1> QED
  BY <1>1, <1>2, Outside

(* The record of a call that has looked its user up.                         *)
LEMMA FetchEffect ==
  ASSUME TypeOK, items.user \in Users, NEW l \in Steps, Fetch(l)
  PROVE  /\ call' \in Calls /\ call'.at = l
         /\ call'.op = call.op /\ call'.snap = Found
         /\ IsHash(Found) /\ l # "new" => call'.sp = Hash(items.user, Found)
<1> DEFINE read == IF IsHash(Found) /\ l # "new" THEN Hash(items.user, Found) ELSE NoHash
<1>1. Found \in Entries \cup {"denied"}
  BY DEF Found, TypeOK
<1>2. NoHash \in HashSet
  BY DEF NoHash, HashSet, Hash
<1>3. IsHash(Found) => Hash(items.user, Found) \in HashSet
  BY <1>1 DEF IsHash, Hash, HashSet, Entries
<1>4. call' = [call EXCEPT !.at = l, !.snap = Found, !.sp = read]
  BY DEF Fetch
<1>5. read \in HashSet /\ (IsHash(Found) /\ l # "new" => read = Hash(items.user, Found))
  BY <1>2, <1>3
<1> HIDE DEF read
<1> QED
  BY <1>1, <1>4, <1>5 DEF TypeOK, Calls, Steps, Working, Authenticating, ProvingOld, Changing

(* What a lookup finds tells whether the process may read the file.          *)
LEMMA FoundDenied ==
  ASSUME TypeOK, items.user \in Users
  PROVE  Found = "denied" <=> ~MayRead
BY SessionAssumption DEF Found, TypeOK, Entries, Typed

(* getspnam's answer is the entry of the moment.                             *)
LEMMA LookUpKeeps ==
  ASSUME IInv, LookUp
  PROVE  IInv'
<1>1. CASE items.user \notin Users /\ NoUser
  <2>1. call' \in Calls /\ call'.at = "done"
    BY <1>1, ReturnEffect DEF NoUser, IInv, TypeOK, Errors
  <2>2. items' \in Items
    BY <1>1, PutEffect DEF NoUser, IInv, TypeOK, ItemNames, Holds
  <2> QED
    BY <2>1, <2>2, Ending DEF LookUp, IInv, TypeOK
<1>2. CASE UNCHANGED items /\ Return("USER_UNKNOWN")
  <2>1. call' \in Calls /\ call'.at = "done"
    BY <1>2, ReturnEffect DEF IInv, TypeOK, Errors
  <2> QED
    BY <1>2, <2>1, Ending DEF LookUp, IInv, TypeOK
<1>3. ASSUME NEW l \in {"token", "new", "old"},
             items.user \in Users, UNCHANGED items, Fetch(l),
             l = "token" => call.op = "authenticate",
             l = "new" => call.op = "chauthtok" /\ access = "root",
             l = "old" => call.op = "chauthtok" /\ access # "root" /\ IsHash(Found)
      PROVE  IInv'
  <2>1. /\ call' \in Calls /\ call'.at = l /\ call'.op = call.op /\ call'.snap = Found
        /\ IsHash(Found) /\ l # "new" => call'.sp = Hash(items.user, Found)
    BY <1>3, FetchEffect DEF IInv, TypeOK, Steps, Working, Authenticating, ProvingOld, Changing
  <2>2. UNCHANGED <<access, entry, items, quiet, crossed>>
    BY <1>3 DEF LookUp, histories
  <2>3. TypeOK'
    BY <1>3, <2>1, <2>2 DEF IInv, TypeOK
  <2>4. Found' = Found /\ (Found = "denied" <=> ~MayRead) /\ MayRead' = MayRead
    BY <1>3, <2>2, FoundDenied DEF Found, MayRead, IInv
  <2>5. Where'
    <3>1. l = "old" => access = "setuid"
      BY <1>3, <2>4 DEF IsHash, MayRead
    <3> QED
      BY <1>3, <2>1, <2>2, <3>1 DEF Where, Authenticating, ProvingOld, Changing
  <2>6. Looked'
    BY <1>3, <2>1, <2>2, <2>4 DEF Looked, IsHash, ProvingOld
  <2>7. Buffers'
    BY <1>3, <2>1, <2>2 DEF Buffers, Authenticating, ProvingOld, Changing, IsHash
  <2>8. Tokens'
    BY <1>3, <2>1 DEF Tokens
  <2> QED
    BY <2>3, <2>5, <2>6, <2>7, <2>8 DEF IInv
<1> QED
  BY <1>1, <1>2, <1>3 DEF LookUp

(* The token arrives after the lookup, which it leaves alone.                *)
LEMMA GetTokenKeeps ==
  ASSUME IInv, GetToken
  PROVE  IInv'
<1>1. /\ call' \in Calls /\ items' \in Items /\ call'.op = call.op
      /\ items'.user = items.user /\ items'.oldauthtok = items.oldauthtok
      /\ \/ /\ call'.at = "check"
            /\ call'.snap = call.snap /\ call'.sp = call.sp
         \/ call'.at = "done"
  <2>1. NoItem \in Holds("authtok") /\ Typed \subseteq Holds("authtok")
    BY DEF Holds
  <2> QED
    BY <2>1, GetItemEffect DEF GetToken, IInv, TypeOK, Steps, Working, Authenticating, ItemNames
<1>2. CASE call'.at = "done"
  BY <1>1, <1>2, Ending DEF GetToken, IInv, TypeOK
<1>3. CASE call'.at = "check"
  <2>1. /\ call.at = "token" /\ call'.snap = call.snap /\ call'.sp = call.sp
        /\ UNCHANGED <<access, entry, quiet, crossed>>
    BY <1>1, <1>3 DEF GetToken, histories
  <2>2. TypeOK'
    BY <1>1, <1>3, <2>1 DEF IInv, TypeOK
  <2>3. Where' /\ Tokens'
    BY <1>1, <1>3, <2>1 DEF IInv, Where, Tokens, Authenticating, ProvingOld, Changing
  <2>4. Looked'
    BY <1>1, <1>3, <2>1 DEF IInv, Looked, Found, MayRead, Working, Authenticating, ProvingOld, Changing
  <2>5. Buffers'
    BY <1>1, <1>3, <2>1 DEF IInv, Buffers, Authenticating, ProvingOld, Changing
  <2> QED
    BY <2>2, <2>3, <2>4, <2>5 DEF IInv
<1> QED
  BY <1>1, <1>2, <1>3

(* Failing, with or without the token, ends the call.                        *)
LEMMA FailEffect ==
  ASSUME TypeOK, NEW r \in Errors \cup {"SUCCESS"}, Fail(r)
  PROVE  /\ call' \in Calls /\ call'.at = "done" /\ call'.ret = r
         /\ items' \in Items /\ items'.authtok = NoItem
<1>1. NoItem \in Holds("authtok")
  BY DEF Holds
<1> QED
  BY <1>1, ReturnEffect, PutEffect DEF Fail, TypeOK, ItemNames

(* What is hashed is a password.                                             *)
LEMMA TokenTyped ==
  ASSUME NEW v \in Typed \cup {NoItem}
  PROVE  Token(v) \in Typed
BY DEF Token, Typed

(* Either pam_authenticate ends here, or the token is hashed with the salt   *)
(* of the entry found.                                                       *)
LEMMA CheckCases ==
  ASSUME TypeOK, Check
  PROVE  \/ \E r \in {"SUCCESS", "USER_UNKNOWN", "AUTH_ERR", "AUTHINFO_UNAVAIL"} : Fail(r)
         \/ /\ ~RefusesNull(Token(items.authtok)) /\ IsHash(call.snap)
            /\ Crypt("compare", Hash(call.sp.salt, Token(items.authtok)))
            /\ UNCHANGED items
BY DEF Check, HelperSays

(* Only a token that may be tried is hashed.                                 *)
LEMMA CheckKeeps ==
  ASSUME IInv, Check
  PROVE  IInv'
<1>1. CASE \E r \in {"SUCCESS", "USER_UNKNOWN", "AUTH_ERR", "AUTHINFO_UNAVAIL"} : Fail(r)
  <2>1. call' \in Calls /\ call'.at = "done" /\ items' \in Items
    BY <1>1, FailEffect DEF IInv, Errors
  <2> QED
    BY <2>1, Ending DEF Check, IInv, TypeOK
<1>2. CASE /\ ~RefusesNull(Token(items.authtok)) /\ IsHash(call.snap)
           /\ Crypt("compare", Hash(call.sp.salt, Token(items.authtok)))
           /\ UNCHANGED items
  <2>1. Hash(call.sp.salt, Token(items.authtok)) \in HashSet
    BY TokenTyped DEF IInv, TypeOK, Items, Calls, Hash, HashSet
  <2>2. /\ call' \in Calls /\ call'.at = "compare"
        /\ call'.op = call.op /\ call'.nonull = call.nonull /\ call'.snap = call.snap
        /\ call'.sp = call.sp /\ call'.calc = Hash(call.sp.salt, Token(items.authtok))
    BY <1>2, <2>1, CryptEffect DEF IInv, TypeOK, Steps, Working, Authenticating
  <2>3. /\ call.at = "check" /\ UNCHANGED <<access, entry, items, quiet, crossed>>
    BY <1>2 DEF Check, histories
  <2>4. TypeOK'
    BY <2>2, <2>3 DEF IInv, TypeOK
  <2>5. Where' /\ Tokens'
    BY <1>2, <2>2, <2>3 DEF IInv, Where, Tokens, Refused, Given, RefusesNull, Authenticating,
       ProvingOld, Changing
  <2>6. Looked'
    BY <1>2, <2>2, <2>3 DEF IInv, Looked, Found, MayRead, IsHash, Working, Authenticating, ProvingOld,
       Changing
  <2>7. Buffers'
    BY <1>2, <2>2, <2>3 DEF IInv, Buffers, Hash, IsHash, Authenticating, ProvingOld, Changing
  <2> QED
    BY <2>4, <2>5, <2>6, <2>7 DEF IInv
<1> QED
  BY <1>1, <1>2, CheckCases DEF IInv

(* The comparison ends pam_authenticate.                                     *)
LEMMA CompareKeeps ==
  ASSUME IInv, Compare
  PROVE  IInv'
<1>1. call' \in Calls /\ call'.at = "done" /\ items' \in Items
  BY ReturnEffect, FailEffect DEF Compare, IInv, TypeOK, Errors
<1> QED
  BY <1>1, Ending DEF Compare, IInv, TypeOK

(* The old token arrives after the lookup.                                   *)
LEMMA GetOldTokenKeeps ==
  ASSUME IInv, GetOldToken
  PROVE  IInv'
<1>1. /\ call' \in Calls /\ items' \in Items /\ call'.op = call.op
      /\ items'.user = items.user /\ items'.authtok = items.authtok
      /\ \/ /\ call'.at = "verify"
            /\ call'.snap = call.snap /\ call'.sp = call.sp
         \/ call'.at = "done"
  <2>1. NoItem \in Holds("oldauthtok") /\ Typed \subseteq Holds("oldauthtok")
    BY DEF Holds
  <2> QED
    BY <2>1, GetItemEffect DEF GetOldToken, IInv, TypeOK, Steps, Working, ProvingOld, ItemNames
<1>2. CASE call'.at = "done"
  BY <1>1, <1>2, Ending DEF GetOldToken, IInv, TypeOK
<1>3. CASE call'.at = "verify"
  <2>1. /\ call.at = "old" /\ call'.snap = call.snap /\ call'.sp = call.sp
        /\ UNCHANGED <<access, entry, quiet, crossed>>
    BY <1>1, <1>3 DEF GetOldToken, histories
  <2>2. TypeOK'
    BY <1>1, <1>3, <2>1 DEF IInv, TypeOK
  <2>3. Where' /\ Tokens'
    BY <1>1, <1>3, <2>1 DEF IInv, Where, Tokens, Authenticating, ProvingOld, Changing
  <2>4. Looked'
    BY <1>1, <1>3, <2>1 DEF IInv, Looked, Found, MayRead, Working, Authenticating, ProvingOld, Changing
  <2>5. Buffers'
    BY <1>1, <1>3, <2>1 DEF IInv, Buffers, Authenticating, ProvingOld, Changing
  <2> QED
    BY <2>2, <2>3, <2>4, <2>5 DEF IInv
<1> QED
  BY <1>1, <1>2, <1>3

(* The old token is hashed with the salt of the entry found.                 *)
LEMMA VerifyOldKeeps ==
  ASSUME IInv, VerifyOld
  PROVE  IInv'
<1>1. CASE \E r \in {"AUTH_ERR", "AUTHINFO_UNAVAIL"} : Return(r)
  <2>1. call' \in Calls /\ call'.at = "done"
    BY <1>1, ReturnEffect DEF IInv, TypeOK, Errors
  <2> QED
    BY <2>1, Ending DEF VerifyOld, IInv, TypeOK
<1>2. CASE Crypt("compareOld", Hash(call.sp.salt, Token(items.oldauthtok)))
  <2>1. Hash(call.sp.salt, Token(items.oldauthtok)) \in HashSet
    BY TokenTyped DEF IInv, TypeOK, Items, Calls, Hash, HashSet
  <2>2. /\ call' \in Calls /\ call'.at = "compareOld"
        /\ call'.op = call.op /\ call'.nonull = call.nonull /\ call'.snap = call.snap
        /\ call'.sp = call.sp /\ call'.calc = Hash(call.sp.salt, Token(items.oldauthtok))
    BY <1>2, <2>1, CryptEffect DEF IInv, TypeOK, Steps, Working, ProvingOld
  <2>3. call.at = "verify" /\ UNCHANGED <<access, entry, items, quiet, crossed>>
    BY DEF VerifyOld, histories
  <2>4. TypeOK'
    BY <2>2, <2>3 DEF IInv, TypeOK
  <2>5. Where' /\ Tokens'
    BY <2>2, <2>3 DEF IInv, Where, Tokens, Authenticating, ProvingOld, Changing
  <2>6. Looked'
    BY <2>2, <2>3 DEF IInv, Looked, Found, MayRead, Working, Authenticating, ProvingOld, Changing
  <2>7. Buffers'
    BY <2>2, <2>3 DEF IInv, Looked, Buffers, Hash, Working, Authenticating, ProvingOld, Changing
  <2> QED
    BY <2>4, <2>5, <2>6, <2>7 DEF IInv
<1> QED
  BY <1>1, <1>2 DEF VerifyOld

(* Equal hashes mean that the old token is the password found.               *)
LEMMA CompareOldKeeps ==
  ASSUME IInv, CompareOld
  PROVE  IInv'
<1>1. CASE Return("AUTH_ERR")
  <2>1. call' \in Calls /\ call'.at = "done"
    BY <1>1, ReturnEffect DEF IInv, TypeOK, Errors
  <2> QED
    BY <2>1, Ending DEF CompareOld, IInv, TypeOK
<1>2. CASE /\ call.calc = call.sp
           /\ call' = [call EXCEPT !.at = "new", !.sp = NoHash, !.calc = NoHash]
  <2>1. NoHash \in HashSet
    BY DEF NoHash, HashSet, Hash
  <2>2. /\ call' \in Calls /\ call'.at = "new"
        /\ call'.op = call.op /\ call'.nonull = call.nonull /\ call'.snap = call.snap
    BY <1>2, <2>1 DEF IInv, TypeOK, Calls
  <2>3. call.at = "compareOld" /\ UNCHANGED <<access, entry, items, quiet, crossed>>
    BY DEF CompareOld, histories
  <2>4. TypeOK'
    BY <2>2, <2>3 DEF IInv, TypeOK
  <2>5. Where' /\ Tokens'
    BY <2>2, <2>3 DEF IInv, Where, Tokens, Authenticating, ProvingOld, Changing
  <2>6. Looked'
    BY <2>2, <2>3 DEF IInv, Looked, Found, MayRead, Working, Authenticating, ProvingOld, Changing
  <2>7. ~crossed => call.snap = Token(items.oldauthtok)
    BY <1>2, <2>3 DEF IInv, Looked, Buffers, Hash, Working, Authenticating, ProvingOld, Changing
  <2>8. Buffers'
    BY <2>2, <2>3, <2>7 DEF IInv, Where, Buffers, Authenticating, ProvingOld, Changing
  <2> QED
    BY <2>4, <2>5, <2>6, <2>8 DEF IInv
<1> QED
  BY <1>1, <1>2 DEF CompareOld

(* The new token replaces nothing the call has verified.                     *)
LEMMA GetNewTokenKeeps ==
  ASSUME IInv, GetNewToken
  PROVE  IInv'
<1>1. /\ call' \in Calls /\ items' \in Items /\ call'.op = call.op
      /\ items'.user = items.user /\ items'.oldauthtok = items.oldauthtok
      /\ \/ /\ call'.at = "retype"
            /\ call'.snap = call.snap
         \/ call'.at = "done"
  <2>1. NoItem \in Holds("authtok") /\ Typed \subseteq Holds("authtok")
    BY DEF Holds
  <2> QED
    BY <2>1, GetItemEffect DEF GetNewToken, IInv, TypeOK, Steps, Working, Changing, ItemNames
<1>2. CASE call'.at = "done"
  BY <1>1, <1>2, Ending DEF GetNewToken, IInv, TypeOK
<1>3. CASE call'.at = "retype"
  <2>1. /\ call.at = "new" /\ call'.snap = call.snap
        /\ UNCHANGED <<access, entry, quiet, crossed>>
    BY <1>1, <1>3 DEF GetNewToken, histories
  <2>2. TypeOK'
    BY <1>1, <1>3, <2>1 DEF IInv, TypeOK
  <2>3. Where' /\ Tokens'
    BY <1>1, <1>3, <2>1 DEF IInv, Where, Tokens, Authenticating, ProvingOld, Changing
  <2>4. Looked'
    BY <1>1, <1>3, <2>1 DEF IInv, Looked, Found, MayRead, Working, Authenticating, ProvingOld, Changing
  <2>5. Buffers'
    BY <1>1, <1>3, <2>1 DEF IInv, Buffers, Authenticating, ProvingOld, Changing
  <2> QED
    BY <2>2, <2>3, <2>4, <2>5 DEF IInv
<1> QED
  BY <1>1, <1>2, <1>3

(* A token typed twice and not empty is the one that gets hashed.            *)
LEMMA RetypeKeeps ==
  ASSUME IInv, Retype
  PROVE  IInv'
<1>1. CASE \E r \in {"CONV_ERR", "AUTHTOK_ERR"} :
             Return(r) /\ (UNCHANGED items \/ Put("authtok", NoItem))
  <2>1. call' \in Calls /\ call'.at = "done"
    BY <1>1, ReturnEffect DEF IInv, TypeOK, Errors
  <2>2. items' \in Items
    BY <1>1, PutEffect DEF IInv, TypeOK, ItemNames, Holds
  <2> QED
    BY <2>1, <2>2, Ending DEF Retype, IInv, TypeOK
<1>2. ASSUME NEW again \in Typed, again = Token(items.authtok), again # NoPassword,
             Goto("hash"), UNCHANGED items
      PROVE  IInv'
  <2>1. items.authtok \in Passwords
    BY <1>2 DEF IInv, TypeOK, Items, Token, Typed
  <2>2. /\ call' \in Calls /\ call'.at = "hash" /\ call'.op = call.op
        /\ call'.snap = call.snap
    BY <1>2, GotoEffect DEF IInv, TypeOK, Steps, Working, Changing
  <2>3. call.at = "retype" /\ UNCHANGED <<access, entry, items, quiet, crossed>>
    BY <1>2 DEF Retype, histories
  <2>4. TypeOK'
    BY <2>2, <2>3 DEF IInv, TypeOK
  <2>5. Where' /\ Tokens'
    BY <2>1, <2>2, <2>3 DEF IInv, Where, Tokens, Authenticating, ProvingOld, Changing
  <2>6. Looked'
    BY <2>2, <2>3 DEF IInv, Looked, Found, MayRead, Working, Authenticating, ProvingOld, Changing
  <2>7. Buffers'
    BY <2>2, <2>3 DEF IInv, Buffers, Authenticating, ProvingOld, Changing
  <2> QED
    BY <2>4, <2>5, <2>6, <2>7 DEF IInv
<1> QED
  BY <1>1, <1>2 DEF Retype

(* The new hash is made from the token.                                      *)
LEMMA HashNewKeeps ==
  ASSUME IInv, HashNew
  PROVE  IInv'
<1>1. CASE Return("AUTHTOK_ERR")
  <2>1. call' \in Calls /\ call'.at = "done"
    BY <1>1, ReturnEffect DEF IInv, TypeOK, Errors
  <2> QED
    BY <2>1, Ending DEF HashNew, IInv, TypeOK
<1>2. CASE Crypt("copy", Hash(NoName, items.authtok))
  <2>1. call.at = "hash" /\ UNCHANGED <<access, entry, items, quiet, crossed>>
    BY DEF HashNew, histories
  <2>2. items.authtok \in Passwords /\ Hash(NoName, items.authtok) \in HashSet
    BY <2>1 DEF IInv, Tokens, Hash, HashSet, Typed
  <2>3. /\ call' \in Calls /\ call'.at = "copy" /\ call'.op = call.op
        /\ call'.snap = call.snap /\ call'.calc = Hash(NoName, items.authtok)
    BY <1>2, <2>2, CryptEffect DEF IInv, TypeOK, Steps, Working, Changing
  <2>4. TypeOK'
    BY <2>1, <2>3 DEF IInv, TypeOK
  <2>5. Where' /\ Tokens'
    BY <2>1, <2>2, <2>3 DEF IInv, Where, Tokens, Hash, Typed, Authenticating, ProvingOld, Changing
  <2>6. Looked'
    BY <2>1, <2>3 DEF IInv, Looked, Found, MayRead, Working, Authenticating, ProvingOld, Changing
  <2>7. Buffers'
    BY <2>1, <2>3 DEF IInv, Buffers, Authenticating, ProvingOld, Changing
  <2> QED
    BY <2>4, <2>5, <2>6, <2>7 DEF IInv
<1> QED
  BY <1>1, <1>2 DEF HashNew

(* strdup copies what crypt's buffer holds.                                  *)
LEMMA CopyHashKeeps ==
  ASSUME IInv, CopyHash
  PROVE  IInv'
<1>1. CASE Return("AUTHTOK_ERR")
  <2>1. call' \in Calls /\ call'.at = "done"
    BY <1>1, ReturnEffect DEF IInv, TypeOK, Errors
  <2> QED
    BY <2>1, Ending DEF CopyHash, IInv, TypeOK
<1>2. CASE Goto("update")
  <2>1. call.at = "copy" /\ UNCHANGED <<access, entry, items, quiet, crossed>>
    BY DEF CopyHash, histories
  <2>2. /\ call' \in Calls /\ call'.at = "update" /\ call'.op = call.op
        /\ call'.snap = call.snap /\ call'.calc = call.calc
    BY <1>2, GotoEffect DEF IInv, TypeOK, Steps, Working, Changing
  <2>3. TypeOK'
    BY <2>1, <2>2 DEF IInv, TypeOK
  <2>4. Where' /\ Tokens'
    BY <2>1, <2>2 DEF IInv, Where, Tokens, Authenticating, ProvingOld, Changing
  <2>5. Looked'
    BY <2>1, <2>2 DEF IInv, Looked, Found, MayRead, Working, Authenticating, ProvingOld, Changing
  <2>6. Buffers'
    BY <2>1, <2>2 DEF IInv, Buffers, Authenticating, ProvingOld, Changing
  <2> QED
    BY <2>3, <2>4, <2>5, <2>6 DEF IInv
<1> QED
  BY <1>1, <1>2 DEF CopyHash

(* Writing the entry ends pam_chauthtok.                                     *)
LEMMA UpdateKeeps ==
  ASSUME IInv, Update
  PROVE  IInv'
<1>1. call' \in Calls /\ call'.at = "done"
  BY ReturnEffect DEF Update, IInv, TypeOK, Errors
<1>2. entry' \in [Users -> Entries]
  BY DEF Update, IInv, TypeOK, Tokens, Entries
<1> QED
  BY <1>1, <1>2, Ending DEF Update, IInv, TypeOK

(* Another process that changes an entry ends the quiet.                     *)
LEMMA OtherChangesKeeps ==
  ASSUME IInv, NEW u \in Users, NEW e \in Entries, OtherChanges(u, e)
  PROVE  IInv'
<1>1. UNCHANGED <<access, items, call, crossed>> /\ quiet' = FALSE
  BY DEF OtherChanges
<1>2. TypeOK'
  BY <1>1 DEF OtherChanges, IInv, TypeOK
<1>3. Where' /\ Looked' /\ Buffers' /\ Tokens'
  BY <1>1 DEF IInv, Where, Looked, Buffers, Tokens, Refused, Given, Found, MayRead
<1> QED
  BY <1>2, <1>3 DEF IInv

(* Another handle overwrites a buffer, with hashes of its own.               *)
LEMMA OtherHandleKeeps ==
  ASSUME IInv, OtherHandle
  PROVE  IInv'
<1>1. UNCHANGED <<access, entry, items, quiet>> /\ crossed' = TRUE
  BY DEF OtherHandle
<1>2. /\ call' \in Calls /\ call'.at = call.at /\ call'.op = call.op
      /\ call'.nonull = call.nonull /\ call'.snap = call.snap
      /\ call'.calc.of = call.calc.of \/ call'.calc.of \in Typed
  <2>1. CASE \E u \in Users : IsHash(entry[u]) /\ call' = [call EXCEPT !.sp = Hash(u, entry[u])]
    <3>1. PICK u \in Users : IsHash(entry[u]) /\ call' = [call EXCEPT !.sp = Hash(u, entry[u])]
      BY <2>1
    <3>2. Hash(u, entry[u]) \in HashSet
      BY <3>1 DEF IInv, TypeOK, Entries, IsHash, Hash, HashSet
    <3> QED
      BY <3>1, <3>2 DEF IInv, TypeOK, Calls
  <2>2. CASE \E u \in Users \cup {NoName}, p \in Typed :
               call' = [call EXCEPT !.calc = Hash(u, p)]
    <3>1. PICK u \in Users \cup {NoName}, p \in Typed :
            call' = [call EXCEPT !.calc = Hash(u, p)]
      BY <2>2
    <3>2. Hash(u, p) \in HashSet /\ Hash(u, p).of = p
      BY DEF Hash, HashSet
    <3> QED
      BY <3>1, <3>2 DEF IInv, TypeOK, Calls
  <2> QED
    BY <2>1, <2>2 DEF OtherHandle
<1>3. TypeOK'
  BY <1>1, <1>2 DEF IInv, TypeOK
<1>4. Where' /\ Looked' /\ Buffers' /\ Tokens'
  BY <1>1, <1>2 DEF IInv, Where, Looked, Buffers, Tokens, Refused, Given, Found, MayRead
<1> QED
  BY <1>3, <1>4 DEF IInv

------------------------------------------------------------------------------
(* The inductive invariant holds of every reachable state.                   *)
LEMMA Inductive == Spec => []IInv
<1>1. IInv /\ [Next]_vars => IInv'
  <2> SUFFICES ASSUME IInv, [Next]_vars PROVE IInv'
    OBVIOUS
  <2>1. ASSUME NEW operation \in {"authenticate", "chauthtok"}, NEW disallowNull \in BOOLEAN,
               Begin(operation, disallowNull)
        PROVE  IInv'
    BY <2>1, BeginKeeps
  <2>2. ASSUME NEW u \in Users \cup {NoItem}, SetItem("user", u)
        PROVE  IInv'
    BY <2>2, SetItemKeeps DEF ItemNames, Holds
  <2>3. ASSUME NEW item \in {"authtok", "oldauthtok"}, NEW v \in Typed \cup {NoItem},
               SetItem(item, v)
        PROVE  IInv'
    BY <2>3, SetItemKeeps DEF ItemNames, Holds
  <2>4. CASE Handle
    BY <2>4, GetUserKeeps, LookUpKeeps, GetTokenKeeps, CheckKeeps, CompareKeeps,
       GetOldTokenKeeps, VerifyOldKeeps, CompareOldKeeps, GetNewTokenKeeps, RetypeKeeps,
       HashNewKeeps, CopyHashKeeps, UpdateKeeps DEF Handle
  <2>5. ASSUME NEW u \in Users, NEW e \in Entries, OtherChanges(u, e)
        PROVE  IInv'
    BY <2>5, OtherChangesKeeps
  <2>6. CASE OtherHandle
    BY <2>6, OtherHandleKeeps
  <2>7. CASE UNCHANGED vars
    BY <2>7 DEF vars, histories, IInv, TypeOK, Where, Looked, Buffers, Tokens, Refused, Given, Found, MayRead
  <2> QED
    BY <2>1, <2>2, <2>3, <2>4, <2>5, <2>6, <2>7 DEF Next
<1> QED
  BY Initially, <1>1, PTL DEF Spec

(* The variables keep their types, and nothing is looked up or changed but   *)
(* for a user there is a name for.                                           *)
THEOREM TypeCorrect == Spec => []TypeOK
<1>1. IInv => TypeOK
  BY DEF IInv
<1> QED
  BY Inductive, <1>1, PTL

(* Only these steps of a call return from it.                                *)
LEMMA ReturningSteps ==
  ASSUME IInv, [Next]_vars, call.at # "done", call'.at = "done"
  PROVE  Handle
<1>1. ASSUME NEW u \in Users, NEW e \in Entries, OtherChanges(u, e)
      PROVE  FALSE
  BY <1>1 DEF OtherChanges
<1>2. CASE OtherHandle
  BY <1>2 DEF OtherHandle, IInv, TypeOK, Calls
<1> QED
  BY <1>1, <1>2 DEF Next, Begin, SetItem, vars

(* What pam_authenticate may return, and from where.                         *)
LEMMA AuthenticateReturns ==
  ASSUME IInv, [Next]_vars, Returns("authenticate")
  PROVE  \/ GetUser /\ call'.ret = "CONV_ERR"
         \/ GetToken /\ call'.ret = "CONV_ERR"
         \/ LookUp /\ call'.ret = "USER_UNKNOWN" /\ items'.authtok = NoItem
         \/ Check
         \/ Compare
<1>1. Handle /\ call.op = "authenticate" /\ call.at # "done" /\ call'.at = "done"
  BY ReturningSteps DEF Returns
<1>2. CASE GetUser
  BY <1>1, <1>2, GetItemEffect DEF GetUser, IInv, TypeOK, Steps, ItemNames, Holds
<1>3. CASE GetToken
  BY <1>1, <1>3, GetItemEffect DEF GetToken, IInv, TypeOK, Steps, Working, Authenticating,
     ItemNames, Holds
<1>4. CASE LookUp
  <2>1. CASE NoUser
    <3>1. call'.ret = "USER_UNKNOWN"
      BY <2>1, ReturnEffect DEF NoUser, IInv, TypeOK, Errors
    <3>2. items'.authtok = NoItem
      BY <1>1, <2>1, PutEffect DEF NoUser, IInv, TypeOK, ItemNames, Holds
    <3> QED
      BY <1>4, <3>1, <3>2
  <2>2. CASE items.user \in Users /\ Fetch("token")
    BY <1>1, <2>2, FetchEffect DEF IInv, Steps, Working, Authenticating
  <2> QED
    BY <1>1, <1>4, <2>1, <2>2 DEF LookUp
<1> QED
  BY <1>1, <1>2, <1>3, <1>4 DEF Handle, IInv, Where, ProvingOld, Changing, GetOldToken,
     VerifyOld, CompareOld, GetNewToken, Retype, HashNew, CopyHash, Update

(* pam_authenticate's verdict is right at every return of it, in every       *)
(* interleaving with other processes and with other handles.                 *)
THEOREM VerdictRight == Spec => VerdictIsRight
<1>1. IInv /\ [Next]_vars => [RightVerdict]_vars
  <2> SUFFICES ASSUME IInv, [Next]_vars, Returns("authenticate")
               PROVE  RightVerdict
    BY DEF RightVerdict
  <2>1. CASE Check
    <3>1. CASE IsHash(call.snap) /\ call.sp.of = Locked /\ Fail("AUTH_ERR")
      <4>1. call'.ret = "AUTH_ERR"
        BY <3>1, FailEffect DEF IInv, Errors
      <4>2. quiet /\ ~crossed /\ MayRead => entry[items.user] = Locked
        BY <2>1, <3>1 DEF Check, IInv, Looked, Buffers, Found, IsHash, Hash, Working,
           Authenticating
      <4>3. Given # Locked
        BY TokenTyped, SessionAssumption DEF IInv, TypeOK, Items, Typed, Given
      <4> QED
        BY <4>1, <4>2, <4>3 DEF RightVerdict, Deserved, MayRead
    <3>2. CASE RefusesNull(Token(items.authtok)) /\ Fail("AUTH_ERR")
      BY <3>2, FailEffect DEF IInv, Errors, RightVerdict, RefusesNull, Refused, Given
    <3>3. CASE /\ ~RefusesNull(Token(items.authtok)) /\ call.snap = "denied"
               /\ \E r \in HelperSays(Token(items.authtok)) : Fail(r)
      <4>1. PICK r \in HelperSays(Token(items.authtok)) : Fail(r)
        BY <3>3
      <4>2. call'.ret = r
        BY <4>1, FailEffect DEF IInv, Errors, HelperSays
      <4>3. access \in {"plain", "noinput"} /\ ~MayRead
        BY <2>1, <3>3 DEF Check, IInv, Looked, Working, Authenticating, TypeOK, MayRead, Accesses
      <4>4. r = "SUCCESS" => Deserved(entry[items.user])
        BY <4>3 DEF HelperSays, Judged, Deserved, Given, RefusesNull
      <4>5. ~Refused
        BY <3>3 DEF RefusesNull, Refused, Given
      <4> QED
        BY <4>2, <4>3, <4>4, <4>5 DEF RightVerdict
    <3>4. CASE \E r \in {"USER_UNKNOWN", "AUTHINFO_UNAVAIL"} : Fail(r)
      BY <3>4, FailEffect DEF IInv, Errors, RightVerdict
    <3>5. CASE Crypt("compare", Hash(call.sp.salt, Token(items.authtok)))
      BY <3>5 DEF Crypt, Returns, IInv, TypeOK, Calls
    <3> QED
      BY <2>1, <3>1, <3>2, <3>3, <3>4, <3>5 DEF Check
  <2>2. CASE Compare
    <3>1. /\ call.at = "compare" /\ ~Refused /\ IsHash(call.snap)
          /\ quiet => call.snap = Found
          /\ MayRead
      BY <2>2 DEF Compare, IInv, Tokens, Looked, IsHash, Working, Authenticating
    <3>2. ~crossed => (call.calc = call.sp <=> Given = call.snap)
      BY <3>1 DEF IInv, Buffers, Hash, Authenticating, Given
    <3>3. quiet => call.snap = entry[items.user]
      BY <3>1 DEF Found
    <3>4. \A e : Deserved(e) <=> Given = e
      BY <3>1 DEF Deserved, MayRead
    <3>5. CASE call.calc = call.sp /\ Return("SUCCESS")
      BY <3>1, <3>2, <3>3, <3>4, <3>5, ReturnEffect DEF IInv, TypeOK, RightVerdict
    <3>6. CASE call.calc # call.sp /\ Fail("AUTH_ERR")
      BY <3>1, <3>2, <3>3, <3>4, <3>6, FailEffect DEF IInv, Errors, RightVerdict
    <3> QED
      BY <2>2, <3>5, <3>6 DEF Compare
  <2> QED
    BY <2>1, <2>2, AuthenticateReturns DEF RightVerdict
<1> QED
  BY Inductive, <1>1, PTL DEF Spec, VerdictIsRight

(* A token that was not accepted is gone when pam_authenticate returns.      *)
THEOREM FailedForgotten == Spec => FailedTokenForgotten
<1>1. IInv /\ [Next]_vars => [ForgetsFailed]_vars
  <2> SUFFICES ASSUME IInv, [Next]_vars, Returns("authenticate")
               PROVE  ForgetsFailed
    BY DEF ForgetsFailed
  <2>1. CASE Check
    <3>1. CASE \E r \in {"SUCCESS", "USER_UNKNOWN", "AUTH_ERR", "AUTHINFO_UNAVAIL"} : Fail(r)
      BY <3>1, FailEffect DEF IInv, Errors, ForgetsFailed
    <3>2. CASE Crypt("compare", Hash(call.sp.salt, Token(items.authtok)))
      BY <3>2 DEF Crypt, Returns, IInv, TypeOK, Calls
    <3> QED
      BY <2>1, <3>1, <3>2, CheckCases DEF IInv
  <2>2. CASE Compare
    BY <2>2, ReturnEffect, FailEffect DEF Compare, IInv, TypeOK, Errors, ForgetsFailed
  <2> QED
    BY <2>1, <2>2, AuthenticateReturns DEF ForgetsFailed
<1> QED
  BY Inductive, <1>1, PTL DEF Spec, FailedTokenForgotten

(* pam_chauthtok reports success from its last step only.                    *)
LEMMA ChangeReturns ==
  ASSUME IInv, [Next]_vars, Returns("chauthtok"), call'.ret = "SUCCESS"
  PROVE  Update
<1>1. Handle /\ call.op = "chauthtok" /\ call.at # "done" /\ call'.at = "done"
  BY ReturningSteps DEF Returns
<1>2. call \in Calls /\ items \in Items /\ TypeOK
  BY DEF IInv, TypeOK
<1>3. \A r \in {"USER_UNKNOWN", "AUTH_ERR", "AUTHINFO_UNAVAIL", "AUTHTOK_ERR", "CONV_ERR"} :
        ~Return(r)
  BY <1>2, ReturnEffect DEF Errors
<1>4. ~GetUser /\ ~GetOldToken /\ ~GetNewToken
  BY <1>1, <1>2, GetItemEffect DEF GetUser, GetOldToken, GetNewToken, Steps, Working,
     ProvingOld, Changing, ItemNames, Holds
<1>5. ~GetToken /\ ~Check /\ ~Compare
  BY <1>1 DEF GetToken, Check, Compare, IInv, Where, Authenticating
<1>6. ~LookUp
  BY <1>1, <1>2, <1>3, FetchEffect DEF LookUp, NoUser, Steps, Working, ProvingOld, Changing
<1>7. ~VerifyOld
  <2>1. Hash(call.sp.salt, Token(items.oldauthtok)) \in HashSet
    BY <1>2, TokenTyped DEF Items, Calls, Hash, HashSet
  <2> QED
    BY <1>1, <1>2, <1>3, <2>1, CryptEffect DEF VerifyOld, Steps, Working, ProvingOld
<1>8. ~CompareOld /\ ~CopyHash /\ ~Retype
  BY <1>1, <1>2, <1>3 DEF CompareOld, CopyHash, Retype, Goto, Calls
<1>9. ~HashNew
  BY <1>1, <1>2, <1>3 DEF HashNew, Crypt, Calls
<1> QED
  BY <1>1, <1>4, <1>5, <1>6, <1>7, <1>8, <1>9 DEF Handle

(* A changed password is the caller's own or root's doing, made from the     *)
(* token and authorised by the old one.                                      *)
THEOREM ChangeAuthorised == Spec => ChangeIsAuthorised
<1>1. IInv /\ [Next]_vars => [AuthorisedChange]_vars
  <2> SUFFICES ASSUME IInv, [Next]_vars, Returns("chauthtok"), call'.ret = "SUCCESS"
               PROVE  AuthorisedChange
    BY DEF AuthorisedChange
  <2>1. call.at = "update" /\ items.user \in Users
    BY ChangeReturns DEF Update, IInv, TypeOK
  <2>2. entry' = [entry EXCEPT ![items.user] = call.calc.of]
    BY ChangeReturns, ReturnEffect DEF Update, IInv, TypeOK, Errors
  <2>3. \A u \in Users \ {items.user} : entry'[u] = entry[u]
    BY <2>1, <2>2 DEF IInv, TypeOK
  <2>4. entry'[items.user] = call.calc.of
    BY <2>1, <2>2 DEF IInv, TypeOK
  <2>5. ~crossed => /\ call.calc.of = items.authtok
                    /\ access = "root" \/ (access = "setuid" /\ call.snap = Token(items.oldauthtok))
    BY <2>1 DEF IInv, Buffers, Hash, Changing
  <2>6. items.authtok \in Passwords /\ (quiet => call.snap = Found)
    BY <2>1 DEF IInv, Tokens, Looked, Working, Changing
  <2> QED
    BY <2>3, <2>4, <2>5, <2>6 DEF AuthorisedChange, Found, MayRead
<1> QED
  BY Inductive, <1>1, PTL DEF Spec, ChangeIsAuthorised
=============================================================================
