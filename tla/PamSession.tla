----------------------------- MODULE PamSession -----------------------------
(* One PAM handle of libpam/pam.c: an application calls pam_authenticate,    *)
(* pam_chauthtok and pam_set_item on it in any order. The calls share the    *)
(* items PAM_USER, PAM_AUTHTOK and PAM_OLDAUTHTOK, ask the application's     *)
(* conversation for what is missing, and meanwhile other processes change    *)
(* passwords, and other handles of this process (those of other threads, or  *)
(* one the conversation opens) run calls of their own. getspnam and crypt    *)
(* answer in buffers the whole process shares.                               *)
(*                                                                           *)
(* An entry is the password its hash is made from, Locked where locked_hash  *)
(* (296) says no password matches, NoEntry where the user has no line.       *)
(* Writing /etc/shadow is PasswordFile's one step; asking unix_chkpwd is one *)
(* step that answers as ChkpwdHelper does, or fails.                         *)
EXTENDS Naturals

CONSTANTS
  Users,        \* user names
  Passwords,    \* passwords that are not empty
  NoPassword,   \* the empty password
  Locked,       \* a locked or empty hash
  NoEntry,      \* no line in /etc/shadow
  NoItem,       \* NULL
  NoName,       \* the empty user name
  Me,           \* the user who runs the application
  Sent          \* what the helper is sent of a password: its first
                \* PAM_MAX_RESP_SIZE bytes

Typed == Passwords \cup {NoPassword}

ASSUME SessionAssumption ==
  /\ Me \in Users
  /\ NoPassword \notin Passwords
  /\ {Locked, NoEntry, NoItem} \cap (Passwords \cup {NoPassword}) = {}
  /\ "denied" \notin Passwords \cup {NoPassword, Locked, NoEntry}
  /\ Locked # NoEntry /\ NoItem # NoName /\ {NoItem, NoName} \cap Users = {}
  /\ Sent \in [Typed -> Typed]
  /\ \A p \in Typed : Sent[Sent[p]] = Sent[p] /\ (Sent[p] = NoPassword <=> p = NoPassword)

Entries == Typed \cup {Locked, NoEntry}

VARIABLES
  access,       \* what the process may read and has open, see Accesses
  entry,        \* /etc/shadow
  items,        \* the handle's items
  call,         \* the call in progress, or the last one: see Calls
  quiet,        \* history: no other process changed an entry in the call
  crossed       \* history: another handle overwrote what the call still reads

histories == <<quiet, crossed>>
vars == <<access, entry, items, call, quiet, crossed>>

(* "root"; "setuid": reads /etc/shadow and runs for Me; "plain": runs for Me *)
(* and may not read it; "noinput": the same, with descriptor 0 closed.       *)
Accesses == {"root", "setuid", "plain", "noinput"}
MayRead == access \in {"root", "setuid"}

Errors == {"USER_UNKNOWN", "AUTH_ERR", "AUTHINFO_UNAVAIL", "AUTHTOK_ERR", "CONV_ERR"}

(* A hash: the user whose salt it has, NoName for a new salt, and what it is *)
(* made from. Hashes are equal only if both are.                             *)
Hash(u, e) == [salt |-> u, of |-> e]
HashSet == [salt : Users \cup {NoName}, of : Typed \cup {Locked, NoItem}]
NoHash == Hash(NoName, NoItem)

(* at: the next thing the call does, "done" after its return; snap: what     *)
(* getspnam returned ("denied" for EACCES); sp, calc: what the buffers of    *)
(* getspnam and crypt hold as far as the call will read them, calc from      *)
(* "update" on the copy strdup made; ret: its result.                        *)
Calls == [op : {"none", "authenticate", "chauthtok"},
          at : {"done", "user", "lookup", "token", "check", "compare", "old", "verify",
                "compareOld", "new", "retype", "hash", "copy", "update"},
          nonull : BOOLEAN, snap : Entries \cup {"denied"}, sp : HashSet, calc : HashSet,
          ret : Errors \cup {"none", "SUCCESS"}]

Items == [user : Users \cup {NoName, NoItem}, authtok : Typed \cup {NoItem},
          oldauthtok : Typed \cup {NoItem}]

Init ==
  /\ access \in Accesses
  /\ entry \in [Users -> Entries]
  /\ items = [user |-> NoItem, authtok |-> NoItem, oldauthtok |-> NoItem]
  /\ call = [op |-> "none", at |-> "done", nonull |-> FALSE, snap |-> NoEntry,
             sp |-> NoHash, calc |-> NoHash, ret |-> "none"]
  /\ quiet = TRUE /\ crossed = FALSE

Goto(label) == call' = [call EXCEPT !.at = label]
(* What the call knew is gone when it returns.                               *)
Return(r) == call' = [call EXCEPT !.at = "done", !.nonull = FALSE, !.snap = NoEntry,
                                  !.sp = NoHash, !.calc = NoHash, !.ret = r]
Put(item, v) == items' = [items EXCEPT ![item] = v]

(* ask (223): the conversation answers, with NULL perhaps, or fails; the     *)
(* answer becomes the item.                                                  *)
Ask(item, answers, next) ==
  \/ \E a \in answers \cup {NoItem} : Put(item, a) /\ Goto(next)
  \/ Return("CONV_ERR") /\ UNCHANGED items

(* pam_get_user and pam_get_authtok: what is cached is taken unasked.        *)
GetItem(item, answers, next) ==
  IF items[item] = NoItem THEN Ask(item, answers, next)
  ELSE Goto(next) /\ UNCHANGED items

(* A NULL token counts as the empty password.                                *)
Token(v) == IF v = NoItem THEN NoPassword ELSE v

------------------------------------------------------------------------------
(* Only pam_authenticate looks at its flags.                                 *)
Begin(operation, disallowNull) ==
  /\ call.at = "done"
  /\ call' = [op |-> operation, at |-> "user", nonull |-> disallowNull,
              snap |-> NoEntry, sp |-> NoHash, calc |-> NoHash, ret |-> "none"]
  /\ quiet' = TRUE /\ crossed' = FALSE
  /\ UNCHANGED <<access, entry, items>>

SetItem(item, v) ==
  /\ call.at = "done"
  /\ Put(item, v)
  /\ UNCHANGED <<access, entry, call, histories>>

GetUser ==
  /\ call.at = "user"
  /\ GetItem("user", Users \cup {NoName}, "lookup")
  /\ UNCHANGED <<access, entry, histories>>

(* getspnam: a process without privilege may not read /etc/shadow.           *)
Found == IF MayRead THEN entry[items.user] ELSE "denied"
IsHash(e) == e \notin {NoEntry, "denied"}
Fetch(next) ==
  call' = [call EXCEPT !.at = next, !.snap = Found,
                       !.sp = IF IsHash(Found) /\ next # "new" THEN Hash(items.user, Found) ELSE NoHash]

NoUser == Return("USER_UNKNOWN")
          /\ IF call.op = "authenticate" THEN Put("authtok", NoItem) ELSE UNCHANGED items

(* Mutant: geteuid in place of getuid at 638.                                *)
LooksUpByEuid ==
  /\ call.at = "lookup"
  /\ \/ items.user \notin Users /\ NoUser
     \/ /\ items.user \in Users
        /\ Fetch(IF call.op = "authenticate" THEN "token" ELSE "new")
        /\ UNCHANGED items
  /\ UNCHANGED <<access, entry, histories>>

(* Mutant: no test of the user's name at 376 and 634.                        *)
LooksUpAnyName ==
  /\ call.at = "lookup"
  /\ Goto(IF call.op = "authenticate" THEN "token" ELSE "new")
  /\ UNCHANGED <<access, entry, items, histories>>

LookUp ==
  /\ call.at = "lookup"
  /\ \/ items.user \notin Users /\ NoUser
     \/ items.user \in Users /\ UNCHANGED items /\
        \/ call.op = "authenticate" /\ Fetch("token")
        \/ call.op = "chauthtok" /\ access = "root" /\ Fetch("new")
        \/ call.op = "chauthtok" /\ access # "root" /\ IsHash(Found) /\ Fetch("old")
        \/ call.op = "chauthtok" /\ access # "root" /\ ~IsHash(Found) /\ Return("USER_UNKNOWN")
  /\ UNCHANGED <<access, entry, histories>>

------------------------------------------------------------------------------
(* pam_authenticate, 381-408.                                                *)
GetToken ==
  /\ call.at = "token"
  /\ GetItem("authtok", Typed, "check")
  /\ UNCHANGED <<access, entry, histories>>

(* Mutant: PAM_DISALLOW_NULL_AUTHTOK not looked at.                          *)
RefusesNothing(tok) == FALSE

RefusesNull(tok) == tok = NoPassword /\ call.nonull

(* unix_chkpwd judges the part of the token it is sent, or the empty         *)
(* password where descriptor 0 was closed (316-318), and accepts no empty    *)
(* one where that is disallowed. It checks the user who runs it only; it may *)
(* not be there, its process may not be had or may be killed.                *)
Judged(tok) == IF access = "noinput" THEN NoPassword ELSE Sent[tok]

HelperSays(tok) ==
  {"AUTH_ERR", "AUTHINFO_UNAVAIL"}
  \cup {r \in {"USER_UNKNOWN"} : items.user = Me /\ entry[items.user] = NoEntry}
  \cup {r \in {"SUCCESS"} : /\ items.user = Me /\ entry[items.user] = Judged(tok)
                            /\ ~RefusesNull(Judged(tok))}

(* Mutant of Fail: `return ret` in place of `goto fail`.                     *)
KeepsToken(r) == Return(r) /\ UNCHANGED items

(* Every verdict but a success the process found by itself clears the token, *)
(* the helper's PAM_SUCCESS too (386-387, 407).                              *)
Fail(r) == Return(r) /\ Put("authtok", NoItem)

(* crypt leaves its answer in a buffer of its own, or returns NULL.          *)
Crypt(next, hash) == call' = [call EXCEPT !.at = next, !.calc = hash]

Check ==
  /\ call.at = "check"
  /\ LET tok == Token(items.authtok) IN
     \/ RefusesNull(tok) /\ Fail("AUTH_ERR")
     \/ ~RefusesNull(tok) /\
        \/ call.snap = "denied" /\ \E r \in HelperSays(tok) : Fail(r)
        \/ call.snap = NoEntry /\ Fail("USER_UNKNOWN")
        \/ IsHash(call.snap) /\ call.sp.of = Locked /\ Fail("AUTH_ERR")
        \/ IsHash(call.snap) /\ call.sp.of # Locked /\
           \/ Crypt("compare", Hash(call.sp.salt, tok)) /\ UNCHANGED items
           \/ Fail("AUTHINFO_UNAVAIL")
  /\ UNCHANGED <<access, entry, histories>>

Compare ==
  /\ call.at = "compare"
  /\ \/ call.calc = call.sp /\ Return("SUCCESS") /\ UNCHANGED items
     \/ call.calc # call.sp /\ Fail("AUTH_ERR")
  /\ UNCHANGED <<access, entry, histories>>

------------------------------------------------------------------------------
(* pam_chauthtok, 641-672.                                                   *)
GetOldToken ==
  /\ call.at = "old"
  /\ GetItem("oldauthtok", Typed, "verify")
  /\ UNCHANGED <<access, entry, histories>>

VerifyOld ==
  /\ call.at = "verify"
  /\ \/ call.sp.of = Locked /\ Return("AUTH_ERR")
     \/ call.sp.of # Locked /\ Crypt("compareOld", Hash(call.sp.salt, Token(items.oldauthtok)))
     \/ call.sp.of # Locked /\ Return("AUTHINFO_UNAVAIL")
  /\ UNCHANGED <<access, entry, items, histories>>

(* The old token stays cached, a wrong one too.                              *)
CompareOld ==
  /\ call.at = "compareOld"
  /\ \/ call.calc = call.sp /\ call' = [call EXCEPT !.at = "new", !.sp = NoHash, !.calc = NoHash]
     \/ call.calc # call.sp /\ Return("AUTH_ERR")
  /\ UNCHANGED <<access, entry, items, histories>>

GetNewToken ==
  /\ call.at = "new"
  /\ GetItem("authtok", Typed, "retype")
  /\ UNCHANGED <<access, entry, histories>>

(* The item is always the token just fetched: the retype question is always  *)
(* asked. An answer that differs clears the item.                            *)
Retype ==
  /\ call.at = "retype"
  /\ \/ Return("CONV_ERR") /\ UNCHANGED items
     \/ \E again \in Typed :
          IF again # Token(items.authtok)
          THEN Return("AUTHTOK_ERR") /\ Put("authtok", NoItem)
          ELSE /\ IF again = NoPassword THEN Return("AUTHTOK_ERR") ELSE Goto("hash")
               /\ UNCHANGED items
  /\ UNCHANGED <<access, entry, histories>>

(* hash_password: crypt with a new salt, then strdup of crypt's buffer.      *)
HashNew ==
  /\ call.at = "hash"
  /\ Crypt("copy", Hash(NoName, items.authtok)) \/ Return("AUTHTOK_ERR")
  /\ UNCHANGED <<access, entry, items, histories>>

CopyHash ==
  /\ call.at = "copy"
  /\ Goto("update") \/ Return("AUTHTOK_ERR")
  /\ UNCHANGED <<access, entry, items, histories>>

(* update_shadow_password, which a process that may not write /etc cannot    *)
(* complete and any process may fail in.                                     *)
Update ==
  /\ call.at = "update"
  /\ \/ entry' = [entry EXCEPT ![items.user] = call.calc.of] /\ Return("SUCCESS")
     \/ Return("AUTHTOK_ERR") /\ UNCHANGED entry
  /\ UNCHANGED <<access, items, histories>>

------------------------------------------------------------------------------
OtherChanges(u, e) ==
  /\ entry[u] # e
  /\ entry' = [entry EXCEPT ![u] = e]
  /\ quiet' = FALSE
  /\ UNCHANGED <<access, items, call, crossed>>

(* Another handle of the process looks a user up or hashes a token while     *)
(* this call has yet to read the buffer's content. At any other time the     *)
(* buffers are written before this call reads them.                          *)
ReadsSp == IsHash(call.snap) /\ call.at \in {"token", "check", "compare", "old", "verify", "compareOld"}
ReadsCalc == call.at \in {"compare", "compareOld", "copy"}

OtherHandle ==
  /\ \/ ReadsSp /\ \E u \in Users :
          IsHash(entry[u]) /\ call' = [call EXCEPT !.sp = Hash(u, entry[u])]
     \/ ReadsCalc /\ \E u \in Users \cup {NoName}, p \in Typed :
          call' = [call EXCEPT !.calc = Hash(u, p)]
  /\ call' # call
  /\ crossed' = TRUE
  /\ UNCHANGED <<access, entry, items, quiet>>

Handle == GetUser \/ LookUp \/ GetToken \/ Check \/ Compare \/ GetOldToken \/ VerifyOld
          \/ CompareOld \/ GetNewToken \/ Retype \/ HashNew \/ CopyHash \/ Update

Next ==
  \/ \E disallowNull \in BOOLEAN : Begin("authenticate", disallowNull)
  \/ Begin("chauthtok", FALSE)
  \/ \E u \in Users \cup {NoItem} : SetItem("user", u)
  \/ \E item \in {"authtok", "oldauthtok"}, v \in Typed \cup {NoItem} : SetItem(item, v)
  \/ Handle
  \/ \E u \in Users, e \in Entries : OtherChanges(u, e)
  \/ OtherHandle

Spec == Init /\ [][Next]_vars

------------------------------------------------------------------------------
(* Every variable keeps its type; a token to be checked has a user to be     *)
(* checked for.                                                              *)
TypeOK ==
  /\ access \in Accesses
  /\ entry \in [Users -> Entries]
  /\ items \in Items /\ call \in Calls /\ quiet \in BOOLEAN /\ crossed \in BOOLEAN
  /\ call.at \notin {"done", "user", "lookup"} => items.user \in Users

Returns(operation) == call.op = operation /\ call.at # "done" /\ call'.at = "done"
Given == Token(items.authtok)
Refused == call.nonull /\ Given = NoPassword

(* The token deserves PAM_SUCCESS while e is the user's entry. The helper    *)
(* knows no byte beyond the PAM_MAX_RESP_SIZE first, and with descriptor 0   *)
(* closed takes any token for the empty one.                                 *)
Deserved(e) ==
  \/ MayRead /\ Given = e
  \/ access = "plain" /\ Sent[Given] = e
  \/ access = "noinput" /\ e = NoPassword /\ ~call.nonull

(* A return of pam_authenticate: the token against the entry.                *)
RightVerdict ==
  Returns("authenticate") =>
    /\ call'.ret = "SUCCESS" =>
         /\ ~Refused
         /\ crossed \/ Deserved(entry[items.user]) \/ (MayRead /\ Deserved(call.snap))
         /\ quiet /\ ~crossed => Deserved(entry[items.user])
    /\ call'.ret = "AUTH_ERR" /\ quiet /\ ~crossed /\ MayRead =>
         Refused \/ ~Deserved(entry[items.user])

(* When pam_authenticate returns and no other handle wrote getspnam's or     *)
(* crypt's buffer between its lookup and its comparison (379-394), its       *)
(* verdict is right. A process that reads the entry itself gets PAM_SUCCESS  *)
(* only for the password of the moment, or of the moment the entry was read, *)
(* and, if nobody changed a password meanwhile, never PAM_AUTH_ERR for the   *)
(* right one. One that asks the helper gets PAM_SUCCESS only for a token     *)
(* whose first PAM_MAX_RESP_SIZE bytes are the password (337-338), or, with  *)
(* descriptor 0 closed (316-318), for any token while the user's password is *)
(* empty and may be. An empty token is never accepted where that is          *)
(* disallowed, whatever other handles do.                                    *)
VerdictIsRight == [][RightVerdict]_vars

(* A return of pam_authenticate: the token stays only after a success, or    *)
(* where the conversation gave none.                                         *)
ForgetsFailed ==
  Returns("authenticate") =>
    call'.ret \in {"SUCCESS", "CONV_ERR"} \/ items'.authtok = NoItem

(* A token pam_authenticate did not accept is not offered again: the next    *)
(* call asks (397-408), whatever other handles do.                           *)
FailedTokenForgotten == [][ForgetsFailed]_vars

(* A successful return of pam_chauthtok: whose entry, from what, to what.    *)
AuthorisedChange ==
  Returns("chauthtok") /\ call'.ret = "SUCCESS" =>
    /\ \A u \in Users \ {items.user} : entry'[u] = entry[u]
    /\ crossed \/
         /\ entry'[items.user] \in Passwords /\ entry'[items.user] = items.authtok
         /\ access = "root" \/ (access = "setuid" /\ call.snap = Token(items.oldauthtok))
         /\ access = "setuid" /\ quiet => entry[items.user] = Token(items.oldauthtok)

(* When pam_chauthtok returns PAM_SUCCESS, only its own user's entry has     *)
(* changed. Unless another handle wrote a buffer between its lookup and its  *)
(* comparison, or between crypt and strdup (531-532), the new password is    *)
(* the token, not empty, and, unless root asked, the password of the moment  *)
(* the call looked the user up was given; that is still the password when    *)
(* it writes if nobody else changed it.                                      *)
ChangeIsAuthorised == [][AuthorisedChange]_vars
=============================================================================
