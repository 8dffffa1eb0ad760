------------------------------ MODULE LoginDefs ------------------------------
(* The setting that hash_password of libpam/pam.c makes for crypt. It looks  *)
(* the method and the cost up in /etc/login.defs in two reads, between which *)
(* an administrator may rewrite the file, as between two calls. The prefix   *)
(* of the method is a static buffer: a process that hashes a second password *)
(* starts from the first one's.                                              *)
(*                                                                           *)
(* A line is a key, hidden or not behind '#', and a value. As a method that  *)
(* is a name; as a number it is what strtol makes of it: long says whether   *)
(* that is the whole value and in range. TLC's integers end at INT_MAX, from *)
(* where on the code treats all alike. The salt's random part is left out.   *)
EXTENDS Integers, Sequences

CONSTANTS
  Lines,     \* the lines an administrator may write
  NoLines    \* bound: the number of lines of the file

INT_MAX == 2147483647
Prefix == [YESCRYPT |-> "$y$", SHA512 |-> "$6$", SHA256 |-> "$5$", MD5 |-> "$1$", BCRYPT |-> "$2b$"]
Values == [text : STRING, long : BOOLEAN, number : Int]

ASSUME LinesAssumption ==
  /\ Lines \subseteq [key : STRING, hidden : BOOLEAN, value : Values]
  /\ NoLines \in Nat

VARIABLES
  file,      \* /etc/login.defs
  prefix,    \* the static buffer, "none" while it is empty
  at,        \* what hash_password does next: "idle" when it has returned
  rounds,    \* what password_hash_rounds returned
  setting,   \* what crypt was given, [prefix, cost], cost 0 for none
  found      \* history: the values password_hash_rounds read, at most one

hashVars == <<file, prefix, at, rounds, setting, found>>

None == [prefix |-> "none", cost |-> 0]

HashInit ==
  /\ file \in [1..NoLines -> {l \in Lines : l.hidden}]
  /\ prefix = "none" /\ at = "idle" /\ rounds = 0 /\ setting = None /\ found = {}

Rewrite(k, l) ==
  /\ file[k] # l
  /\ file' = [file EXCEPT ![k] = l]
  /\ UNCHANGED <<prefix, at, rounds, setting, found>>

(* pam_modutil_search_key: the value of the first line that names the key    *)
(* and is not commented out; nothing if there is none.                       *)
Naming(key) == {k \in DOMAIN file : file[k].key = key /\ ~file[k].hidden}
SearchKey(key) == {file[k].value : k \in {j \in Naming(key) : \A i \in Naming(key) : j <= i}}

(* search_long_key *)
SearchLong(key, fallback) ==
  IF \E v \in SearchKey(key) : v.long THEN (CHOOSE v \in SearchKey(key) : TRUE).number ELSE fallback

(* password_hash_prefix: a method the code knows changes the buffer; with    *)
(* none, it stays, or is "$y$" at the first call.                            *)
ReadMethod ==
  /\ at = "idle"
  /\ prefix' = IF \E v \in SearchKey("ENCRYPT_METHOD") : v.text \in DOMAIN Prefix
               THEN Prefix[(CHOOSE v \in SearchKey("ENCRYPT_METHOD") : TRUE).text]
               ELSE IF prefix = "none" THEN "$y$" ELSE prefix
  /\ at' = "rounds" /\ setting' = None /\ found' = {} /\ rounds' = 0
  /\ UNCHANGED file

Clamp(n, low, high) == IF n < low THEN low ELSE IF n > high THEN high ELSE n

(* Mutant: no upper bound under INT_MAX.                                     *)
NoCeiling(n) == IF n < 1000 \/ n >= INT_MAX THEN 0 ELSE n

(* Mutant: the lower bound of 1000 refused.                                  *)
RefusesFloor(n) == IF n <= 1000 \/ n >= INT_MAX THEN 0 ELSE IF n > 9999999 THEN 9999999 ELSE n

(* SHA_CRYPT_MAX_ROUNDS: 0, for crypt's own default, unless it is in reach.  *)
ShaRounds(n) == IF n < 1000 \/ n >= INT_MAX THEN 0 ELSE IF n > 9999999 THEN 9999999 ELSE n

CostKey(p) ==
  CASE p = "$y$" -> "YESCRYPT_COST_FACTOR"
    [] p \in {"$5$", "$6$"} -> "SHA_CRYPT_MAX_ROUNDS"
    [] p = "$2b$" -> "BCRYPT_MIN_ROUNDS"
    [] OTHER -> "none"

ReadRounds ==
  /\ at = "rounds"
  /\ rounds' = CASE prefix = "$y$" -> Clamp(SearchLong(CostKey(prefix), 5), 3, 11)
                 [] prefix \in {"$5$", "$6$"} -> ShaRounds(SearchLong(CostKey(prefix), 0))
                 [] prefix = "$2b$" -> Clamp(SearchLong(CostKey(prefix), 5), 4, 31)
                 [] OTHER -> 0
  /\ found' = SearchKey(CostKey(prefix))
  /\ at' = "salt"
  /\ UNCHANGED <<file, prefix, setting>>

(* The salt. Only the SHA and BCRYPT settings carry a cost: the factor for   *)
(* YESCRYPT is looked up and not used, 16 random characters follow the       *)
(* prefix at once (521-527).                                                 *)
MakeSetting ==
  /\ at = "salt"
  /\ setting' = [prefix |-> prefix,
                 cost |-> IF prefix \in {"$5$", "$6$"} THEN rounds
                          ELSE IF prefix = "$2b$" THEN (IF rounds = 0 THEN 12 ELSE rounds)
                          ELSE 0]
  /\ at' = "idle"
  /\ UNCHANGED <<file, prefix, rounds, found>>

(* /dev/urandom cannot be opened or read in full.                            *)
NoRandom ==
  /\ at = "salt"
  /\ at' = "idle"
  /\ UNCHANGED <<file, prefix, rounds, setting, found>>

HashNext ==
  \/ \E k \in 1..NoLines, l \in Lines : Rewrite(k, l)
  \/ ReadMethod \/ ReadRounds \/ MakeSetting \/ NoRandom

HashSpec == HashInit /\ [][HashNext]_hashVars

------------------------------------------------------------------------------
(* The costs crypt accepts, by method, 0 for a setting without any. A        *)
(* setting of yescrypt starts with its parameters: without them, what crypt  *)
(* finds in their place is the salt.                                         *)
Accepts(p, n) ==
  \/ p \in {"$5$", "$6$"} /\ (n = 0 \/ (1000 <= n /\ n <= 9999999))
  \/ p = "$2b$" /\ n \in 4..31
  \/ p = "$y$" /\ n \in 3..11
  \/ p = "$1$" /\ n = 0

(* Whatever the file holds, and however it changes between the two reads and *)
(* between the calls of one process, crypt gets a cost its method accepts,   *)
(* but for the method YESCRYPT, the one taken by default: its setting never  *)
(* has its parameters (521-527).                                             *)
ValidButForYescrypt ==
  setting # None => (Accepts(setting.prefix, setting.cost) <=> setting.prefix # "$y$")

(* A number in the range of the method whose setting has a cost is used as   *)
(* it stands, its ends included (463-486).                                   *)
CostIsUsed == setting # None /\ setting.prefix \in {"$5$", "$6$", "$2b$"} =>
  \A v \in found : v.long /\ v.number # 0 /\ Accepts(setting.prefix, v.number) => setting.cost = v.number
=============================================================================
