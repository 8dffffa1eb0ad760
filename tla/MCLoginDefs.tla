---------------------------- MODULE MCLoginDefs ----------------------------
(* Values at both sides of every bound the code has.                         *)
EXTENDS LoginDefs

Line(key, value) == [key |-> key, hidden |-> FALSE, value |-> value]
Name(text) == [text |-> text, long |-> FALSE, number |-> 0]
Number(n) == [text |-> "", long |-> TRUE, number |-> n]

MCLines ==
  {Line("ENCRYPT_METHOD", Name(m)) : m \in {"YESCRYPT", "SHA512", "MD5", "BCRYPT", "DES"}}
  \cup {Line("SHA_CRYPT_MAX_ROUNDS", Number(n)) :
          n \in {-1, 999, 1000, 9999999, 10000000, INT_MAX - 1, INT_MAX}}
  \cup {Line("BCRYPT_MIN_ROUNDS", Number(n)) : n \in {3, 4, 31, 32}}
  \cup {Line("BCRYPT_MIN_ROUNDS", Name("12a"))}
  \cup {Line("YESCRYPT_COST_FACTOR", Number(2)), Line("YESCRYPT_COST_FACTOR", Number(12))}
  \cup {[Line("ENCRYPT_METHOD", Name("SHA256")) EXCEPT !.hidden = TRUE]}
=============================================================================
