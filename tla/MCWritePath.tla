---------------------------- MODULE MCWritePath ----------------------------
(***************************************************************************)
(* WritePath instantiated for TLC: one or two instances (n1 with worker w1  *)
(* and handler h1, n2 with w2), turns a and b, tool steps s and r.           *)
(* Steps s and r are two calls of one tool with one outcome, so they share  *)
(* their key; redaction changes turn b, so that it is stored under another  *)
(* key than intent.key.                                                     *)
(***************************************************************************)
EXTENDS WritePath

CONSTANTS n1, n2, w1, w2, h1, a, b, s, r

MCHome == [t \in Workers \cup Handlers |-> IF t \in {w1, h1} THEN n1 ELSE n2]
MCKeys == {"ka", "kb", "ks", "kb-redacted"}
MCFailKey == [i \in Intents |-> IF i = a THEN "ka" ELSE IF i = b THEN "kb" ELSE "ks"]
MCStoredKey == [i \in Intents |-> IF i = b THEN "kb-redacted" ELSE MCFailKey[i]]
============================================================================
