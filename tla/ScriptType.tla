------------------------------ MODULE ScriptType ------------------------------
(***************************************************************************)
(* ScriptTypeCache::compute_script_type (validation/script_cache.cpp): the *)
(* name of an output script.  A script is what the function looks at: its  *)
(* size, its first two bytes and its last one.                             *)
(***************************************************************************)
EXTENDS Integers

Byte == 0 .. 255
Script == [size : Nat, first : Byte, second : Byte, last : Byte]

OP_0 == 0
OP_1 == 81
OP_16 == 96
Starts(s, n, a, b) == s.size = n /\ s.first = a /\ s.second = b

\* The version of a witness program.  The caller has OP_1 as the highest first
\* byte it asks for, so that versions 2 to 16 are never named.
Version(s) ==
  IF s.first = OP_0 THEN 0
  ELSE IF s.first \in OP_1 .. OP_16 THEN s.first - 80 ELSE -1

\* No two of the templates fit one script; the rest is a witness program of
\* any size, or unknown.
TypeOf(s) ==
  CASE Starts(s, 22, OP_0, 20) -> <<"P2WPKH">>
    [] Starts(s, 34, OP_0, 32) -> <<"P2WSH">>
    [] Starts(s, 34, OP_1, 32) -> <<"P2TR">>
    [] Starts(s, 23, 169, 20) /\ s.last = 135 -> <<"p2sh">>
    [] Starts(s, 25, 118, 169) -> <<"p2pkh">>
    [] OTHER ->
         IF s.size >= 2 /\ s.first <= OP_1 /\ Version(s) >= 0
         THEN <<"witness", Version(s), s.size>>
         ELSE <<"unknown", s.size, s.first, s.second>>
=============================================================================
