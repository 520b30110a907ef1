---------------------------- MODULE MCScriptCache ----------------------------
(***************************************************************************)
(* Instances of ScriptCache for TLC.                                       *)
(***************************************************************************)
EXTENDS ScriptCache, TLC

S(n, a, b, z) == [size |-> n, first |-> a, second |-> b, last |-> z]

\* Three scripts for a cache of two: taproot, pay to script hash, and a
\* witness program of version 2.
MCScripts == {S(34, 81, 32, 0), S(23, 169, 20, 135), S(34, 82, 32, 0)}

Symmetry == Permutations(Threads)
=============================================================================
