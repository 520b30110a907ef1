-------------------------- MODULE MCParallelConfig --------------------------
(***************************************************************************)
(* Instances of ParallelConfig for TLC.                                    *)
(***************************************************************************)
EXTENDS ParallelConfig

\* The last value in range and the first one out of it; one that narrows to
\* 0, and one that narrows to -64 (modulo 256).
MCThreadArgs == {64, 65, 256, 448}
=============================================================================
