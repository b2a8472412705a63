--------------------------- MODULE MCOperatorEntry ---------------------------
(* Small instances of OperatorEntry, with the calls of its kernels, for TLC. *)
EXTENDS KernelFunctions

CONSTANTS t1, t2, t3, r1, r2, r3, cpu, undefined

Sym == Permutations({t1, t2, t3}) \cup Permutations({r1, r2})
=============================================================================
