-------------------------- MODULE MCDispatcherCalls --------------------------
(* Small instances of DispatcherCalls for TLC. *)
EXTENDS DispatcherCalls

CONSTANTS t1, t2, t3, r1, r2, f1, f2, cpu, undefined

Sym == Permutations({t1, t2, t3}) \cup Permutations({r1, r2}) \cup Permutations({f1, f2})
=============================================================================
