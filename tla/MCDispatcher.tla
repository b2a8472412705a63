---------------------------- MODULE MCDispatcher ----------------------------
(* Small instances of Dispatcher for TLC. *)
EXTENDS Dispatcher

CONSTANTS libA, libB, libC, add, mul, s1, s2

Reg(n, s, k) == [name |-> n, schema |-> s, kernel |-> k]

\* Three libraries that share operators.  The second registers a kernel for
\* the undefined dispatch key, which is refused; the third disagrees with the
\* first about the schema of add.
SharedPlan ==
    (libA :> <<Reg(add, s1, "valid"), Reg(add, s1, "valid")>>) @@
    (libB :> <<Reg(add, s1, "valid"), Reg(mul, s1, "undefined")>>) @@
    (libC :> <<Reg(mul, s1, "valid"), Reg(add, s2, "none")>>)
=============================================================================
