--------------------------- MODULE KernelRegistry ---------------------------
(***************************************************************************)
(* What the dispatch table of one operator promises to the libraries that  *)
(* register kernels and to the threads that call the operator, with no     *)
(* word on how it is implemented.  A call works on the kernels that were   *)
(* the newest ones at the moment it entered, whatever is registered or     *)
(* withdrawn meanwhile, and a withdrawn registration is handed back to its *)
(* library only when no call can reach its code any more.  OperatorEntry   *)
(* is shown to implement this specification.                               *)
(***************************************************************************)
EXTENDS Naturals, Sequences, SequencesExt

CONSTANTS Threads,  \* threads that call the operator
          Slots,    \* the dispatch keys and the catch-all slot
          Regs,     \* kernel registrations
          None      \* no registration, no call

VARIABLES stacks,   \* registrations of each slot, the newest first
          live,     \* registrations whose code may still be run
          snap      \* what the call of each thread sees, None outside calls

absVars == <<stacks, live, snap>>

Top(stk) == IF stk = <<>> THEN None ELSE Head(stk)

Stacked(r) == \E s \in Slots : \E i \in 1..Len(stacks[s]) : stacks[s][i] = r

AbsInit ==
    /\ stacks = [s \in Slots |-> <<>>]
    /\ live = {}
    /\ snap = [t \in Threads |-> None]

\* A registration becomes the newest one of its slot.
Register(r, s) ==
    /\ r \notin live
    /\ stacks' = [stacks EXCEPT ![s] = Cons(r, @)]
    /\ live' = live \cup {r}
    /\ UNCHANGED snap

\* A registration is taken out, wherever it stands in its stack; running
\* calls keep what they saw.
Withdraw(r, s) ==
    /\ \E i \in 1..Len(stacks[s]) :
          /\ stacks[s][i] = r
          /\ stacks' = [stacks EXCEPT ![s] = RemoveAt(@, i)]
    /\ UNCHANGED <<live, snap>>

\* The library gets its registration back and may be unloaded.
Release(r) ==
    /\ r \in live
    /\ ~Stacked(r)
    /\ \A t \in Threads : snap[t] # None => \A s \in Slots : snap[t][s] # r
    /\ live' = live \ {r}
    /\ UNCHANGED <<stacks, snap>>

Enter(t) ==
    /\ snap[t] = None
    /\ snap' = [snap EXCEPT ![t] = [s \in Slots |-> Top(stacks[s])]]
    /\ UNCHANGED <<stacks, live>>

Leave(t) ==
    /\ snap[t] # None
    /\ snap' = [snap EXCEPT ![t] = None]
    /\ UNCHANGED <<stacks, live>>

AbsNext ==
    \/ \E r \in Regs, s \in Slots : Register(r, s) \/ Withdraw(r, s)
    \/ \E r \in Regs : Release(r)
    \/ \E t \in Threads : Enter(t) \/ Leave(t)

AbsSpec == AbsInit /\ [][AbsNext]_absVars
=============================================================================
