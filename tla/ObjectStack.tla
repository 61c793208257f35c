----------------------------- MODULE ObjectStack -----------------------------
(***************************************************************************)
(* What LockFreePool promises: objects given back are kept in a stack, each *)
(* once, and come out last in, first out.  Giving an object back, taking   *)
(* one and dropping the pool with all it holds are atomic.                 *)
(***************************************************************************)
EXTENDS Sequences

VARIABLES
  stack,  \* the pooled objects, the next one to come out first
  away    \* the objects that are not in the pool

Init == stack = <<>>

Push ==
  \E i \in away :
    /\ stack' = <<i>> \o stack
    /\ away' = away \ {i}

Pop ==
  /\ stack # <<>>
  /\ stack' = Tail(stack)
  /\ away' = away \cup {Head(stack)}

Drop ==
  /\ stack' = <<>>
  /\ UNCHANGED away

Next == Push \/ Pop \/ Drop

Spec == Init /\ [][Next]_<<stack, away>>

=============================================================================
