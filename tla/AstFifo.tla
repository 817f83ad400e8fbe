------------------------------- MODULE AstFifo -------------------------------
(***************************************************************************)
(* What the ring of c_core.c promises Pop: a first-in first-out queue of   *)
(* at most Cap asts that forgets its oldest ast when one more arrives, and *)
(* a flag that is raised by every arrival and lowered only by a removal    *)
(* that finds nothing.                                                     *)
(***************************************************************************)
EXTENDS Naturals, Sequences

CONSTANTS
    Cap,        \* asts the queue holds
    Ast

VARIABLES
    fifo,       \* the asts, oldest first
    announced

vars == <<fifo, announced>>

Init ==
    /\ fifo = <<>>
    /\ announced = FALSE

Arrive(a) ==
    /\ fifo' = Append(IF Len(fifo) = Cap THEN Tail(fifo) ELSE fifo, a)
    /\ announced' = TRUE

Take ==
    /\ fifo # <<>>
    /\ fifo' = Tail(fifo)
    /\ UNCHANGED announced

FindEmpty ==
    /\ fifo = <<>>
    /\ announced' = FALSE
    /\ UNCHANGED fifo

Next ==
    \/ \E a \in Ast : Arrive(a)
    \/ Take
    \/ FindEmpty

Spec == Init /\ [][Next]_vars
=============================================================================
