------------------------------- MODULE AstRing -------------------------------
(***************************************************************************)
(* The ring of pending asynchronous traps (asts) kept by c_core.c between  *)
(* the C signal handlers, which add to it, and Pop's check points, which   *)
(* take from it.  Both operations run with every signal blocked, so each   *)
(* is one action.                                                          *)
(***************************************************************************)
EXTENDS Naturals, Sequences

CONSTANTS
    QLEN,       \* slots in the ring
    Ast,        \* the (type, data) pairs that can be added
    NoAst       \* what a slot holds before it is first written

ASSUME RingAssumption ==
    /\ QLEN \in Nat
    /\ QLEN >= 2
    /\ NoAst \notin Ast

VARIABLES
    astq,               \* the slots
    astq_add,           \* slot the next ast goes into
    astq_rem,           \* slot the oldest ast is in
    signals_pending     \* _pop_signals_pending, which Pop tests as _trap

ringvars == <<astq, astq_add, astq_rem, signals_pending>>

Slots == 0 .. QLEN - 1

(* A bug a maintainer could introduce: ++p without the wrap. *)
AdvanceNoWrap(p) == p + 1

(* ++p, wrapping at ASTQ_LIM. *)
Advance(p) == IF p = QLEN - 1 THEN 0 ELSE p + 1

RingInit ==
    /\ astq = [s \in Slots |-> NoAst]
    /\ astq_add = 0
    /\ astq_rem = 0
    /\ signals_pending = FALSE

-----------------------------------------------------------------------------
(* Bugs a maintainer could introduce, each of which some property catches. *)

(* An overflow that moves only the add pointer: the ring then looks empty. *)
PopAddAstNoOverflowCheck(a) ==
    /\ astq' = [astq EXCEPT ![astq_add] = a]
    /\ astq_add' = Advance(astq_add)
    /\ astq_rem' = astq_rem
    /\ signals_pending' = TRUE

-----------------------------------------------------------------------------
(* _pop_add_ast: a full ring loses its oldest ast. *)
PopAddAst(a) ==
    /\ astq' = [astq EXCEPT ![astq_add] = a]
    /\ astq_add' = Advance(astq_add)
    /\ astq_rem' = IF astq_add' = astq_rem THEN Advance(astq_rem) ELSE astq_rem
    /\ signals_pending' = TRUE

(* _pop_rem_ast, returning 1. *)
PopRemAst ==
    /\ astq_rem # astq_add
    /\ astq_rem' = Advance(astq_rem)
    /\ UNCHANGED <<astq, astq_add, signals_pending>>

(* _pop_rem_ast, returning 0. *)
PopRemEmpty ==
    /\ astq_rem = astq_add
    /\ signals_pending' = FALSE
    /\ UNCHANGED <<astq, astq_add, astq_rem>>

RingNext ==
    \/ \E a \in Ast : PopAddAst(a)
    \/ PopRemAst
    \/ PopRemEmpty

RingSpec == RingInit /\ [][RingNext]_ringvars

-----------------------------------------------------------------------------
(* The number of asts waiting, and the slot of the i-th oldest of them. *)
Count == IF astq_rem <= astq_add
         THEN astq_add - astq_rem
         ELSE astq_add - astq_rem + QLEN

SlotOf(i) == IF astq_rem + i - 1 < QLEN
             THEN astq_rem + i - 1
             ELSE astq_rem + i - 1 - QLEN

Waiting == [i \in 1 .. Count |-> astq[SlotOf(i)]]

(* The variables hold what the C declarations allow, and a waiting slot    *)
(* holds an ast that some handler put there.                               *)
RingTypeOK ==
    /\ astq \in [Slots -> Ast \cup {NoAst}]
    /\ astq_add \in Slots
    /\ astq_rem \in Slots
    /\ signals_pending \in BOOLEAN
    /\ \A i \in 1 .. Count : astq[SlotOf(i)] \in Ast

(* An ast in the ring is always announced: Pop looks at the ring only when *)
(* _trap is set, so a lowered flag over a non-empty ring would park it     *)
(* until some later signal.                                                *)
PendingAnnounced == (astq_rem # astq_add) => signals_pending

(* The ring implements the bounded queue that forgets its oldest entry:    *)
(* asts leave in the order the handlers added them, none twice, and only   *)
(* an arrival at a full ring loses one.                                    *)
Fifo == INSTANCE AstFifo WITH
            Cap <- QLEN - 1, fifo <- Waiting, announced <- signals_pending

ImplementsFifo == Fifo!Spec
=============================================================================
