------------------------------- MODULE SysTimer -------------------------------
(***************************************************************************)
(* sys_timer: the table that gives each running timer of C a slot, whose   *)
(* address is its ident, and keeps the slot's ast procedure.  The C timer  *)
(* runs beside Pop; its expiry is an ast in the ring that carries only the *)
(* slot.  Every use of a slot must therefore be over, in C and in the      *)
(* ring, before the slot is used again.                                    *)
(***************************************************************************)
EXTENDS Naturals, Sequences, SequencesExt, FiniteSets

CONSTANTS
    Astp,           \* ast procedures that timers are set for
    N,              \* slots in _timertab, and entries in C
    Repeat,         \* the values of the TIMER_REPEAT flag in use
    Hasty,          \* does the program set timers before a check point has
                    \* emptied the ring of what repeating timers, since
                    \* cancelled, left there
    None,           \* a slot on the free chain; no ast
    Cancelled,      \* a slot that holds false
    MaxRing,        \* bound: expiries waiting in the ring (QLEN holds more)
    MaxDepth        \* bound: activations on the stack

ASSUME SysTimerAssumption ==
    /\ N \in Nat \ {0}
    /\ Repeat \subseteq BOOLEAN /\ Hasty \in BOOLEAN
    /\ None \notin Astp /\ Cancelled \notin Astp /\ None # Cancelled

Slot == 1 .. N

VARIABLES
    timertab,       \* what each slot holds
    timerflags,     \* has it the _TF_REPEAT bit
    chain,          \* the free slots, from _free_next
    running,        \* the entries of C: slot, repeating, and the owner that
                    \* set it
    ring,           \* AST_TIMER entries: slot, and the same owner
    stack           \* handlers, and calls of sys_timer that wait at the
                    \* check point of Get_tim

timervars == <<timertab, timerflags, chain, running, ring, stack>>

Entry == [slot : Slot, astp : Astp, repeat : BOOLEAN]

TimerInit ==
    /\ timertab = [t \in Slot |-> None]
    /\ timerflags = [t \in Slot |-> FALSE]
    /\ chain = [i \in Slot |-> i]
    /\ running = {}
    /\ ring = <<>>
    /\ stack = <<>>

-----------------------------------------------------------------------------
Handler(p) == [fn |-> "handler", astp |-> p]

(* A call that has cancelled slot t and will then set astp, unless None.   *)
Checking(t, p, r) == [fn |-> "Get_tim", slot |-> t, astp |-> p, repeat |-> r]

Top == Last(stack)

In(f) == stack # <<>> /\ Top.fn = f

UserCode == stack = <<>> \/ In("handler")

(* The tables with slot t put back on the free chain. *)
Freed(tab, t) == [tab EXCEPT ![t] = None]

(* A timer is set with these slots free. *)
SetsAt(free) ==
    Hasty \/ \A i \in DOMAIN ring : ring[i].repeat => ring[i].slot \notin ToSet(free)

(* The last part of sys_timer's updater, given the tables as Get_tim left  *)
(* them: a timer for p in the slot at the head of the chain; a mishap when *)
(* there is none there or none in C. *)
Set(tab, flags, free, run, p, r) ==
    IF p = None \/ free = <<>> \/ Cardinality(run) = N
    THEN /\ timertab' = tab /\ timerflags' = flags
         /\ chain' = free /\ running' = run
    ELSE LET t == Head(free)
         IN  /\ timertab' = [tab EXCEPT ![t] = p]
             /\ timerflags' = [flags EXCEPT ![t] = r]
             /\ chain' = Tail(free)
             /\ running' = run \cup {[slot |-> t, astp |-> p, repeat |-> r]}

(* What p's call asks for: to set a timer or, with None, only to cancel.   *)
Wants(p) == {None, p}

-----------------------------------------------------------------------------
(* C: an entry expires, and stays only if it repeats. *)
Expire(e) ==
    /\ e \in running
    /\ Len(ring) < MaxRing
    /\ ring' = Append(ring, e)
    /\ running' = IF e.repeat THEN running ELSE running \ {e}
    /\ UNCHANGED <<timertab, timerflags, chain, stack>>

-----------------------------------------------------------------------------
(* sys_timer for a procedure that has no timer. *)
SetNew(p, r) ==
    /\ UserCode
    /\ \A t \in Slot : timertab[t] # p
    /\ SetsAt(chain)
    /\ Set(timertab, timerflags, chain, running, p, r)
    /\ UNCHANGED <<ring, stack>>

(* ... for one whose entry is still in C: it is cancelled there and the    *)
(* slot freed. *)
CancelRunning(p, want, r) ==
    /\ UserCode
    /\ \E t \in Slot, e \in running :
          /\ timertab[t] = p
          /\ e.slot = t
          /\ want = None \/ SetsAt(<<t>> \o chain)
          /\ Set(Freed(timertab, t), [timerflags EXCEPT ![t] = FALSE],
                 <<t>> \o chain, running \ {e}, want, r)
    /\ UNCHANGED <<ring, stack>>

(* Bugs a maintainer could introduce, here and below: the slot of an       *)
(* expired timer freed at once.  (Shown for a call that     *)
(* sets no new timer.) *)
CancelExpiredAtOnce(p, want, r) ==
    /\ UserCode
    /\ want = None
    /\ \E t \in Slot :
          /\ timertab[t] = p
          /\ \A e \in running : e.slot # t
          /\ Set(Freed(timertab, t), [timerflags EXCEPT ![t] = FALSE],
                 <<t>> \o chain, running, want, r)
    /\ UNCHANGED <<ring, stack>>

(* ... for one that has expired, its trap not having been run yet: the     *)
(* slot holds false until the ring has been emptied. *)
CancelExpired(p, want, r) ==
    /\ UserCode
    /\ Len(stack) < MaxDepth
    /\ \E t \in Slot :
          /\ timertab[t] = p
          /\ \A e \in running : e.slot # t
          /\ timertab' = [timertab EXCEPT ![t] = Cancelled]
          /\ timerflags' = [timerflags EXCEPT ![t] = FALSE]
          /\ stack' = Append(stack, Checking(t, want, r))
    /\ UNCHANGED <<chain, running, ring>>

(* The slot freed whether or not the check point has freed it. *)
CheckedFreesAgain ==
    /\ In("Get_tim")
    /\ ring = <<>>
    /\ Set(Freed(timertab, Top.slot), timerflags, <<Top.slot>> \o chain,
           running, Top.astp, Top.repeat)
    /\ stack' = Front(stack)
    /\ UNCHANGED ring

(* The check point is behind it: the slot is freed if it still holds false. *)
Checked ==
    /\ In("Get_tim")
    /\ ring = <<>>
    /\ IF timertab[Top.slot] = Cancelled
       THEN Set(Freed(timertab, Top.slot), timerflags, <<Top.slot>> \o chain,
                running, Top.astp, Top.repeat)
       ELSE Set(timertab, timerflags, chain, running, Top.astp, Top.repeat)
    /\ stack' = Front(stack)
    /\ UNCHANGED ring

-----------------------------------------------------------------------------
(* Async_raise_signal at a check point: Get_timer_trap frees the slot of a *)
(* timer that does not repeat, and what it held, if an ast, is run. *)

TakeOfFree ==
    /\ ring # <<>>
    /\ timertab[Head(ring).slot] = None
    /\ ring' = Tail(ring)
    /\ UNCHANGED <<timertab, timerflags, chain, running, stack>>

TakeTrap ==
    /\ ring # <<>>
    /\ LET t == Head(ring).slot
           p == timertab[t]
       IN  /\ p # None
           /\ p # Cancelled => Len(stack) < MaxDepth
           /\ timertab' = IF timerflags[t] THEN timertab ELSE Freed(timertab, t)
           /\ chain' = IF timerflags[t] THEN chain ELSE <<t>> \o chain
           /\ stack' = IF p = Cancelled THEN stack ELSE Append(stack, Handler(p))
    /\ ring' = Tail(ring)
    /\ UNCHANGED <<timerflags, running>>

TrapReturn ==
    /\ In("handler")
    /\ stack' = Front(stack)
    /\ UNCHANGED <<timertab, timerflags, chain, running, ring>>

-----------------------------------------------------------------------------
TimerNext ==
    \/ \E e \in running : Expire(e)
    \/ \E p \in Astp, r \in Repeat :
          \/ SetNew(p, r)
          \/ \E want \in Wants(p) : CancelRunning(p, want, r) \/ CancelExpired(p, want, r)
    \/ Checked
    \/ TakeOfFree \/ TakeTrap \/ TrapReturn

TimerSpec == TimerInit /\ [][TimerNext]_timervars

-----------------------------------------------------------------------------
TimerTypeOK ==
    /\ timertab \in [Slot -> Astp \cup {None, Cancelled}]
    /\ timerflags \in [Slot -> BOOLEAN]
    /\ chain \in Seq(Slot) /\ Len(chain) <= N
    /\ running \subseteq Entry /\ Cardinality(running) <= N
    /\ ring \in Seq(Entry)
    /\ stack \in Seq([fn : {"handler"}, astp : Astp]
                       \cup [fn : {"Get_tim"}, slot : Slot,
                             astp : Astp \cup {None}, repeat : BOOLEAN])

(* The free chain holds every free slot, once: a slot put there twice      *)
(* would be given to two timers. *)
ChainSound ==
    /\ IsInjective(chain)
    /\ ToSet(chain) = {t \in Slot : timertab[t] = None}

(* A slot that is given to a timer has no other timer running in C.        *)
RunningOwnsSlot == \A e \in running : timertab[e.slot] = e.astp

(* An expiry in the ring runs the ast of the timer that expired, or        *)
(* nothing if that has been cancelled, never the ast of a timer that has   *)
(* got the slot since. *)
ExpiryOwnsSlot ==
    \A i \in DOMAIN ring :
        timertab[ring[i].slot] \in {ring[i].astp, None, Cancelled}

(* An ast in the table has a timer that will still run it, in C or in the  *)
(* ring: its slot is not lost. *)
SlotInUse ==
    \A t \in Slot :
        timertab[t] \in Astp =>
            \/ \E e \in running : e.slot = t
            \/ \E i \in DOMAIN ring : ring[i].slot = t

(* The table and its free chain agree: no slot is handed out twice and     *)
(* none is lost (Get_tim, Get_timer_trap).                                 *)
SlotsSound == TimerTypeOK /\ ChainSound /\ SlotInUse

(* A slot belongs to one timer at a time, in C and in the ring.            *)
OwnersSound == RunningOwnsSlot /\ ExpiryOwnsSlot
=============================================================================
