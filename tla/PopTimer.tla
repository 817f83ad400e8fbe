------------------------------- MODULE PopTimer -------------------------------
(***************************************************************************)
(* The timers of pop_timer.c: a queue of entries for each of the Unix      *)
(* interval timers (real and virtual time), one free list that the queues  *)
(* share, and the one `itv' from which every interval timer is set.        *)
(*                                                                         *)
(* pop_timer blocks the signal of its own timer only, and a handler runs   *)
(* with only its own signal blocked: the signal of the other timer may     *)
(* interrupt either.  `stack' holds the activations, innermost last.  An   *)
(* access to the free list and a setitimer are therefore two steps each;   *)
(* what touches one queue only is done in one.                             *)
(***************************************************************************)
EXTENDS Integers, Sequences, SequencesExt, FiniteSets

CONSTANTS
    Timer,          \* real_timer and virt_timer, or one of them
    Entry, NoEntry, \* timents
    Interval,       \* the times a program asks for, in clock intervals;
                    \* 0 expires at once
    Forks,          \* does the program fork (the model follows the child)
    MaxClock        \* bound: clocks stop here

ASSUME TimerAssumption ==
    /\ IsFiniteSet(Entry) /\ NoEntry \notin Entry
    /\ Interval \subseteq Nat /\ IsFiniteSet(Interval)
    /\ Forks \in BOOLEAN
    /\ MaxClock \in Nat \ {0}

VARIABLES
    clock,          \* the time on each timer's clock
    deadline,       \* when the kernel's timer will fire; 0: not set
    pending,        \* timers whose signal is pending
    itv,            \* it_value of the static itv
    queue,          \* T_QUEUE: entries, soonest first
    free,           \* the chain of free_timents
    when,           \* E_VAL
    interval,       \* E_INTERVAL; 0: not repeating
    stack           \* activations of pop_timer and timer_handler

vars == <<clock, deadline, pending, itv, queue, free, when, interval, stack>>

kernel  == <<clock, deadline, pending>>
entries == <<queue, free, when, interval>>

Init ==
    /\ clock = [t \in Timer |-> 1]
    /\ deadline = [t \in Timer |-> 0]
    /\ pending = {}
    /\ itv = 0
    /\ queue = [t \in Timer |-> <<>>]
    /\ free = SetToSeq(Entry)
    /\ when = [e \in Entry |-> 0]
    /\ interval = [e \in Entry |-> 0]
    /\ stack = <<>>

-----------------------------------------------------------------------------
(* Activations: the timer, where in the procedure, the entry it is about,  *)
(* the chain it has linked that entry to, and whether it will set the      *)
(* interval timer before it returns. *)
Act(fn, t, pc, e) ==
    [fn |-> fn, t |-> t, pc |-> pc, e |-> e, chain |-> <<>>, arms |-> TRUE]

Depth == Len(stack)
Top   == stack[Depth]
At(pc) == stack # <<>> /\ Top.pc = pc

Popped == Front(stack)
Goto(pc) == [stack EXCEPT ![Depth].pc = pc]

(* The signals that the activations block. *)
Masked == {stack[i].t : i \in DOMAIN stack}

(* The order of a queue: after every entry that is not later. *)
Insert(q, e, w) ==
    LET n == Cardinality({i \in DOMAIN q : when[q[i]] <= w})
    IN  InsertAt(q, n + 1, e)

(* A bug a maintainer could introduce: the timer set again only for a      *)
(* queue that was empty. *)
HeadChangedIfEmpty(old, new) == old = <<>> \/ new = <<>>

(* pop_timer's last test. *)
HeadChanged(old, new) ==
    IF old = <<>> \/ new = <<>> THEN old # new ELSE Head(old) # Head(new)

-----------------------------------------------------------------------------
(* The kernel. *)

(* A clock interval is long: none ends between reading the clock and       *)
(* setting the timer from it. *)
Tick(t) ==
    /\ clock[t] < MaxClock
    /\ \A i \in DOMAIN stack : stack[i].pc = "setitimer" => stack[i].t # t
    /\ clock' = [clock EXCEPT ![t] = @ + 1]
    /\ UNCHANGED <<deadline, pending, itv, entries, stack>>

(* At its bound the clock counts as past every deadline. *)
Fire(t) ==
    /\ deadline[t] # 0
    /\ deadline[t] <= clock[t] \/ clock[t] = MaxClock
    /\ deadline' = [deadline EXCEPT ![t] = 0]
    /\ pending' = pending \cup {t}
    /\ UNCHANGED <<clock, itv, entries, stack>>

Deliver(t) ==
    /\ t \in pending \ Masked
    /\ pending' = pending \ {t}
    /\ stack' = Append(stack, Act("timer_handler", t, "handling", NoEntry))
    /\ UNCHANGED <<clock, deadline, itv, entries>>

-----------------------------------------------------------------------------
(* next_timer, handling: the head is taken off its queue if it has expired. *)

(* A bug: the head taken for expired because a signal came. *)
ExpiredBySignal(t) == queue[t] # <<>>

Expired(t) == queue[t] # <<>> /\ when[Head(queue[t])] <= clock[t]

(* A bug: a repeating entry put back and freed as well. *)
HandleRepeatingFrees ==
    /\ At("handling") /\ Expired(Top.t)
    /\ LET e == Head(queue[Top.t])
           w == when[e] + interval[e]
       IN  /\ interval[e] # 0
           /\ when' = [when EXCEPT ![e] = w]
           /\ queue' = [queue EXCEPT ![Top.t] = Insert(Tail(@), e, w)]
           /\ stack' = [stack EXCEPT ![Depth].pc = "link", ![Depth].e = e,
                                     ![Depth].chain = free]
    /\ UNCHANGED <<kernel, itv, free, interval>>

(* A bug: its time not moved on. *)
HandleRepeatingStays ==
    /\ At("handling") /\ Expired(Top.t)
    /\ LET e == Head(queue[Top.t])
       IN  /\ interval[e] # 0
           /\ stack' = [stack EXCEPT ![Depth].pc = "arm", ![Depth].e = e]
    /\ UNCHANGED <<kernel, itv, entries>>

HandleRepeating ==
    /\ At("handling") /\ Expired(Top.t)
    /\ LET e == Head(queue[Top.t])
           w == when[e] + interval[e]
       IN  /\ interval[e] # 0
           /\ when' = [when EXCEPT ![e] = w]
           /\ queue' = [queue EXCEPT ![Top.t] = Insert(Tail(@), e, w)]
           /\ stack' = [stack EXCEPT ![Depth].pc = "arm", ![Depth].e = e]
    /\ UNCHANGED <<kernel, itv, free, interval>>

HandleOnce ==
    /\ At("handling") /\ Expired(Top.t)
    /\ LET e == Head(queue[Top.t])
       IN  /\ interval[e] = 0
           /\ queue' = [queue EXCEPT ![Top.t] = Tail(@)]
           /\ stack' = [stack EXCEPT ![Depth].pc = "link", ![Depth].e = e,
                                     ![Depth].chain = free]
    /\ UNCHANGED <<kernel, itv, free, when, interval>>

HandleNothing ==
    /\ At("handling") /\ ~Expired(Top.t)
    /\ stack' = Goto("arm")
    /\ UNCHANGED <<kernel, itv, entries>>

(* free_timents = e, e->E_NEXT having been set before. *)
LinkFree ==
    /\ At("link")
    /\ free' = <<Top.e>> \o Top.chain
    /\ stack' = Goto("arm")
    /\ UNCHANGED <<kernel, itv, queue, when, interval>>

-----------------------------------------------------------------------------
(* next_timer, not handling: an expired head raises the signal, and itv is *)
(* filled in, from which the timer is then set. *)

(* A bug: the expired head not announced. *)
ArmSilently ==
    /\ At("arm")
    /\ itv' = IF queue[Top.t] = <<>> \/ Expired(Top.t)
              THEN 0 ELSE when[Head(queue[Top.t])] - clock[Top.t]
    /\ stack' = Goto("setitimer")
    /\ UNCHANGED <<kernel, entries>>

Arm ==
    /\ At("arm")
    /\ itv' = IF queue[Top.t] = <<>> \/ Expired(Top.t)
              THEN 0 ELSE when[Head(queue[Top.t])] - clock[Top.t]
    /\ pending' = IF Expired(Top.t) THEN pending \cup {Top.t} ELSE pending
    /\ stack' = Goto("setitimer")
    /\ UNCHANGED <<clock, deadline, entries>>

(* setitimer, and the return.  (timer_handler goes on to run E_HANDLER.)   *)
SetItimer ==
    /\ At("setitimer")
    /\ deadline' = [deadline EXCEPT ![Top.t] = IF itv = 0 THEN 0 ELSE clock[Top.t] + itv]
    /\ stack' = Popped
    /\ UNCHANGED <<clock, pending, itv, entries>>

-----------------------------------------------------------------------------
(* pop_timer, called by the program, never by a handler. *)

CallSet(t) ==
    /\ stack = <<>>
    /\ t \notin pending
    /\ free # <<>>
    /\ stack' = <<Act("pop_timer", t, "take", Head(free))>>
    /\ UNCHANGED <<kernel, itv, entries>>

(* free_timents = nxt->E_NEXT, and the entry put in its place. *)
Take(i, repeat) ==
    /\ At("take")
    /\ i = 0 => ~repeat
    /\ LET nxt == Top.e
           w   == IF i = 0 THEN 0 ELSE clock[Top.t] + i
           q   == Insert(queue[Top.t], nxt, w)
       IN  /\ free' = SubSeq(free, (CHOOSE k \in DOMAIN free : free[k] = nxt) + 1, Len(free))
           /\ when' = [when EXCEPT ![nxt] = w]
           /\ interval' = [interval EXCEPT ![nxt] = IF repeat THEN i ELSE 0]
           /\ queue' = [queue EXCEPT ![Top.t] = q]
           /\ stack' = IF HeadChanged(queue[Top.t], q) THEN Goto("arm") ELSE Popped
    /\ UNCHANGED <<kernel, itv>>

(* The entry found and taken off its queue. *)
Unlinked(q, e) == RemoveAt(q, CHOOSE i \in DOMAIN q : q[i] = e)

CallCancel(t, e) ==
    /\ stack = <<>>
    /\ t \notin pending
    /\ e \in ToSet(queue[t])
    /\ queue' = [queue EXCEPT ![t] = Unlinked(@, e)]
    /\ stack' = <<[Act("pop_timer", t, "unlink", e) EXCEPT
                       !.chain = free, !.arms = HeadChanged(queue[t], queue'[t])]>>
    /\ UNCHANGED <<kernel, itv, free, when, interval>>

(* free_timents = e, and the interval timer if e was the head. *)
Unlink ==
    /\ At("unlink")
    /\ free' = <<Top.e>> \o Top.chain
    /\ stack' = IF Top.arms THEN Goto("arm") ELSE Popped
    /\ UNCHANGED <<kernel, itv, queue, when, interval>>

(* pop_fork's child, which signals and interval timers do not follow, and  *)
(* which cancels all timers. *)
ForkChild ==
    /\ Forks
    /\ stack = <<>>
    /\ deadline' = [t \in Timer |-> 0]
    /\ pending' = {}
    /\ itv' = IF \E t \in Timer : queue[t] # <<>> THEN 0 ELSE itv
    /\ queue' = [t \in Timer |-> <<>>]
    /\ UNCHANGED <<clock, free, when, interval, stack>>

-----------------------------------------------------------------------------
Kernel == \E t \in Timer : Tick(t) \/ Fire(t) \/ Deliver(t)

Step ==
    \/ HandleRepeating \/ HandleOnce \/ HandleNothing \/ LinkFree
    \/ Arm \/ SetItimer
    \/ \E i \in Interval, repeat \in BOOLEAN : Take(i, repeat)
    \/ Unlink

Program ==
    \/ \E t \in Timer : CallSet(t) \/ \E e \in Entry : CallCancel(t, e)
    \/ ForkChild

Next == Kernel \/ Step \/ Program

(* Time passes and the kernel delivers its signals whatever the program    *)
(* does, and procedures run on.  Time stands still in the model only while *)
(* a timer is being set, so not for ever: the fairness is strong. *)
Fairness ==
    /\ \A t \in Timer : SF_vars(Tick(t)) /\ SF_vars(Fire(t)) /\ SF_vars(Deliver(t))
    /\ WF_vars(Step)

Spec == Init /\ [][Next]_vars
FairSpec == Spec /\ Fairness

-----------------------------------------------------------------------------
Activation ==
    [fn : {"pop_timer", "timer_handler"}, t : Timer,
     pc : {"handling", "link", "take", "unlink", "arm", "setitimer"},
     e : Entry \cup {NoEntry}, chain : Seq(Entry), arms : BOOLEAN]

Times == 0 .. MaxClock + Max(Interval \cup {0})

TypeOK ==
    /\ clock \in [Timer -> 1 .. MaxClock]
    /\ deadline \in [Timer -> Times]
    /\ pending \subseteq Timer
    /\ itv \in Times
    /\ queue \in [Timer -> Seq(Entry)]
    /\ free \in Seq(Entry)
    /\ when \in [Entry -> Times]
    /\ interval \in [Entry -> Interval \cup {0}]
    /\ stack \in Seq(Activation)

Queued == UNION {ToSet(queue[t]) : t \in Timer}

(* An entry is never on two lists, nor twice on one: neither a timer that  *)
(* is running nor the free list can be overwritten through an entry that   *)
(* was handed out twice. *)
Exclusive ==
    /\ IsInjective(free) /\ \A t \in Timer : IsInjective(queue[t])
    /\ ToSet(free) \cap Queued = {}
    /\ \A t, u \in Timer : t # u => ToSet(queue[t]) \cap ToSet(queue[u]) = {}

(* A queue is in the order in which its entries expire, through settings,  *)
(* cancellations and repeats that find themselves overtaken: the interval  *)
(* timer is only ever set for the head. *)
SoonestFirst ==
    \A t \in Timer : \A i, j \in DOMAIN queue[t] :
        i < j => when[queue[t][i]] <= when[queue[t][j]]

(* A trap is not raised before its time, whatever cancellations have come  *)
(* between the signal and its handler. *)
NeverEarly ==
    \A i \in DOMAIN stack :
        LET a == stack[i]
        IN  a.fn = "timer_handler" /\ a.e # NoEntry
                => when[a.e] - interval[a.e] <= clock[a.t]

(* Between calls, a queue that is not empty has its signal pending or its  *)
(* interval timer set for when its head expires: otherwise its timers      *)
(* would expire late, or never. *)
WaitingIsArmed ==
    \A t \in Timer \ Masked :
        queue[t] # <<>> => t \in pending \/ deadline[t] = when[Head(queue[t])]

(* Between calls, an entry that is on no queue is on the free list.        *)
NoEntryLost == stack = <<>> => Entry = ToSet(free) \cup Queued

(* A timer whose time has come is acted on in the end, unless it is        *)
(* cancelled: its trap is raised, and if it repeats it is put on to a time *)
(* that is still to come. *)
Expires ==
    \A t \in Timer, e \in Entry :
        LET Late == e \in ToSet(queue[t]) /\ when[e] <= clock[t]
        IN  Late ~> ~Late

(* The queue of a timer: in order, its head armed, and with the free list  *)
(* all entries there are (next_timer, pop_timer).                          *)
QueueSound == SoonestFirst /\ WaitingIsArmed /\ NoEntryLost

(* The entries, for two timers that interrupt each other's calls: no entry *)
(* is handed out twice (BLOCK_SIG in pop_timer and next_timer).            *)
EntriesSound == TypeOK /\ Exclusive
=============================================================================
