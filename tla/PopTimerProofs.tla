--------------------------- MODULE PopTimerProofs ----------------------------
(***************************************************************************)
(* Proofs about the interval timers of PopTimer: for any number of timers, *)
(* entries and interruptions by signals, an entry is in one place at a     *)
(* time and no handler runs too early; the queues are in order; and with   *)
(* one timer, and no fork in the midst of a call, no entry is lost and     *)
(* what is waiting is armed. With two timers (PopTimerTwo.cfg) or with     *)
(* forks (PopTimerFork.cfg) that last is false.                            *)
(***************************************************************************)
EXTENDS PopTimer, SequenceLemmas

(* Whether an activation has an entry in hand, and the chain it will link    *)
(* that entry to.                                                            *)
Holding(a) == a.pc \in {"link", "unlink"}

(* The longest interval that is ever asked for. *)
Longest == Max(Interval \cup {0})

(* The points at which a call may be interrupted. *)
Pcs == {"handling", "link", "take", "unlink", "arm", "setitimer"}

(* One activation, at position i of the stack. *)
ActSound(a, i) ==
    /\ a.fn = "pop_timer" => i = 1
    /\ a.pc \in {"take", "unlink"} => a.fn = "pop_timer"
    /\ a.pc \in {"handling", "link"} => a.fn = "timer_handler"
    /\ a.pc = "handling" => a.e = NoEntry
    /\ a.pc = "take" => a.e \in ToSet(free)
    /\ Holding(a) =>
         /\ a.e \in Entry /\ a.e \notin ToSet(free)
         /\ \A t \in Timer : a.e \notin ToSet(queue[t])
         /\ IsInjective(a.chain) /\ ToSet(a.chain) \subseteq ToSet(free)
    /\ a.fn = "timer_handler" /\ a.e # NoEntry =>
         /\ when[a.e] - interval[a.e] <= clock[a.t]
         /\ \A t \in Timer \ {a.t} : a.e \notin ToSet(queue[t])

(* An activation b that has interrupted a. *)
PairSound(a, b) ==
    /\ a.t # b.t
    /\ Holding(a) /\ Holding(b) => a.e # b.e /\ ToSet(a.chain) \subseteq ToSet(b.chain)
    /\ a.pc = "take" /\ Holding(b) => a.e \in ToSet(b.chain)

StackSound ==
    /\ \A i \in 1 .. Len(stack) : ActSound(stack[i], i)
    /\ \A i, j \in 1 .. Len(stack) : i < j => PairSound(stack[i], stack[j])

(* Nothing is ever set for later than the longest interval from now. *)
Near ==
    /\ itv \in 0 .. Longest
    /\ \A t \in Timer :
         /\ deadline[t] <= clock[t] + Longest
         /\ \A e \in ToSet(queue[t]) : when[e] <= clock[t] + Longest

(* The inductive invariant, for any number of timers. *)
IInv == TypeOK /\ Exclusive /\ StackSound /\ Near

(* With one timer. *)
OneTimer == \A t, u \in Timer : t = u

(* Nothing is lost: every entry is free, on a queue, or in the hands of    *)
(* the one call that is under way.                                         *)
Lists ==
    /\ Len(stack) <= 1
    /\ \A x \in Entry :
         \/ x \in ToSet(free)
         \/ \E t \in Timer : x \in ToSet(queue[t])
         \/ stack # <<>> /\ Holding(Top) /\ Top.e = x
    /\ stack # <<>> /\ Holding(Top) => Top.chain = free
    /\ At("take") => free # <<>> /\ Top.e = Head(free)

(* What is first on a queue is what the timer has been set for, unless its *)
(* signal is pending.                                                      *)
Armed(t) == queue[t] # <<>> => t \in pending \/ deadline[t] = when[Head(queue[t])]

(* No call is between a change of a queue and the setting of the timer. *)
Undisturbed == stack = <<>> \/ At("take") \/ (At("unlink") /\ ~Top.arms)

(* A queue is in the order of the times v. *)
Sorted(q, v) == \A i, j \in DOMAIN q : i < j => v[q[i]] <= v[q[j]]

(* Whatever waits is armed, or about to be. *)
Arming ==
    /\ Undisturbed => \A t \in Timer : Armed(t)
    /\ At("setitimer") => \A t \in Timer :
         queue[t] # <<>> =>
             t \in pending \/ (itv # 0 /\ clock[t] + itv = when[Head(queue[t])])

-----------------------------------------------------------------------------

(* The bound on intervals is the largest of them. *)
LEMMA LongestType ==
    /\ Longest \in Nat
    /\ \A i \in Interval \cup {0} : i \in Nat /\ i <= Longest
    /\ Times = 0 .. MaxClock + Longest
<1> DEFINE I == Interval \cup {0}
<1>1. I \subseteq Nat /\ I # {} /\ IsFiniteSet(I)
  BY TimerAssumption, FS_AddElement
<1> HIDE DEF I
<1>2. \E m \in I : \A i \in I : i <= m
  BY <1>1, NatGreatest
<1>a. \E m \in I : \A i \in I : m >= i
  BY <1>1, <1>2
<1>3. Longest \in I /\ \A i \in I : Longest >= i
  BY <1>a DEF Longest, Max, I
<1>4. Times = 0 .. MaxClock + Longest
  BY DEF Times, Longest
<1> QED BY <1>1, <1>3, <1>4 DEF I

(* The types of the fields of an entry. *)
LEMMA EntryTypes ==
    ASSUME TypeOK, NEW e \in Entry
    PROVE  /\ when[e] \in Nat /\ when[e] <= MaxClock + Longest
           /\ interval[e] \in Nat /\ interval[e] <= Longest
           /\ MaxClock \in Nat /\ Longest \in Nat
<1>1. when[e] \in Times /\ interval[e] \in Interval \cup {0}
  BY DEF TypeOK
<1>2. interval[e] \in Nat /\ interval[e] <= Longest /\ Longest \in Nat
  BY <1>1, LongestType
<1>3. when[e] \in 0 .. MaxClock + Longest /\ MaxClock \in Nat
  BY <1>1, LongestType, TimerAssumption
<1> QED BY <1>2, <1>3

(* A new activation is one. *)
LEMMA ActType ==
    ASSUME NEW fn \in {"pop_timer", "timer_handler"}, NEW t \in Timer, NEW pc \in Pcs,
           NEW e \in Entry \cup {NoEntry}
    PROVE  Act(fn, t, pc, e) \in Activation
<1> <<>> \in Seq(Entry) /\ TRUE \in BOOLEAN
  OBVIOUS
<1> QED BY DEF Act, Activation, Pcs

(* The place where an entry is inserted is one of its queue, or the end. *)
LEMMA InsertPlace ==
    ASSUME NEW q \in Seq(Entry), NEW w \in Nat
    PROVE  /\ Cardinality({i \in DOMAIN q : when[q[i]] <= w}) + 1 \in 1 .. Len(q) + 1
           /\ Len(q) \in Nat /\ DOMAIN q = 1 .. Len(q)
<1> DEFINE T == {i \in DOMAIN q : when[q[i]] <= w}
<1>1. Len(q) \in Nat /\ DOMAIN q = 1 .. Len(q)
  BY LenProperties
<1>2. IsFiniteSet(1 .. Len(q)) /\ Cardinality(1 .. Len(q)) = Len(q)
  BY <1>1, FS_Interval
<1>3. T \subseteq 1 .. Len(q)
  BY <1>1
<1> HIDE DEF T
<1>4. Cardinality(T) \in Nat /\ Cardinality(T) <= Len(q)
  BY <1>2, <1>3, FS_Subset, FS_CardinalityType
<1> QED BY <1>1, <1>4 DEF T

(* Inserting adds the entry, once. *)
LEMMA InsertSound ==
    ASSUME NEW q \in Seq(Entry), NEW e \in Entry, NEW w \in Nat
    PROVE  /\ Insert(q, e, w) \in Seq(Entry) /\ Insert(q, e, w) # <<>>
           /\ ToSet(Insert(q, e, w)) = ToSet(q) \cup {e}
           /\ IsInjective(q) /\ e \notin ToSet(q) => IsInjective(Insert(q, e, w))
<1> DEFINE n == Cardinality({i \in DOMAIN q : when[q[i]] <= w})
           r == InsertAt(q, n + 1, e)
<1>1. n + 1 \in 1 .. Len(q) + 1 /\ Len(q) \in Nat
  BY InsertPlace
<1>2. Insert(q, e, w) = r
  BY DEF Insert
<1> HIDE DEF n
<1>3. r \in Seq(Entry) /\ Len(r) = Len(q) + 1
  BY <1>1, InsertAtProperties
<1>4. /\ ToSet(r) = ToSet(q) \cup {e}
      /\ IsInjective(q) /\ e \notin ToSet(q) => IsInjective(r)
  BY <1>1, InsertAtDistinct
<1> HIDE DEF r
<1>5. r # <<>>
  BY <1>1, <1>3
<1> QED BY <1>2, <1>3, <1>4, <1>5

(* Inserting keeps a queue in order. *)
LEMMA InsertSorted ==
    ASSUME NEW q \in Seq(Entry), NEW e \in Entry, NEW w \in Nat, NEW v, v[e] = w,
           when \in [Entry -> Nat], Sorted(q, when),
           \A i \in 1 .. Len(q) : v[q[i]] = when[q[i]]
    PROVE  Sorted(Insert(q, e, w), v)
<1> DEFINE T == {i \in DOMAIN q : when[q[i]] <= w}
           n == Cardinality(T)
           r == InsertAt(q, n + 1, e)
<1>1. n + 1 \in 1 .. Len(q) + 1 /\ Len(q) \in Nat /\ DOMAIN q = 1 .. Len(q)
  BY InsertPlace
<1>2. \A i \in 1 .. Len(q) : q[i] \in Entry /\ when[q[i]] \in Nat
  BY ElementOfSeq
<1>3. \A i, j \in 1 .. Len(q) : i < j => when[q[i]] <= when[q[j]]
  BY <1>1 DEF Sorted
<1>4. T \subseteq 1 .. Len(q) /\ \A i \in T : \A j \in 1 .. Len(q) : j < i => j \in T
  <2>1. ASSUME NEW i \in T, NEW j \in 1 .. Len(q), j < i
        PROVE  j \in T
    <3>1. i \in 1 .. Len(q) /\ when[q[i]] <= w /\ when[q[j]] <= when[q[i]]
      BY <1>1, <1>3, <2>1
    <3>2. when[q[i]] \in Nat /\ when[q[j]] \in Nat
      BY <1>2, <3>1
    <3>3. when[q[j]] <= w
      BY <3>1, <3>2
    <3> QED BY <1>1, <3>3
  <2> QED BY <1>1, <2>1
<1> HIDE DEF T
<1>5. T = 1 .. n /\ n \in 0 .. Len(q)
  BY <1>1, <1>4, DownClosed
<1>6. \A i \in 1 .. Len(q) : i <= n <=> when[q[i]] <= w
  BY <1>1, <1>5 DEF T
<1>7. Insert(q, e, w) = r
  BY DEF Insert, T
<1> HIDE DEF n
<1>8. /\ r \in Seq(Entry) /\ Len(r) = Len(q) + 1
      /\ \A i \in 1 .. Len(q) + 1 : r[i] = IF i < n + 1 THEN q[i] ELSE IF i = n + 1 THEN e ELSE q[i - 1]
  <2> DEFINE k == n + 1
  <2>1. k \in 1 .. Len(q) + 1
    BY <1>1
  <2> HIDE DEF k
  <2>2. /\ InsertAt(q, k, e) \in Seq(Entry) /\ Len(InsertAt(q, k, e)) = Len(q) + 1
        /\ \A i \in 1 .. Len(q) + 1 :
             InsertAt(q, k, e)[i] = IF i < k THEN q[i] ELSE IF i = k THEN e ELSE q[i - 1]
    BY <2>1, InsertAtProperties
  <2> QED BY <2>2 DEF k
<1> HIDE DEF r
<1>9. ASSUME NEW i \in 1 .. Len(q) + 1, NEW j \in 1 .. Len(q) + 1, i < j
      PROVE  v[r[i]] <= v[r[j]]
  <2>1. CASE j < n + 1
    <3>1. r[i] = q[i] /\ r[j] = q[j] /\ i \in 1 .. Len(q) /\ j \in 1 .. Len(q)
      BY <1>1, <1>8, <1>9, <2>1
    <3> QED BY <1>3, <1>9, <3>1
  <2>2. CASE j = n + 1
    <3>1. r[i] = q[i] /\ r[j] = e /\ i \in 1 .. Len(q) /\ i <= n
      BY <1>1, <1>5, <1>8, <1>9, <2>2
    <3> QED BY <1>6, <3>1
  <2>3. CASE j > n + 1
    <3>1. r[j] = q[j - 1] /\ j - 1 \in 1 .. Len(q) /\ ~(j - 1 <= n)
      BY <1>1, <1>5, <1>8, <2>3
    <3>2. ~(when[q[j - 1]] <= w) /\ when[q[j - 1]] \in Nat
      BY <1>2, <1>6, <3>1
    <3>3. CASE i = n + 1
      <4>1. r[i] = e
        BY <1>8, <3>3
      <4> QED BY <3>1, <3>2, <4>1
    <3>4. CASE i < n + 1
      <4>1. i \in 1 .. Len(q) /\ i < j - 1
        BY <1>1, <2>3, <3>4
      <4>2. r[i] = q[i]
        BY <1>8, <3>4
      <4> QED BY <1>3, <3>1, <4>1, <4>2
    <3>5. CASE i > n + 1
      <4>1. i - 1 \in 1 .. Len(q) /\ i - 1 < j - 1
        BY <1>1, <1>9, <3>5
      <4>2. ~(i < n + 1) /\ i # n + 1
        BY <1>1, <3>5
      <4>3. r[i] = q[i - 1]
        BY <1>8, <4>2
      <4> QED BY <1>3, <3>1, <4>1, <4>3
    <3> QED BY <1>1, <3>3, <3>4, <3>5
  <2> QED BY <1>1, <2>1, <2>2, <2>3
<1>10. DOMAIN r = 1 .. Len(q) + 1
  BY <1>8, LenProperties
<1> QED BY <1>7, <1>9, <1>10 DEF Sorted

-----------------------------------------------------------------------------
(* The stack. *)

(* The top of the stack is an activation. *)
LEMMA TopType ==
    ASSUME stack \in Seq(Activation), stack # <<>>
    PROVE  Depth \in 1 .. Len(stack) /\ Len(stack) \in Nat /\ Top \in Activation
<1>1. Len(stack) \in Nat /\ Len(stack) # 0
  BY LenProperties, EmptySeq
<1> QED BY <1>1, ElementOfSeq DEF Depth, Top

(* Replacing the top of the stack. *)
LEMMA ReplacedShape ==
    ASSUME stack \in Seq(Activation), stack # <<>>, NEW a \in Activation,
           stack' = [stack EXCEPT ![Depth] = a]
    PROVE  /\ stack' \in Seq(Activation) /\ Len(stack') = Len(stack) /\ stack' # <<>>
           /\ stack'[Len(stack)] = a
           /\ \A i \in 1 .. Len(stack) - 1 : stack'[i] = stack[i]
<1>1. Len(stack) \in Nat /\ Depth \in 1 .. Len(stack) /\ Depth = Len(stack)
  BY TopType DEF Depth
<1>2. stack' \in Seq(Activation) /\ Len(stack') = Len(stack)
  BY <1>1, ExceptSeq
<1>3. DOMAIN stack = 1 .. Len(stack)
  BY LenProperties
<1> QED BY <1>1, <1>2, <1>3

(* Popping the stack. *)
LEMMA PoppedShape ==
    ASSUME stack \in Seq(Activation), stack # <<>>, stack' = Popped
    PROVE  /\ stack' \in Seq(Activation) /\ Len(stack') = Len(stack) - 1
           /\ \A i \in 1 .. Len(stack) - 1 : stack'[i] = stack[i]
<1>1. Len(stack) \in Nat /\ Len(stack) # 0
  BY LenProperties, EmptySeq
<1>2. \A i \in 1 .. Len(stack) - 1 : stack[i] \in Activation
  BY <1>1, ElementOfSeq
<1>3. /\ SubSeq(stack, 1, Len(stack) - 1) \in Seq(Activation)
      /\ Len(SubSeq(stack, 1, Len(stack) - 1)) = Len(stack) - 1
      /\ \A i \in 1 .. Len(stack) - 1 : SubSeq(stack, 1, Len(stack) - 1)[i] = stack[i]
  <2> DEFINE n == Len(stack) - 1
  <2>1. n \in Nat /\ n <= Len(stack) /\ \A i \in 1 .. n : i \in 1 .. Len(stack)
    BY <1>1
  <2> HIDE DEF n
  <2>2. /\ SubSeq(stack, 1, n) \in Seq(Activation) /\ Len(SubSeq(stack, 1, n)) = n
        /\ \A i \in 1 .. n : SubSeq(stack, 1, n)[i] = stack[i]
    BY <2>1
  <2> QED BY <2>2 DEF n
<1> QED BY <1>3 DEF Popped, Front

(* Pushing onto the stack. *)
LEMMA PushedShape ==
    ASSUME stack \in Seq(Activation), NEW a \in Activation, stack' = Append(stack, a)
    PROVE  /\ stack' \in Seq(Activation) /\ Len(stack') = Len(stack) + 1
           /\ stack'[Len(stack) + 1] = a
           /\ \A i \in 1 .. Len(stack) : stack'[i] = stack[i]
BY AppendProperties

(* Replacing the top keeps the stack sound if the new top is sound and     *)
(* agrees with what it has interrupted.                                    *)
LEMMA ReplacedSound ==
    ASSUME stack \in Seq(Activation), StackSound, stack # <<>>, NEW a \in Activation,
           stack' = [stack EXCEPT ![Depth] = a],
           a.t = Top.t,
           NEW n, n = Depth, ActSound(a, n)',
           \A b \in Activation : \A i \in 1 .. Len(stack) - 1 :
              b = stack[i] /\ ActSound(b, i) => ActSound(b, i)',
           Holding(a) => \A i \in 1 .. Len(stack) - 1 :
              /\ Holding(stack[i]) => stack[i].e # a.e /\ ToSet(stack[i].chain) \subseteq ToSet(a.chain)
              /\ stack[i].pc = "take" => stack[i].e \in ToSet(a.chain)
    PROVE  StackSound' /\ stack' \in Seq(Activation)
<1>1. /\ stack' \in Seq(Activation) /\ Len(stack') = Len(stack)
      /\ stack'[Len(stack)] = a /\ Len(stack) \in Nat /\ Len(stack) # 0
      /\ \A i \in 1 .. Len(stack) - 1 : stack'[i] = stack[i] /\ stack[i] \in Activation
  BY ReplacedShape, TopType, ElementOfSeq DEF Depth
<1>2. ASSUME NEW i \in 1 .. Len(stack)
      PROVE  ActSound(stack[i], i)'
  <2>1. CASE i = Len(stack)
    BY <1>1, <2>1 DEF Depth
  <2>2. CASE i \in 1 .. Len(stack) - 1
    <3>1. PICK b \in Activation : b = stack[i]
      BY <1>1, <2>2
    <3>2. ActSound(b, i)
      BY <1>1, <2>2, <3>1 DEF StackSound
    <3>3. ActSound(b, i)' /\ stack'[i] = b
      BY <1>1, <2>2, <3>1, <3>2
    <3> QED BY <3>3
  <2>3. i = Len(stack) \/ i \in 1 .. Len(stack) - 1
    <3>1. Len(stack) \in Nat
      BY <1>1
    <3> QED BY <3>1
  <2> QED BY <2>1, <2>2, <2>3
<1>3. ASSUME NEW i \in 1 .. Len(stack'), NEW j \in 1 .. Len(stack'), i < j
      PROVE  PairSound(stack'[i], stack'[j])
  <2>1. i \in 1 .. Len(stack) - 1 /\ i \in 1 .. Len(stack) /\ j \in 1 .. Len(stack)
        /\ stack'[i] = stack[i] /\ PairSound(stack[i], stack[j])
    BY <1>1, <1>3 DEF StackSound
  <2>2. CASE j = Len(stack)
    <3>1. stack'[j] = a /\ stack[j] = Top
      BY <1>1, <2>2 DEF Top, Depth
    <3> QED BY <2>1, <3>1 DEF PairSound
  <2>3. CASE j # Len(stack)
    <3>1. j \in 1 .. Len(stack) - 1
      <4>1. Len(stack) \in Nat /\ j \in 1 .. Len(stack)
        BY <1>1, <2>1
      <4> QED BY <4>1, <2>3
    <3> QED BY <1>1, <2>1, <3>1
  <2> QED BY <2>2, <2>3
<1> QED BY <1>1, <1>2, <1>3 DEF StackSound, PairSound, Holding

(* Popping keeps it sound. *)
LEMMA PoppedSound ==
    ASSUME stack \in Seq(Activation), StackSound, stack # <<>>, stack' = Popped,
           \A b \in Activation : \A i \in 1 .. Len(stack) - 1 :
              b = stack[i] /\ ActSound(b, i) => ActSound(b, i)'
    PROVE  StackSound' /\ stack' \in Seq(Activation)
<1>1. /\ stack' \in Seq(Activation) /\ Len(stack') = Len(stack) - 1
      /\ Len(stack) \in Nat /\ Len(stack) # 0
      /\ \A i \in 1 .. Len(stack) - 1 : stack'[i] = stack[i] /\ stack[i] \in Activation
  BY PoppedShape, TopType, ElementOfSeq DEF Depth
<1>2. ASSUME NEW i \in 1 .. Len(stack')
      PROVE  ActSound(stack[i], i)'
  <2>1. PICK b \in Activation : b = stack[i]
    BY <1>1
  <2>2. ActSound(b, i)
    BY <1>1, <2>1 DEF StackSound
  <2>3. ActSound(b, i)' /\ stack'[i] = b
    BY <1>1, <2>1, <2>2
  <2> QED BY <2>3
<1>3. ASSUME NEW i \in 1 .. Len(stack'), NEW j \in 1 .. Len(stack'), i < j
      PROVE  PairSound(stack'[i], stack'[j])
  BY <1>1, <1>3 DEF StackSound
<1> QED BY <1>1, <1>2, <1>3 DEF StackSound, PairSound, Holding

(* Pushing keeps it sound if the new activation agrees with what it        *)
(* interrupts.                                                             *)
LEMMA PushedSound ==
    ASSUME stack \in Seq(Activation), StackSound, NEW a \in Activation,
           stack' = Append(stack, a),
           NEW n, n = Len(stack) + 1, ActSound(a, n)',
           \A b \in Activation : \A i \in 1 .. Len(stack) :
              b = stack[i] /\ ActSound(b, i) => ActSound(b, i)',
           \A i \in 1 .. Len(stack) : PairSound(stack[i], a)
    PROVE  StackSound' /\ stack' \in Seq(Activation)
<1>1. /\ stack' \in Seq(Activation) /\ Len(stack') = n
      /\ stack'[n] = a /\ Len(stack) \in Nat
      /\ \A i \in 1 .. Len(stack) : stack'[i] = stack[i] /\ stack[i] \in Activation
  BY PushedShape, ElementOfSeq, LenProperties
<1>2. ASSUME NEW i \in 1 .. n
      PROVE  ActSound(stack[i], i)'
  <2>1. CASE i = n
    BY <1>1, <2>1
  <2>2. CASE i \in 1 .. Len(stack)
    <3>1. PICK b \in Activation : b = stack[i]
      BY <1>1, <2>2
    <3>2. ActSound(b, i)
      BY <1>1, <2>2, <3>1 DEF StackSound
    <3>3. ActSound(b, i)' /\ stack'[i] = b
      BY <1>1, <2>2, <3>1, <3>2
    <3> QED BY <3>3
  <2>3. i = n \/ i \in 1 .. Len(stack)
    BY <1>1
  <2> QED BY <2>1, <2>2, <2>3
<1>3. ASSUME NEW i \in 1 .. n, NEW j \in 1 .. n, i < j
      PROVE  PairSound(stack'[i], stack'[j])
  <2>1. i \in 1 .. Len(stack) /\ (j = n \/ j \in 1 .. Len(stack))
    BY <1>1, <1>3
  <2>2. CASE j = n
    BY <1>1, <2>1, <2>2
  <2>3. CASE j \in 1 .. Len(stack)
    BY <1>1, <1>3, <2>1, <2>3 DEF StackSound
  <2> QED BY <2>1, <2>2, <2>3
<1> QED BY <1>1, <1>2, <1>3 DEF StackSound, PairSound, Holding

-----------------------------------------------------------------------------

(* The top, at another point of its call. *)
LEMMA Moved ==
    ASSUME stack \in Seq(Activation), stack # <<>>, NEW pc \in Pcs
    PROVE  \E a \in Activation :
             /\ a.fn = Top.fn /\ a.t = Top.t /\ a.pc = pc /\ a.e = Top.e
             /\ a.chain = Top.chain /\ a.arms = Top.arms
             /\ Goto(pc) = [stack EXCEPT ![Depth] = a]
<1>1. Top \in Activation /\ Depth \in 1 .. Len(stack)
  BY TopType
<1>2. [Top EXCEPT !.pc = pc] \in Activation
  BY <1>1 DEF Activation, Pcs
<1> WITNESS [Top EXCEPT !.pc = pc] \in Activation
<1> QED BY <1>1, <1>2 DEF Activation, Goto, Top

(* What the invariant says of the top of the stack. *)
LEMMA TopSound ==
    ASSUME IInv, stack # <<>>
    PROVE  /\ Top \in Activation /\ ActSound(Top, Depth)
           /\ Depth \in 1 .. Len(stack) /\ Len(stack) \in Nat /\ Depth = Len(stack)
           /\ \A i \in 1 .. Len(stack) - 1 :
                /\ stack[i] \in Activation /\ ActSound(stack[i], i)
                /\ PairSound(stack[i], Top)
           /\ Top.fn = "pop_timer" => Depth = 1
<1>1. Top \in Activation /\ Depth \in 1 .. Len(stack) /\ Len(stack) \in Nat /\ Depth = Len(stack)
  BY TopType DEF IInv, TypeOK, Depth
<1>2. ActSound(Top, Depth)
  BY <1>1 DEF IInv, StackSound, Top
<1>3. ASSUME NEW i \in 1 .. Len(stack) - 1
      PROVE  stack[i] \in Activation /\ ActSound(stack[i], i) /\ PairSound(stack[i], Top)
  <2>1. i \in 1 .. Len(stack) /\ i < Depth
    BY <1>1
  <2>2. stack[i] \in Activation
    BY <2>1, ElementOfSeq DEF IInv, TypeOK
  <2> QED BY <1>1, <2>1, <2>2 DEF IInv, StackSound, Top
<1> QED BY <1>1, <1>2, <1>3 DEF ActSound

(* An activation stays sound when nothing that it speaks of changes. *)
LEMMA Unmoved ==
    ASSUME NEW b, NEW i, ActSound(b, i), UNCHANGED entries,
           clock' = clock
    PROVE  ActSound(b, i)'
BY DEF ActSound, entries, Holding

(* The passing of time keeps the invariant. *)
LEMMA TickSound ==
    ASSUME IInv, NEW t \in Timer, Tick(t)
    PROVE  IInv'
<1>1. TypeOK /\ Exclusive /\ StackSound /\ Near
  BY DEF IInv
<1> USE DEF Tick, entries
<1>2. /\ clock' \in [Timer -> 1 .. MaxClock]
      /\ \A u \in Timer : clock[u] \in Nat /\ clock'[u] \in Nat /\ clock[u] <= clock'[u]
  BY <1>1, TimerAssumption DEF TypeOK
<1>3. TypeOK'
  BY <1>1, <1>2 DEF TypeOK
<1>4. Exclusive'
  BY <1>1 DEF Exclusive, Queued
<1>5. Near'
  <2>1. itv' \in 0 .. Longest
    BY <1>1 DEF Near
  <2>2. ASSUME NEW u \in Timer
        PROVE  /\ deadline'[u] <= clock'[u] + Longest
               /\ \A e \in ToSet(queue'[u]) : when'[e] <= clock'[u] + Longest
    <3>1. deadline[u] <= clock[u] + Longest /\ deadline[u] \in Nat
      BY <1>1, LongestType, TimerAssumption DEF Near, TypeOK
    <3>2. ASSUME NEW e \in ToSet(queue[u])
          PROVE  when[e] <= clock[u] + Longest /\ when[e] \in Nat
      <4>1. e \in Entry
        BY <1>1, Elements DEF TypeOK
      <4> QED BY <1>1, <4>1, LongestType, TimerAssumption DEF Near, TypeOK
    <3> QED BY <1>2, <3>1, <3>2, LongestType
  <2> QED BY <2>1, <2>2 DEF Near
<1>6. StackSound'
  <2>1. ASSUME NEW i \in 1 .. Len(stack)
        PROVE  ActSound(stack[i], i)'
    <3>1. stack[i] \in Activation /\ ActSound(stack[i], i)
      BY <1>1, ElementOfSeq DEF TypeOK, StackSound
    <3>2. PICK b \in Activation : b = stack[i]
      BY <3>1
    <3>3. ActSound(b, i) /\ stack'[i] = b
      BY <3>1, <3>2
    <3>4. b.fn = "timer_handler" /\ b.e # NoEntry => when[b.e] - interval[b.e] <= clock'[b.t]
      <4> SUFFICES ASSUME b.fn = "timer_handler", b.e # NoEntry
                   PROVE  when[b.e] - interval[b.e] <= clock'[b.t]
        OBVIOUS
      <4>1. b.e \in Entry /\ b.t \in Timer
        BY DEF Activation
      <4>2. when[b.e] \in Nat /\ interval[b.e] \in Nat
        BY <1>1, <4>1, EntryTypes
      <4>3. when[b.e] - interval[b.e] <= clock[b.t]
        BY <3>3 DEF ActSound
      <4> QED BY <1>2, <4>1, <4>2, <4>3
    <3>5. ActSound(b, i)'
      BY <3>3, <3>4 DEF ActSound, Holding
    <3> QED BY <3>3, <3>5
  <2> QED BY <1>1, <2>1 DEF StackSound, PairSound, Holding
<1> QED BY <1>3, <1>4, <1>5, <1>6 DEF IInv

(* The expiry of a timer of the system keeps it. *)
LEMMA FireSound ==
    ASSUME IInv, NEW t \in Timer, Fire(t)
    PROVE  IInv'
<1> USE DEF Fire, entries
<1>1. TypeOK'
  BY LongestType, TimerAssumption DEF IInv, TypeOK
<1>2. Exclusive'
  BY DEF IInv, Exclusive, Queued
<1>3. Near'
  BY LongestType, TimerAssumption DEF IInv, Near, TypeOK
<1>4. StackSound'
  BY SMTT(40) DEF IInv, StackSound, PairSound, Holding, ActSound
<1> QED BY <1>1, <1>2, <1>3, <1>4 DEF IInv

(* The delivery of its signal keeps it. *)
LEMMA DeliverSound ==
    ASSUME IInv, NEW t \in Timer, Deliver(t)
    PROVE  IInv'
<1> USE DEF Deliver, entries
<1>1. stack \in Seq(Activation) /\ Len(stack) \in Nat /\ StackSound
  BY LenProperties DEF IInv, TypeOK
<1>2. PICK a \in Activation : a = Act("timer_handler", t, "handling", NoEntry)
  <2> Act("timer_handler", t, "handling", NoEntry) \in Activation
    <3> "handling" \in Pcs /\ NoEntry \in Entry \cup {NoEntry} /\ "timer_handler" \in {"pop_timer", "timer_handler"}
      BY DEF Pcs
    <3> QED BY ActType
  <2> QED OBVIOUS
<1>3. /\ a.t = t /\ a.fn = "timer_handler" /\ a.pc = "handling" /\ a.e = NoEntry
      /\ stack' = Append(stack, a)
  BY <1>2 DEF Act
<1>4. ~Holding(a)
  BY <1>3 DEF Holding
<1>5. ActSound(a, Len(stack) + 1)'
  BY <1>3, <1>4 DEF ActSound, Holding
<1>6. \A i \in 1 .. Len(stack) : PairSound(stack[i], a)
  <2>1. \A i \in 1 .. Len(stack) : stack[i].t # t
    BY <1>1, LenProperties DEF Masked
  <2> QED BY <1>3, <1>4, <2>1 DEF PairSound
<1>7. \A b \in Activation : \A i \in 1 .. Len(stack) :
         b = stack[i] /\ ActSound(b, i) => ActSound(b, i)'
  BY Unmoved
<1>8. PICK n : n = Len(stack) + 1
  OBVIOUS
<1>9. ActSound(a, n)'
  BY <1>3, <1>4 DEF ActSound, Holding
<1>10. StackSound' /\ stack' \in Seq(Activation)
  BY <1>1, <1>3, <1>6, <1>7, <1>8, <1>9, PushedSound
<1>11. TypeOK'
  BY <1>10 DEF IInv, TypeOK
<1>12. Exclusive' /\ Near'
  BY DEF IInv, Exclusive, Queued, Near
<1> QED BY <1>10, <1>11, <1>12 DEF IInv

(* The top goes on with entry e in hand. *)
Taking(pc, e) == [stack EXCEPT ![Depth].pc = pc, ![Depth].e = e]

(* The top goes on to link entry e to chain c. *)
Linking(pc, e, c) == [stack EXCEPT ![Depth].pc = pc, ![Depth].e = e, ![Depth].chain = c]

(* The top, at another point and with an entry in hand. *)
LEMMA MovedWith ==
    ASSUME stack \in Seq(Activation), stack # <<>>, NEW pc \in Pcs, NEW e \in Entry
    PROVE  \E a \in Activation :
             /\ a.fn = Top.fn /\ a.t = Top.t /\ a.pc = pc /\ a.e = e
             /\ a.chain = Top.chain /\ a.arms = Top.arms
             /\ Taking(pc, e) = [stack EXCEPT ![Depth] = a]
<1>1. Top \in Activation /\ Depth \in 1 .. Len(stack) /\ Top = stack[Depth]
  BY TopType DEF Top
<1>2. [Top EXCEPT !.pc = pc, !.e = e] \in Activation
  BY <1>1 DEF Activation, Pcs
<1>3. DOMAIN stack = 1 .. Len(stack)
  BY LenProperties
<1> WITNESS [Top EXCEPT !.pc = pc, !.e = e] \in Activation
<1>4. [stack EXCEPT ![Depth].pc = pc, ![Depth].e = e]
        = [stack EXCEPT ![Depth] = [Top EXCEPT !.pc = pc, !.e = e]]
  BY <1>1, <1>3
<1> QED BY <1>1, <1>2, <1>4 DEF Activation, Taking

(* The top, about to link an entry to the chain it has seen. *)
LEMMA MovedLinking ==
    ASSUME stack \in Seq(Activation), stack # <<>>, NEW pc \in Pcs, NEW e \in Entry,
           NEW c \in Seq(Entry)
    PROVE  \E a \in Activation :
             /\ a.fn = Top.fn /\ a.t = Top.t /\ a.pc = pc /\ a.e = e
             /\ a.chain = c /\ a.arms = Top.arms
             /\ Linking(pc, e, c) = [stack EXCEPT ![Depth] = a]
<1>1. Top \in Activation /\ Depth \in 1 .. Len(stack) /\ Top = stack[Depth]
  BY TopType DEF Top
<1>2. [Top EXCEPT !.pc = pc, !.e = e, !.chain = c] \in Activation
  BY <1>1 DEF Activation, Pcs
<1>3. DOMAIN stack = 1 .. Len(stack)
  BY LenProperties
<1> WITNESS [Top EXCEPT !.pc = pc, !.e = e, !.chain = c] \in Activation
<1>4. [stack EXCEPT ![Depth].pc = pc, ![Depth].e = e, ![Depth].chain = c]
        = [stack EXCEPT ![Depth] = [Top EXCEPT !.pc = pc, !.e = e, !.chain = c]]
  BY <1>1, <1>3
<1> QED BY <1>1, <1>2, <1>4 DEF Activation, Linking

(* Taking entries off the lists keeps the lists apart. *)
LEMMA ExclusiveKept ==
    ASSUME Exclusive, IsInjective(free'), ToSet(free') \subseteq ToSet(free),
           \A t \in Timer : IsInjective(queue'[t]) /\ ToSet(queue'[t]) \subseteq ToSet(queue[t])
    PROVE  Exclusive'
<1>1. \A t \in Timer : ToSet(free') \cap ToSet(queue'[t]) = {}
  BY DEF Exclusive, Queued
<1>2. ToSet(free') \cap Queued' = {}
  BY <1>1 DEF Queued
<1>3. \A t, u \in Timer : t # u => ToSet(queue'[t]) \cap ToSet(queue'[u]) = {}
  BY DEF Exclusive
<1> QED BY <1>2, <1>3 DEF Exclusive

(* The head of a queue that has expired. *)
LEMMA ExpiredHead ==
    ASSUME IInv, NEW t \in Timer, Expired(t)
    PROVE  /\ Head(queue[t]) \in Entry /\ queue[t] # <<>> /\ queue[t] \in Seq(Entry)
           /\ Head(queue[t]) \in ToSet(queue[t])
           /\ when[Head(queue[t])] \in Nat /\ when[Head(queue[t])] <= clock[t]
           /\ clock[t] \in Nat /\ clock[t] <= MaxClock
<1>1. queue[t] \in Seq(Entry) /\ queue[t] # <<>> /\ clock[t] \in 1 .. MaxClock
  BY DEF IInv, TypeOK, Expired
<1>2. Head(queue[t]) \in Entry /\ Head(queue[t]) \in ToSet(queue[t])
  BY <1>1, HeadAndTail
<1>3. when[Head(queue[t])] \in Nat
  BY <1>2, EntryTypes DEF IInv
<1>4. when[Head(queue[t])] <= clock[t]
  BY DEF Expired
<1>5. MaxClock \in Nat
  BY TimerAssumption
<1> QED BY <1>1, <1>2, <1>3, <1>4, <1>5

(* Handling a repeating entry, which is inserted again, keeps it. *)
LEMMA HandleRepeatingSound ==
    ASSUME IInv, HandleRepeating
    PROVE  IInv'
<1>1. /\ stack # <<>> /\ Top.pc = "handling" /\ Expired(Top.t)
      /\ interval[Head(queue[Top.t])] # 0
      /\ UNCHANGED <<clock, deadline, pending, itv, free, interval>>
  BY DEF HandleRepeating, At, kernel
<1>2. TypeOK /\ Exclusive /\ StackSound /\ Near
  BY DEF IInv
<1>3. /\ Top \in Activation /\ ActSound(Top, Depth)
      /\ Depth \in 1 .. Len(stack) /\ Depth = Len(stack)
      /\ \A i \in 1 .. Len(stack) - 1 :
           stack[i] \in Activation /\ ActSound(stack[i], i) /\ PairSound(stack[i], Top)
  BY <1>1, TopSound
<1>4. PICK t \in Timer : t = Top.t
  BY <1>3 DEF Activation
<1>5. PICK e \in Entry : e = Head(queue[t])
  BY <1>1, <1>4, ExpiredHead
<1>6. PICK w \in Nat : w = when[e] + interval[e]
  BY <1>2, EntryTypes
<1>7. /\ when' = [when EXCEPT ![e] = w]
      /\ queue' = [queue EXCEPT ![t] = Insert(Tail(queue[t]), e, w)]
      /\ stack' = Taking("arm", e)
  BY <1>4, <1>5, <1>6 DEF HandleRepeating, Taking
<1>8. /\ when[e] \in Nat /\ interval[e] \in Nat /\ interval[e] <= Longest
      /\ clock[t] \in Nat /\ clock[t] <= MaxClock /\ Longest \in Nat /\ MaxClock \in Nat
      /\ when[e] <= clock[t]
  BY <1>1, <1>2, <1>4, <1>5, EntryTypes, ExpiredHead
<1>9. w \in Times /\ w <= clock[t] + Longest /\ w - interval[e] <= clock[t]
  BY <1>6, <1>8, LongestType
<1>10. /\ queue[t] \in Seq(Entry) /\ Tail(queue[t]) \in Seq(Entry)
       /\ ToSet(queue[t]) = {e} \cup ToSet(Tail(queue[t]))
       /\ IsInjective(Tail(queue[t])) /\ e \notin ToSet(Tail(queue[t]))
       /\ e \in ToSet(queue[t])
  BY <1>1, <1>2, <1>4, <1>5, ExpiredHead, HeadAndTail DEF Exclusive
<1>11. PICK q \in Seq(Entry) : q = Insert(Tail(queue[t]), e, w)
  BY <1>10, InsertSound
<1>12. ToSet(q) = ToSet(queue[t]) /\ IsInjective(q)
  <2>1. ToSet(q) = ToSet(Tail(queue[t])) \cup {e} /\ IsInjective(q)
    BY <1>10, <1>11, InsertSound
  <2> QED BY <1>10, <2>1
<1>13. /\ queue' \in [Timer -> Seq(Entry)]
       /\ \A u \in Timer : ToSet(queue'[u]) = ToSet(queue[u]) /\ IsInjective(queue'[u])
  BY <1>2, <1>7, <1>11, <1>12 DEF TypeOK, Exclusive
<1>14. Exclusive'
  <2>1. IsInjective(free') /\ ToSet(free') \subseteq ToSet(free)
    BY <1>1, <1>2 DEF Exclusive
  <2> QED BY <1>2, <1>13, <2>1, ExclusiveKept
<1>15. Near'
  <2>1. \A u \in Timer : \A x \in ToSet(queue[u]) : x \in Entry /\ (x # e => when'[x] = when[x])
    BY <1>2, <1>7, Elements DEF TypeOK
  <2>2. when'[e] = w
    BY <1>2, <1>7 DEF TypeOK
  <2>3. \A u \in Timer : u # t => e \notin ToSet(queue[u])
    BY <1>2, <1>10 DEF Exclusive
  <2> QED BY <1>1, <1>2, <1>9, <1>13, <2>1, <2>2, <2>3 DEF Near
<1>16. StackSound' /\ stack' \in Seq(Activation)
  <2>1. PICK a \in Activation :
           /\ a.fn = Top.fn /\ a.t = Top.t /\ a.pc = "arm" /\ a.e = e
           /\ stack' = [stack EXCEPT ![Depth] = a]
    <3> "arm" \in Pcs
      BY DEF Pcs
    <3>1. "arm" \in Pcs
      BY DEF Pcs
    <3> QED BY <1>1, <1>2, <1>7, <3>1, MovedWith DEF TypeOK
  <2>2. ~Holding(a)
    BY <2>1 DEF Holding
  <2>3. a.fn = "timer_handler"
    BY <1>1, <1>3, <2>1 DEF ActSound
  <2>4. PICK n : n = Depth
    OBVIOUS
  <2>5. ActSound(a, n)'
    <3>1. when'[e] - interval'[e] <= clock'[t]
      BY <1>1, <1>2, <1>7, <1>9 DEF TypeOK
    <3>2. \A u \in Timer \ {t} : e \notin ToSet(queue'[u])
      BY <1>2, <1>10, <1>13 DEF Exclusive
    <3> QED BY <1>4, <2>1, <2>2, <2>3, <3>1, <3>2 DEF ActSound, Holding
  <2>6. ASSUME NEW b \in Activation, NEW i \in 1 .. Len(stack) - 1, b = stack[i], ActSound(b, i)
        PROVE  ActSound(b, i)'
    <3>1. b.t # t /\ b.t \in Timer
      BY <1>3, <1>4, <2>6 DEF PairSound, Activation
    <3>2. b.fn = "timer_handler" /\ b.e # NoEntry => when'[b.e] = when[b.e]
      <4> SUFFICES ASSUME b.fn = "timer_handler", b.e # NoEntry
                   PROVE  when'[b.e] = when[b.e]
        OBVIOUS
      <4>1. b.e \notin ToSet(queue[t])
        BY <2>6, <3>1 DEF ActSound
      <4>2. b.e \in Entry /\ b.e # e
        BY <1>10, <4>1 DEF Activation
      <4> QED BY <1>2, <1>7, <4>2 DEF TypeOK
    <3> QED BY <1>1, <1>13, <2>6, <3>2 DEF ActSound, Holding
  <2> QED BY <1>1, <1>2, <2>1, <2>2, <2>4, <2>5, <2>6, ReplacedSound DEF TypeOK
<1>17. TypeOK'
  BY <1>1, <1>2, <1>7, <1>9, <1>13, <1>16 DEF TypeOK
<1> QED BY <1>14, <1>15, <1>16, <1>17 DEF IInv

(* Handling an entry that is not repeating keeps it. *)
LEMMA HandleOnceSound ==
    ASSUME IInv, HandleOnce
    PROVE  IInv'
<1>1. /\ stack # <<>> /\ Top.pc = "handling" /\ Expired(Top.t)
      /\ interval[Head(queue[Top.t])] = 0
      /\ UNCHANGED <<clock, deadline, pending, itv, free, when, interval>>
  BY DEF HandleOnce, At, kernel
<1>2. TypeOK /\ Exclusive /\ StackSound /\ Near
  BY DEF IInv
<1>3. /\ Top \in Activation /\ ActSound(Top, Depth)
      /\ Depth \in 1 .. Len(stack) /\ Depth = Len(stack)
      /\ \A i \in 1 .. Len(stack) - 1 :
           stack[i] \in Activation /\ ActSound(stack[i], i) /\ PairSound(stack[i], Top)
  BY <1>1, TopSound
<1>4. PICK t \in Timer : t = Top.t
  BY <1>3 DEF Activation
<1>5. PICK e \in Entry : e = Head(queue[t])
  BY <1>1, <1>4, ExpiredHead
<1>6. PICK c \in Seq(Entry) : c = free
  BY <1>2 DEF TypeOK
<1>7. /\ queue' = [queue EXCEPT ![t] = Tail(queue[t])]
      /\ stack' = Linking("link", e, c)
  BY <1>4, <1>5, <1>6 DEF HandleOnce, Linking
<1>8. when[e] <= clock[t] /\ interval[e] = 0 /\ when[e] \in Nat
  BY <1>1, <1>4, <1>5, ExpiredHead
<1>9. /\ queue[t] \in Seq(Entry) /\ Tail(queue[t]) \in Seq(Entry)
      /\ ToSet(queue[t]) = {e} \cup ToSet(Tail(queue[t]))
      /\ IsInjective(Tail(queue[t])) /\ e \notin ToSet(Tail(queue[t]))
      /\ e \in ToSet(queue[t])
  BY <1>1, <1>2, <1>4, <1>5, ExpiredHead, HeadAndTail DEF Exclusive
<1>10. /\ queue' \in [Timer -> Seq(Entry)]
       /\ \A u \in Timer : ToSet(queue'[u]) \subseteq ToSet(queue[u]) /\ IsInjective(queue'[u])
  BY <1>2, <1>7, <1>9 DEF TypeOK, Exclusive
<1>11. /\ e \notin ToSet(free) /\ \A u \in Timer : e \notin ToSet(queue'[u])
  <2>1. e \notin ToSet(free)
    BY <1>2, <1>9 DEF Exclusive, Queued
  <2>2. ASSUME NEW u \in Timer
        PROVE  e \notin ToSet(queue'[u])
    <3>1. CASE u = t
      BY <1>2, <1>7, <1>9, <3>1 DEF TypeOK
    <3>2. CASE u # t
      BY <1>2, <1>9, <1>10, <3>2 DEF Exclusive
    <3> QED BY <3>1, <3>2
  <2> QED BY <2>1, <2>2
<1>12. Exclusive'
  <2>1. IsInjective(free') /\ ToSet(free') \subseteq ToSet(free)
    BY <1>1, <1>2 DEF Exclusive
  <2> QED BY <1>2, <1>10, <2>1, ExclusiveKept
<1>13. Near'
  BY <1>1, <1>2, <1>10 DEF Near
<1>14. StackSound' /\ stack' \in Seq(Activation)
  <2>1. PICK a \in Activation :
           /\ a.fn = Top.fn /\ a.t = Top.t /\ a.pc = "link" /\ a.e = e /\ a.chain = c
           /\ stack' = [stack EXCEPT ![Depth] = a]
    <3>1. "link" \in Pcs
      BY DEF Pcs
    <3>2. stack \in Seq(Activation) /\ stack # <<>>
      BY <1>1, <1>2 DEF TypeOK
    <3>3. \E a \in Activation :
             /\ a.fn = Top.fn /\ a.t = Top.t /\ a.pc = "link" /\ a.e = e /\ a.chain = c
             /\ Linking("link", e, c) = [stack EXCEPT ![Depth] = a]
      BY <3>1, <3>2, MovedLinking
    <3> QED BY <1>7, <3>3
  <2>2. a.fn = "timer_handler" /\ e # NoEntry
    BY <1>1, <1>3, <2>1, TimerAssumption DEF ActSound
  <2>3. PICK n : n = Depth
    OBVIOUS
  <2>4. ActSound(a, n)'
    <3>1. when'[e] - interval'[e] <= clock'[t]
      BY <1>1, <1>8
    <3>2. IsInjective(a.chain) /\ ToSet(a.chain) \subseteq ToSet(free')
      BY <1>1, <1>2, <1>6, <2>1 DEF Exclusive
    <3>3. e \notin ToSet(free')
      BY <1>1, <1>11
    <3> QED BY <1>4, <1>11, <2>1, <2>2, <3>1, <3>2, <3>3 DEF ActSound, Holding
  <2>5. ASSUME NEW b \in Activation, NEW i \in 1 .. Len(stack) - 1, b = stack[i], ActSound(b, i)
        PROVE  ActSound(b, i)'
    BY <1>1, <1>10, <2>5 DEF ActSound, Holding
  <2>6. ASSUME NEW i \in 1 .. Len(stack) - 1
        PROVE  /\ Holding(stack[i]) => stack[i].e # a.e /\ ToSet(stack[i].chain) \subseteq ToSet(a.chain)
               /\ stack[i].pc = "take" => stack[i].e \in ToSet(a.chain)
    BY <1>3, <1>6, <1>9, <2>1 DEF ActSound
  <2> QED BY <1>1, <1>2, <2>1, <2>3, <2>4, <2>5, <2>6, ReplacedSound DEF TypeOK
<1>15. TypeOK'
  BY <1>1, <1>2, <1>10, <1>14 DEF TypeOK
<1> QED BY <1>12, <1>13, <1>14, <1>15 DEF IInv

(* A signal that finds nothing due keeps it. *)
LEMMA HandleNothingSound ==
    ASSUME IInv, HandleNothing
    PROVE  IInv'
<1>1. /\ stack # <<>> /\ Top.pc = "handling" /\ stack' = Goto("arm")
      /\ UNCHANGED <<clock, deadline, pending, itv, queue, free, when, interval>>
  BY DEF HandleNothing, At, kernel, entries
<1>2. TypeOK /\ Exclusive /\ StackSound /\ Near
  BY DEF IInv
<1>3. StackSound' /\ stack' \in Seq(Activation)
  <2>1. PICK a \in Activation :
           /\ a.fn = Top.fn /\ a.t = Top.t /\ a.pc = "arm" /\ a.e = Top.e
           /\ stack' = [stack EXCEPT ![Depth] = a]
    <3>1. "arm" \in Pcs
      BY DEF Pcs
    <3> QED BY <1>1, <1>2, <3>1, Moved DEF TypeOK
  <2>2. ActSound(Top, Depth)
    BY <1>1, TopSound
  <2>3. PICK n : n = Depth
    OBVIOUS
  <2>4. ActSound(a, n)' /\ ~Holding(a)
    BY <1>1, <2>1, <2>2, <2>3 DEF ActSound, Holding
  <2>5. ASSUME NEW b \in Activation, NEW i \in 1 .. Len(stack) - 1, b = stack[i], ActSound(b, i)
        PROVE  ActSound(b, i)'
    BY <1>1, <2>5, Unmoved DEF entries
  <2> QED BY <1>1, <1>2, <2>1, <2>3, <2>4, <2>5, ReplacedSound DEF TypeOK
<1>4. TypeOK'
  BY <1>1, <1>2, <1>3 DEF TypeOK
<1>5. Exclusive' /\ Near'
  BY <1>1, <1>2 DEF Exclusive, Queued, Near
<1> QED BY <1>3, <1>4, <1>5 DEF IInv

(* An activation that had an entry in hand links it to its chain: what the   *)
(* activations below it have in hand, or are about to take, is as it was.    *)
LEMMA LinkedSound ==
    ASSUME IInv, stack # <<>>, Holding(Top), free' = <<Top.e>> \o Top.chain,
           UNCHANGED <<clock, deadline, queue, when, interval>>
    PROVE  /\ free' \in Seq(Entry) /\ Exclusive'
           /\ \A b \in Activation : \A i \in 1 .. Len(stack) - 1 :
                 b = stack[i] /\ ActSound(b, i) => ActSound(b, i)'
<1>1. TypeOK /\ Exclusive /\ StackSound
  BY DEF IInv
<1>2. /\ Top \in Activation /\ ActSound(Top, Depth)
      /\ \A i \in 1 .. Len(stack) - 1 : PairSound(stack[i], Top)
  BY TopSound
<1>3. PICK e \in Entry, c \in Seq(Entry) : e = Top.e /\ c = Top.chain
  BY <1>2 DEF ActSound, Activation
<1>4. /\ e \notin ToSet(free) /\ IsInjective(c) /\ ToSet(c) \subseteq ToSet(free)
      /\ \A t \in Timer : e \notin ToSet(queue[t])
  BY <1>2, <1>3 DEF ActSound
<1>5. /\ free' \in Seq(Entry) /\ ToSet(free') = {e} \cup ToSet(c) /\ IsInjective(free')
  <2>1. e \notin ToSet(c) /\ free' = <<e>> \o c
    BY <1>3, <1>4
  <2>2. /\ <<e>> \o c \in Seq(Entry) /\ ToSet(<<e>> \o c) = {e} \cup ToSet(c)
        /\ IsInjective(<<e>> \o c)
    BY <1>4, <2>1, ConsDistinct
  <2> QED BY <2>1, <2>2
<1>6. Exclusive'
  <2>1. \A t \in Timer : ToSet(free') \cap ToSet(queue'[t]) = {}
    <3>1. \A t \in Timer : ToSet(free) \cap ToSet(queue[t]) = {}
      BY <1>1 DEF Exclusive, Queued
    <3> QED BY <1>4, <1>5, <3>1
  <2>2. ToSet(free') \cap Queued' = {}
    BY <2>1 DEF Queued
  <2> QED BY <1>1, <1>5, <2>2 DEF Exclusive
<1>7. ASSUME NEW b \in Activation, NEW i \in 1 .. Len(stack) - 1, b = stack[i], ActSound(b, i)
      PROVE  ActSound(b, i)'
  <2>1. PairSound(b, Top)
    BY <1>2, <1>7
  <2>2. b.pc = "take" => b.e \in ToSet(free')
    BY <1>3, <1>5, <2>1 DEF PairSound
  <2>3. Holding(b) => b.e \notin ToSet(free') /\ ToSet(b.chain) \subseteq ToSet(free')
    BY <1>3, <1>4, <1>5, <1>7, <2>1 DEF PairSound, ActSound
  <2> QED BY <1>7, <2>2, <2>3 DEF ActSound, Holding
<1> QED BY <1>5, <1>6, <1>7

(* Linking a handled entry to the free list keeps it. *)
LEMMA LinkFreeSound ==
    ASSUME IInv, LinkFree
    PROVE  IInv'
<1>1. /\ stack # <<>> /\ Top.pc = "link" /\ stack' = Goto("arm") /\ free' = <<Top.e>> \o Top.chain
      /\ UNCHANGED <<clock, deadline, pending, itv, queue, when, interval>>
  BY DEF LinkFree, At, kernel
<1>2. TypeOK /\ Exclusive /\ StackSound /\ Near
  BY DEF IInv
<1>3. Holding(Top)
  BY <1>1 DEF Holding
<1>4. /\ free' \in Seq(Entry) /\ Exclusive'
      /\ \A b \in Activation : \A i \in 1 .. Len(stack) - 1 :
            b = stack[i] /\ ActSound(b, i) => ActSound(b, i)'
  BY <1>1, <1>3, LinkedSound
<1>5. StackSound' /\ stack' \in Seq(Activation)
  <2>1. PICK a \in Activation :
           /\ a.fn = Top.fn /\ a.t = Top.t /\ a.pc = "arm" /\ a.e = Top.e
           /\ stack' = [stack EXCEPT ![Depth] = a]
    <3>1. "arm" \in Pcs
      BY DEF Pcs
    <3> QED BY <1>1, <1>2, <3>1, Moved DEF TypeOK
  <2>2. ActSound(Top, Depth)
    BY <1>1, TopSound
  <2>3. PICK n : n = Depth
    OBVIOUS
  <2>4. ActSound(a, n)' /\ ~Holding(a)
    BY <1>1, <2>1, <2>2, <2>3 DEF ActSound, Holding
  <2> QED BY <1>1, <1>2, <1>4, <2>1, <2>3, <2>4, ReplacedSound DEF TypeOK
<1>6. TypeOK'
  BY <1>1, <1>2, <1>4, <1>5 DEF TypeOK
<1>7. Near'
  BY <1>1, <1>2 DEF Near
<1> QED BY <1>4, <1>5, <1>6, <1>7 DEF IInv

(* Working out the interval for the timer keeps it. *)
LEMMA ArmSound ==
    ASSUME IInv, Arm
    PROVE  IInv'
<1>1. /\ stack # <<>> /\ Top.pc = "arm" /\ stack' = Goto("setitimer")
      /\ itv' = IF queue[Top.t] = <<>> \/ Expired(Top.t)
                THEN 0 ELSE when[Head(queue[Top.t])] - clock[Top.t]
      /\ pending' = IF Expired(Top.t) THEN pending \cup {Top.t} ELSE pending
      /\ UNCHANGED <<clock, deadline, queue, free, when, interval>>
  BY DEF Arm, At, entries
<1>2. TypeOK /\ Exclusive /\ StackSound /\ Near
  BY DEF IInv
<1>3. Top \in Activation /\ ActSound(Top, Depth)
  BY <1>1, TopSound
<1>4. PICK t \in Timer : t = Top.t
  BY <1>3 DEF Activation
<1>5. itv' \in 0 .. Longest
  <2>1. CASE queue[t] = <<>> \/ Expired(t)
    BY <1>1, <1>4, <2>1, LongestType
  <2>2. CASE queue[t] # <<>> /\ ~Expired(t)
    <3> DEFINE h == Head(queue[t])
    <3>1. h \in Entry /\ h \in ToSet(queue[t])
      BY <1>2, <2>2, HeadAndTail DEF TypeOK
    <3>2. when[h] \in Nat /\ when[h] <= clock[t] + Longest /\ clock[t] \in 1 .. MaxClock
          /\ Longest \in Nat /\ MaxClock \in Nat
      BY <1>2, <3>1, EntryTypes DEF Near, TypeOK
    <3>3. ~(when[h] <= clock[t])
      BY <2>2 DEF Expired
    <3>4. itv' = when[h] - clock[t]
      BY <1>1, <1>4, <2>2
    <3> HIDE DEF h
    <3> QED BY <3>2, <3>3, <3>4
  <2> QED BY <2>1, <2>2
<1>6. pending' \subseteq Timer /\ itv' \in Times
  BY <1>1, <1>2, <1>4, <1>5, LongestType, TimerAssumption DEF TypeOK
<1>7. StackSound' /\ stack' \in Seq(Activation)
  <2>1. PICK a \in Activation :
           /\ a.fn = Top.fn /\ a.t = Top.t /\ a.pc = "setitimer" /\ a.e = Top.e
           /\ stack' = [stack EXCEPT ![Depth] = a]
    <3>1. "setitimer" \in Pcs
      BY DEF Pcs
    <3> QED BY <1>1, <1>2, <3>1, Moved DEF TypeOK
  <2>3. PICK n : n = Depth
    OBVIOUS
  <2>4. ActSound(a, n)' /\ ~Holding(a)
    BY <1>1, <1>3, <2>1, <2>3 DEF ActSound, Holding
  <2>5. ASSUME NEW b \in Activation, NEW i \in 1 .. Len(stack) - 1, b = stack[i], ActSound(b, i)
        PROVE  ActSound(b, i)'
    BY <1>1, <2>5, Unmoved DEF entries
  <2> QED BY <1>1, <1>2, <2>1, <2>3, <2>4, <2>5, ReplacedSound DEF TypeOK
<1>8. TypeOK'
  BY <1>1, <1>2, <1>6, <1>7 DEF TypeOK
<1>9. Exclusive' /\ Near'
  BY <1>1, <1>2, <1>5 DEF Exclusive, Queued, Near
<1> QED BY <1>7, <1>8, <1>9 DEF IInv

(* Setting the timer keeps it. *)
LEMMA SetItimerSound ==
    ASSUME IInv, SetItimer
    PROVE  IInv'
<1>1. /\ stack # <<>> /\ Top.pc = "setitimer" /\ stack' = Popped
      /\ deadline' = [deadline EXCEPT ![Top.t] = IF itv = 0 THEN 0 ELSE clock[Top.t] + itv]
      /\ UNCHANGED <<clock, pending, itv, queue, free, when, interval>>
  BY DEF SetItimer, At, entries
<1>2. TypeOK /\ Exclusive /\ StackSound /\ Near
  BY DEF IInv
<1>3. Top \in Activation
  BY <1>1, TopSound
<1>4. PICK t \in Timer : t = Top.t
  BY <1>3 DEF Activation
<1>5. PICK d : d = IF itv = 0 THEN 0 ELSE clock[t] + itv
  OBVIOUS
<1>6. deadline' = [deadline EXCEPT ![t] = d]
  BY <1>1, <1>4, <1>5
<1>7. d \in Times /\ d <= clock[t] + Longest
  <2>1. itv \in 0 .. Longest /\ clock[t] \in 1 .. MaxClock /\ MaxClock \in Nat /\ Longest \in Nat
    BY <1>2, LongestType, TimerAssumption DEF Near, TypeOK
  <2> QED BY <1>5, <2>1, LongestType
<1>8. StackSound' /\ stack' \in Seq(Activation)
  <2>1. ASSUME NEW b \in Activation, NEW i \in 1 .. Len(stack) - 1, b = stack[i], ActSound(b, i)
        PROVE  ActSound(b, i)'
    BY <1>1, <2>1, Unmoved DEF entries
  <2> QED BY <1>1, <1>2, <2>1, PoppedSound DEF TypeOK
<1>9. TypeOK'
  BY <1>1, <1>2, <1>6, <1>7, <1>8 DEF TypeOK
<1>10. Near'
  BY <1>1, <1>2, <1>6, <1>7 DEF Near, TypeOK
<1>11. Exclusive'
  BY <1>1, <1>2 DEF Exclusive, Queued
<1> QED BY <1>8, <1>9, <1>10, <1>11 DEF IInv

(* A stack of one sound activation is sound. *)
LEMMA SingleSound ==
    ASSUME NEW a \in Activation, stack' = <<a>>, ActSound(a, 1)'
    PROVE  StackSound' /\ stack' \in Seq(Activation)
<1>1. /\ <<a>> \in Seq(Activation) /\ Len(<<a>>) = 1 /\ <<a>>[1] = a
  OBVIOUS
<1>2. stack' \in Seq(Activation) /\ Len(stack') = 1 /\ stack'[1] = a
  BY <1>1
<1>3. \A i \in 1 .. Len(stack') : i = 1
  BY <1>2
<1>4. ASSUME NEW i \in 1 .. Len(stack')
      PROVE  ActSound(stack[i], i)'
  BY <1>2, <1>3
<1> QED BY <1>2, <1>3, <1>4 DEF StackSound

(* A call that sets a timer keeps the invariant. *)
LEMMA CallSetSound ==
    ASSUME IInv, NEW t \in Timer, CallSet(t)
    PROVE  IInv'
<1>1. /\ free # <<>> /\ stack' = <<Act("pop_timer", t, "take", Head(free))>>
      /\ UNCHANGED <<clock, deadline, pending, itv, queue, free, when, interval>>
  BY DEF CallSet, kernel, entries
<1>2. TypeOK /\ Exclusive /\ Near
  BY DEF IInv
<1>3. Head(free) \in Entry /\ Head(free) \in ToSet(free)
  BY <1>1, <1>2, HeadAndTail DEF TypeOK
<1>4. PICK a \in Activation : a = Act("pop_timer", t, "take", Head(free))
  <2>1. "take" \in Pcs /\ "pop_timer" \in {"pop_timer", "timer_handler"}
    BY DEF Pcs
  <2> QED BY <1>3, <2>1, ActType
<1>5. a.fn = "pop_timer" /\ a.pc = "take" /\ a.e = Head(free)
  BY <1>4 DEF Act
<1>6. ActSound(a, 1)'
  BY <1>1, <1>3, <1>5 DEF ActSound, Holding
<1>7. StackSound' /\ stack' \in Seq(Activation)
  BY <1>1, <1>4, <1>6, SingleSound
<1>8. TypeOK' /\ Exclusive' /\ Near'
  BY <1>1, <1>2, <1>7 DEF TypeOK, Exclusive, Queued, Near
<1> QED BY <1>7, <1>8 DEF IInv

(* The place of an element that a sequence holds. *)
LEMMA PlaceOf ==
    ASSUME NEW s \in Seq(Entry), NEW e \in ToSet(s)
    PROVE  /\ (CHOOSE k \in DOMAIN s : s[k] = e) \in 1 .. Len(s)
           /\ s[CHOOSE k \in DOMAIN s : s[k] = e] = e
<1>1. DOMAIN s = 1 .. Len(s) /\ \E k \in 1 .. Len(s) : s[k] = e
  BY Elements
<1> QED BY <1>1

(* Taking a free entry and queueing it keeps it. *)
LEMMA TakeSound ==
    ASSUME IInv, NEW i \in Interval, NEW repeat \in BOOLEAN, Take(i, repeat)
    PROVE  IInv'
<1> DEFINE k == CHOOSE n \in DOMAIN free : free[n] = Top.e
<1>1. /\ stack # <<>> /\ Top.pc = "take"
      /\ UNCHANGED <<clock, deadline, pending, itv>>
  BY DEF Take, At, kernel
<1>2. TypeOK /\ Exclusive /\ StackSound /\ Near
  BY DEF IInv
<1>3. Top \in Activation /\ ActSound(Top, Depth) /\ Depth = 1 /\ Len(stack) = 1
  BY <1>1, TopSound DEF ActSound
<1>4. PICK t \in Timer : t = Top.t
  BY <1>3 DEF Activation
<1>5. Top.e \in ToSet(free) /\ Top.fn = "pop_timer" /\ free \in Seq(Entry)
  BY <1>1, <1>2, <1>3 DEF ActSound, TypeOK
<1>6. PICK e \in Entry : e = Top.e
  BY <1>5, Elements
<1>7. k \in 1 .. Len(free) /\ free[k] = e
  BY <1>5, <1>6, PlaceOf
<1>8. PICK f : f = SubSeq(free, k + 1, Len(free))
  OBVIOUS
<1> HIDE DEF k
<1>9. f \in Seq(Entry) /\ ToSet(f) \subseteq ToSet(free) \ {e} /\ IsInjective(f)
  <2>1. /\ SubSeq(free, k + 1, Len(free)) \in Seq(Entry)
        /\ ToSet(SubSeq(free, k + 1, Len(free))) \subseteq ToSet(free)
        /\ IsInjective(SubSeq(free, k + 1, Len(free)))
        /\ free[k] \notin ToSet(SubSeq(free, k + 1, Len(free)))
    BY <1>2, <1>5, <1>7, SuffixProperties DEF Exclusive
  <2> QED BY <1>7, <1>8, <2>1
<1>10. clock[t] \in 1 .. MaxClock /\ MaxClock \in Nat /\ Longest \in Nat /\ i \in Nat /\ i <= Longest
  BY <1>2, LongestType, TimerAssumption DEF TypeOK
<1>11. PICK w : w = IF i = 0 THEN 0 ELSE clock[t] + i
  OBVIOUS
<1>12. w \in Nat /\ w \in Times /\ w <= clock[t] + Longest
  BY <1>10, <1>11, LongestType
<1>13. queue[t] \in Seq(Entry) /\ IsInjective(queue[t]) /\ e \notin ToSet(queue[t])
       /\ \A u \in Timer : e \notin ToSet(queue[u])
  BY <1>2, <1>5, <1>6 DEF TypeOK, Exclusive, Queued
<1>14. PICK q \in Seq(Entry) : q = Insert(queue[t], e, w)
  BY <1>12, <1>13, InsertSound
<1>15. ToSet(q) = ToSet(queue[t]) \cup {e} /\ IsInjective(q)
  <2>1. /\ ToSet(Insert(queue[t], e, w)) = ToSet(queue[t]) \cup {e}
        /\ IsInjective(Insert(queue[t], e, w))
    BY <1>12, <1>13, InsertSound
  <2> QED BY <1>14, <2>1
<1>16. /\ free' = f
       /\ when' = [when EXCEPT ![e] = w]
       /\ interval' = [interval EXCEPT ![e] = IF repeat THEN i ELSE 0]
       /\ queue' = [queue EXCEPT ![t] = q]
       /\ stack' = Goto("arm") \/ stack' = Popped
  BY <1>4, <1>6, <1>8, <1>11, <1>14 DEF Take, k
<1>17. /\ queue' \in [Timer -> Seq(Entry)] /\ free' \in Seq(Entry)
       /\ when' \in [Entry -> Times] /\ interval' \in [Entry -> Interval \cup {0}]
  BY <1>2, <1>9, <1>12, <1>16 DEF TypeOK
<1>18. \A u \in Timer : queue'[u] = IF u = t THEN q ELSE queue[u]
  BY <1>2, <1>16 DEF TypeOK
<1>19. Exclusive'
  <2>1. ASSUME NEW u \in Timer
        PROVE  IsInjective(queue'[u]) /\ ToSet(free') \cap ToSet(queue'[u]) = {}
    <3>1. ToSet(free) \cap ToSet(queue[u]) = {} /\ IsInjective(queue[u])
      BY <1>2 DEF Exclusive, Queued
    <3> QED BY <1>9, <1>15, <1>16, <1>18, <3>1
  <2>2. ToSet(free') \cap Queued' = {}
    BY <2>1 DEF Queued
  <2>3. ASSUME NEW u \in Timer, NEW v \in Timer, u # v
        PROVE  ToSet(queue'[u]) \cap ToSet(queue'[v]) = {}
    <3>1. ToSet(queue[u]) \cap ToSet(queue[v]) = {}
      BY <1>2, <2>3 DEF Exclusive
    <3> QED BY <1>13, <1>15, <1>18, <2>3, <3>1
  <2> QED BY <1>9, <1>16, <2>1, <2>2, <2>3 DEF Exclusive
<1>20. Near'
  <2>1. when'[e] = w /\ \A x \in Entry : x # e => when'[x] = when[x]
    BY <1>2, <1>16 DEF TypeOK
  <2>2. ASSUME NEW u \in Timer, NEW x \in ToSet(queue'[u])
        PROVE  when'[x] <= clock'[u] + Longest
    <3>1. CASE x = e
      <4>1. u = t
        BY <1>13, <1>18, <2>2, <3>1
      <4> QED BY <1>1, <1>12, <2>1, <3>1, <4>1
    <3>2. CASE x # e
      <4>1. x \in ToSet(queue[u])
        BY <1>15, <1>18, <2>2, <3>2
      <4>2. x \in Entry
        BY <1>2, <4>1, Elements DEF TypeOK
      <4> QED BY <1>1, <1>2, <2>1, <3>2, <4>1, <4>2 DEF Near
    <3> QED BY <3>1, <3>2
  <2> QED BY <1>1, <1>2, <2>2 DEF Near
<1>21. stack \in Seq(Activation) /\ ~\E j \in 1 .. Len(stack) - 1 : TRUE
  BY <1>2, <1>3 DEF TypeOK
<1>22. StackSound' /\ stack' \in Seq(Activation)
  <2>1. CASE stack' = Goto("arm")
    <3>1. PICK a \in Activation :
             /\ a.fn = Top.fn /\ a.t = Top.t /\ a.pc = "arm"
             /\ stack' = [stack EXCEPT ![Depth] = a]
      <4>1. "arm" \in Pcs
        BY DEF Pcs
      <4> QED BY <1>1, <1>21, <2>1, <4>1, Moved
    <3>2. PICK n : n = Depth
      OBVIOUS
    <3>3. ActSound(a, n)' /\ ~Holding(a)
      BY <1>3, <1>5, <3>1, <3>2 DEF ActSound, Holding
    <3> QED BY <1>1, <1>2, <1>21, <3>1, <3>2, <3>3, ReplacedSound
  <2>2. CASE stack' = Popped
    BY <1>1, <1>2, <1>21, <2>2, PoppedSound
  <2> QED BY <1>16, <2>1, <2>2
<1>23. TypeOK'
  BY <1>1, <1>2, <1>17, <1>22 DEF TypeOK
<1> QED BY <1>19, <1>20, <1>22, <1>23 DEF IInv

(* Unlinking takes out that entry alone. *)
LEMMA UnlinkedProperties ==
    ASSUME NEW q \in Seq(Entry), NEW e \in ToSet(q), IsInjective(q)
    PROVE  /\ Unlinked(q, e) \in Seq(Entry) /\ IsInjective(Unlinked(q, e))
           /\ ToSet(Unlinked(q, e)) = ToSet(q) \ {e}
<1> DEFINE k == CHOOSE n \in DOMAIN q : q[n] = e
<1>1. k \in 1 .. Len(q) /\ q[k] = e
  BY PlaceOf
<1>2. Unlinked(q, e) = RemoveAt(q, k)
  BY DEF Unlinked
<1> HIDE DEF k
<1> QED BY <1>1, <1>2, RemoveAtDistinct, RemoveAtProperties

(* A call that cancels a timer keeps the invariant. *)
LEMMA CallCancelSound ==
    ASSUME IInv, NEW t \in Timer, NEW e \in Entry, CallCancel(t, e)
    PROVE  IInv'
<1>1. /\ e \in ToSet(queue[t])
      /\ queue' = [queue EXCEPT ![t] = Unlinked(queue[t], e)]
      /\ UNCHANGED <<clock, deadline, pending, itv, free, when, interval>>
  BY DEF CallCancel, kernel
<1>2. TypeOK /\ Exclusive /\ Near
  BY DEF IInv
<1>3. /\ Unlinked(queue[t], e) \in Seq(Entry) /\ IsInjective(Unlinked(queue[t], e))
      /\ ToSet(Unlinked(queue[t], e)) = ToSet(queue[t]) \ {e}
  BY <1>1, <1>2, UnlinkedProperties DEF TypeOK, Exclusive
<1>4. /\ queue' \in [Timer -> Seq(Entry)]
      /\ \A u \in Timer : IsInjective(queue'[u]) /\ ToSet(queue'[u]) \subseteq ToSet(queue[u])
      /\ queue'[t] = Unlinked(queue[t], e)
  BY <1>1, <1>2, <1>3 DEF TypeOK, Exclusive
<1>5. e \notin ToSet(free) /\ \A u \in Timer : e \notin ToSet(queue'[u])
  <2>1. e \notin ToSet(free)
    BY <1>1, <1>2 DEF Exclusive, Queued
  <2>2. ASSUME NEW u \in Timer, u # t
        PROVE  e \notin ToSet(queue'[u])
    BY <1>1, <1>2, <1>4, <2>2 DEF Exclusive
  <2> QED BY <1>3, <1>4, <2>1, <2>2
<1>6. PICK a \in Activation :
         /\ a.fn = "pop_timer" /\ a.pc = "unlink" /\ a.e = e /\ a.chain = free
         /\ stack' = <<a>>
  <2> DEFINE b == Act("pop_timer", t, "unlink", e)
             arms == HeadChanged(queue[t], queue'[t])
  <2>1. b \in Activation /\ b.fn = "pop_timer" /\ b.pc = "unlink" /\ b.e = e
    <3>1. "unlink" \in Pcs /\ "pop_timer" \in {"pop_timer", "timer_handler"}
      BY DEF Pcs
    <3> QED BY <3>1, ActType DEF Act
  <2>2. arms \in BOOLEAN /\ free \in Seq(Entry)
    BY <1>2 DEF HeadChanged, TypeOK
  <2>3. stack' = <<[b EXCEPT !.chain = free, !.arms = arms]>>
    BY DEF CallCancel
  <2> HIDE DEF b, arms
  <2>4. PICK a : a = [b EXCEPT !.chain = free, !.arms = arms]
    OBVIOUS
  <2>5. a \in Activation /\ a.fn = "pop_timer" /\ a.pc = "unlink" /\ a.e = e /\ a.chain = free
    BY <2>1, <2>2, <2>4 DEF Activation
  <2> QED BY <2>3, <2>4, <2>5
<1>7. ActSound(a, 1)'
  BY <1>1, <1>2, <1>5, <1>6 DEF ActSound, Holding, Exclusive
<1>8. StackSound' /\ stack' \in Seq(Activation)
  BY <1>6, <1>7, SingleSound
<1>9. Exclusive'
  <2>1. IsInjective(free') /\ ToSet(free') \subseteq ToSet(free)
    BY <1>1, <1>2 DEF Exclusive
  <2> QED BY <1>2, <1>4, <2>1, ExclusiveKept
<1>10. TypeOK' /\ Near'
  BY <1>1, <1>2, <1>4, <1>8 DEF TypeOK, Near
<1> QED BY <1>8, <1>9, <1>10 DEF IInv

(* Linking a cancelled entry to the free list keeps it. *)
LEMMA UnlinkSound ==
    ASSUME IInv, Unlink
    PROVE  IInv'
<1>1. /\ stack # <<>> /\ Top.pc = "unlink" /\ free' = <<Top.e>> \o Top.chain
      /\ stack' = Goto("arm") \/ stack' = Popped
      /\ UNCHANGED <<clock, deadline, pending, itv, queue, when, interval>>
  BY DEF Unlink, At, kernel
<1>2. TypeOK /\ Exclusive /\ StackSound /\ Near
  BY DEF IInv
<1>3. Holding(Top)
  BY <1>1 DEF Holding
<1>4. /\ free' \in Seq(Entry) /\ Exclusive'
      /\ \A b \in Activation : \A i \in 1 .. Len(stack) - 1 :
            b = stack[i] /\ ActSound(b, i) => ActSound(b, i)'
  BY <1>1, <1>3, LinkedSound
<1>5. ActSound(Top, Depth)
  BY <1>1, TopSound
<1>6. StackSound' /\ stack' \in Seq(Activation)
  <2>1. CASE stack' = Goto("arm")
    <3>1. PICK a \in Activation :
             /\ a.fn = Top.fn /\ a.t = Top.t /\ a.pc = "arm"
             /\ stack' = [stack EXCEPT ![Depth] = a]
      <4>1. "arm" \in Pcs
        BY DEF Pcs
      <4> QED BY <1>1, <1>2, <2>1, <4>1, Moved DEF TypeOK
    <3>2. PICK n : n = Depth
      OBVIOUS
    <3>3. ActSound(a, n)' /\ ~Holding(a)
      BY <1>1, <1>5, <3>1, <3>2 DEF ActSound, Holding
    <3> QED BY <1>1, <1>2, <1>4, <3>1, <3>2, <3>3, ReplacedSound DEF TypeOK
  <2>2. CASE stack' = Popped
    BY <1>1, <1>2, <1>4, <2>2, PoppedSound DEF TypeOK
  <2> QED BY <1>1, <2>1, <2>2
<1>7. TypeOK' /\ Near'
  BY <1>1, <1>2, <1>4, <1>6 DEF TypeOK, Near
<1> QED BY <1>4, <1>6, <1>7 DEF IInv

(* What holds of a sequence with nothing in it. *)
LEMMA EmptyList ==
    <<>> \in Seq(Entry) /\ ToSet(<<>>) = {} /\ IsInjective(<<>>) /\ Len(<<>>) = 0
BY DEF ToSet, IsInjective

(* What a fork leaves to the child keeps it. *)
LEMMA ForkChildSound ==
    ASSUME IInv, ForkChild
    PROVE  IInv'
<1>1. /\ stack = <<>> /\ stack' = stack /\ pending' = {}
      /\ deadline' = [t \in Timer |-> 0] /\ queue' = [t \in Timer |-> <<>>]
      /\ itv' = 0 \/ itv' = itv
      /\ UNCHANGED <<clock, free, when, interval>>
  BY DEF ForkChild
<1>2. TypeOK /\ Exclusive /\ StackSound /\ Near
  BY DEF IInv
<1>3. \A t \in Timer : queue'[t] = <<>> /\ deadline'[t] = 0 /\ clock[t] \in Nat
  BY <1>1, <1>2, TimerAssumption DEF TypeOK
<1>4. \A t \in Timer : IsInjective(queue'[t]) /\ ToSet(queue'[t]) = {}
  BY <1>3, EmptyList
<1>5. TypeOK'
  BY <1>1, <1>2, EmptyList, LongestType, TimerAssumption DEF TypeOK
<1>6. Exclusive'
  <2>1. IsInjective(free') /\ ToSet(free') \subseteq ToSet(free)
    BY <1>1, <1>2 DEF Exclusive
  <2> QED BY <1>2, <1>4, <2>1, ExclusiveKept
<1>7. Near'
  BY <1>1, <1>2, <1>3, <1>4, LongestType DEF Near
<1>8. StackSound'
  <2>1. Len(stack') = 0
    BY <1>1, EmptyList
  <2> QED BY <2>1 DEF StackSound
<1> QED BY <1>5, <1>6, <1>7, <1>8 DEF IInv

(* The invariant holds at the start. *)
LEMMA InitSound == Init => IInv
<1> SUFFICES ASSUME Init
             PROVE  IInv
  OBVIOUS
<1>1. free \in Seq(Entry) /\ IsInjective(free)
  BY SetToSeqRange, TimerAssumption DEF Init
<1>2. \A t \in Timer : queue[t] = <<>> /\ ToSet(queue[t]) = {} /\ IsInjective(queue[t])
  BY EmptyList DEF Init
<1>3. TypeOK
  <2>1. 1 \in 1 .. MaxClock /\ 0 \in Times /\ <<>> \in Seq(Activation)
    BY LongestType, TimerAssumption
  <2> QED BY <1>1, <2>1, EmptyList DEF Init, TypeOK
<1>4. Exclusive
  <2>1. Queued = {}
    BY <1>2 DEF Queued
  <2> QED BY <1>1, <1>2, <2>1 DEF Exclusive
<1>5. Near
  BY <1>2, LongestType DEF Near, Init
<1>6. StackSound
  <2>1. Len(stack) = 0
    BY EmptyList DEF Init
  <2> QED BY <2>1 DEF StackSound
<1> QED BY <1>3, <1>4, <1>5, <1>6 DEF IInv

(* The invariant is about the variables only. *)
LEMMA UnchangedSound ==
    ASSUME IInv, UNCHANGED vars
    PROVE  IInv'
<1>1. UNCHANGED <<clock, deadline, pending, itv, queue, free, when, interval, stack>>
  BY DEF vars
<1>2. TypeOK' /\ Exclusive' /\ Near'
  BY <1>1 DEF IInv, TypeOK, Exclusive, Queued, Near
<1>3. StackSound'
  BY <1>1, ZenonT(60) DEF IInv, StackSound, PairSound, Holding, ActSound
<1> QED BY <1>2, <1>3 DEF IInv

(* The invariant is inductive. *)
LEMMA NextSound ==
    ASSUME IInv, [Next]_vars
    PROVE  IInv'
<1>1. ASSUME NEW t \in Timer, Tick(t) \/ Fire(t) \/ Deliver(t)
      PROVE  IInv'
  BY <1>1, TickSound, FireSound, DeliverSound
<1>2. ASSUME Step
      PROVE  IInv'
  <2>1. CASE HandleRepeating
    BY <2>1, HandleRepeatingSound
  <2>2. CASE HandleOnce
    BY <2>2, HandleOnceSound
  <2>3. CASE HandleNothing
    BY <2>3, HandleNothingSound
  <2>4. CASE LinkFree
    BY <2>4, LinkFreeSound
  <2>5. CASE Arm
    BY <2>5, ArmSound
  <2>6. CASE SetItimer
    BY <2>6, SetItimerSound
  <2>7. ASSUME NEW i \in Interval, NEW repeat \in BOOLEAN, Take(i, repeat)
        PROVE  IInv'
    BY <2>7, TakeSound
  <2>8. CASE Unlink
    BY <2>8, UnlinkSound
  <2> QED BY <1>2, <2>1, <2>2, <2>3, <2>4, <2>5, <2>6, <2>7, <2>8 DEF Step
<1>3. ASSUME NEW t \in Timer, CallSet(t) \/ \E e \in Entry : CallCancel(t, e)
      PROVE  IInv'
  BY <1>3, CallSetSound, CallCancelSound
<1>4. CASE ForkChild
  BY <1>4, ForkChildSound
<1>5. CASE UNCHANGED vars
  BY <1>5, UnchangedSound
<1> QED BY <1>1, <1>2, <1>3, <1>4, <1>5 DEF Next, Kernel, Program

(* The invariant always holds. *)
LEMMA Invariant == Spec => []IInv
<1>1. Init => IInv
  BY InitSound
<1>2. IInv /\ [Next]_vars => IInv'
  BY NextSound
<1> QED BY <1>1, <1>2, PTL DEF Spec

(* An entry is on one list at a time, once, and the fields of every entry  *)
(* and activation are what they should be, whichever signals interrupt     *)
(* whichever calls: with two lists sharing an entry a timer would be       *)
(* handled twice or freed while it waits.                                  *)
THEOREM EntriesAreSound == Spec => []EntriesSound
<1>1. IInv => EntriesSound
  BY DEF IInv, EntriesSound
<1> QED BY <1>1, Invariant, PTL

(* No handler runs before the interval it was set for has passed. *)
THEOREM NeverTooEarly == Spec => []NeverEarly
<1>1. IInv => NeverEarly
  <2> SUFFICES ASSUME IInv
               PROVE  NeverEarly
    OBVIOUS
  <2>1. stack \in Seq(Activation) /\ StackSound
    BY DEF IInv, TypeOK
  <2>2. \A i \in DOMAIN stack : i \in 1 .. Len(stack) /\ ActSound(stack[i], i)
    BY <2>1, LenProperties DEF StackSound
  <2> QED BY <2>2 DEF NeverEarly, ActSound
<1> QED BY <1>1, Invariant, PTL

-----------------------------------------------------------------------------
(* The order of the queues. *)

(* The order of the queues, in terms of one queue. *)
LEMMA SortedQueues == SoonestFirst <=> \A t \in Timer : Sorted(queue[t], when)
BY DEF SoonestFirst, Sorted

(* What follows the first entry is in order. *)
LEMMA TailSorted ==
    ASSUME NEW q \in Seq(Entry), q # <<>>, NEW v, Sorted(q, v)
    PROVE  Sorted(Tail(q), v)
<1>1. /\ Tail(q) \in Seq(Entry) /\ Len(Tail(q)) = Len(q) - 1 /\ Len(q) \in Nat \ {0}
      /\ \A i \in 1 .. Len(q) - 1 : Tail(q)[i] = q[i + 1]
  BY HeadAndTail
<1>2. DOMAIN q = 1 .. Len(q) /\ DOMAIN Tail(q) = 1 .. Len(q) - 1
  BY <1>1, LenProperties
<1>3. ASSUME NEW i \in 1 .. Len(q) - 1, NEW j \in 1 .. Len(q) - 1, i < j
      PROVE  v[Tail(q)[i]] <= v[Tail(q)[j]]
  <2>1. i + 1 \in 1 .. Len(q) /\ j + 1 \in 1 .. Len(q) /\ i + 1 < j + 1
    BY <1>1, <1>3
  <2> QED BY <1>1, <1>2, <2>1 DEF Sorted
<1> QED BY <1>2, <1>3 DEF Sorted

(* A queue without one of its entries is in order. *)
LEMMA UnlinkedSorted ==
    ASSUME NEW q \in Seq(Entry), NEW e \in ToSet(q), NEW v, Sorted(q, v)
    PROVE  Sorted(Unlinked(q, e), v)
<1> DEFINE k == CHOOSE n \in DOMAIN q : q[n] = e
           r == RemoveAt(q, k)
<1>1. k \in 1 .. Len(q)
  BY PlaceOf
<1>2. Unlinked(q, e) = r
  BY DEF Unlinked
<1> HIDE DEF k
<1>3. /\ r \in Seq(Entry) /\ Len(r) = Len(q) - 1 /\ Len(q) \in Nat
      /\ \A i \in 1 .. Len(q) - 1 : r[i] = IF i < k THEN q[i] ELSE q[i + 1]
  BY <1>1, RemoveAtProperties, LenProperties
<1> HIDE DEF r
<1>4. DOMAIN q = 1 .. Len(q) /\ DOMAIN r = 1 .. Len(q) - 1
  BY <1>3, LenProperties
<1>5. ASSUME NEW i \in 1 .. Len(q) - 1, NEW j \in 1 .. Len(q) - 1, i < j
      PROVE  v[r[i]] <= v[r[j]]
  <2>1. PICK m \in 1 .. Len(q) : m = IF i < k THEN i ELSE i + 1
    BY <1>3
  <2>2. PICK n \in 1 .. Len(q) : n = IF j < k THEN j ELSE j + 1
    BY <1>3
  <2>3. m < n
    BY <1>1, <1>3, <1>5, <2>1, <2>2
  <2>4. r[i] = q[m] /\ r[j] = q[n]
    BY <1>3, <2>1, <2>2
  <2> QED BY <1>4, <2>3, <2>4 DEF Sorted
<1> QED BY <1>2, <1>4, <1>5 DEF Sorted

(* The entry put into a queue is on none, so no other entry's time changes.  *)
LEMMA InsertKeepsOrder ==
    ASSUME TypeOK, NEW t \in Timer, NEW q \in Seq(Entry), NEW e \in Entry, NEW w \in Nat,
           \A u \in Timer : Sorted(queue[u], when), Sorted(q, when),
           e \notin ToSet(q), \A u \in Timer \ {t} : e \notin ToSet(queue[u]),
           when' = [when EXCEPT ![e] = w],
           queue' = [queue EXCEPT ![t] = Insert(q, e, w)]
    PROVE  \A u \in Timer : Sorted(queue'[u], when')
<1>1. PICK v : v = when'
  OBVIOUS
<1>2. v[e] = w /\ \A x \in Entry : x # e => v[x] = when[x]
  BY <1>1 DEF TypeOK
<1>3. when \in [Entry -> Nat]
  BY EntryTypes DEF TypeOK
<1>4. \A i \in 1 .. Len(q) : v[q[i]] = when[q[i]]
  BY <1>2, Elements
<1>5. Sorted(Insert(q, e, w), v)
  BY <1>2, <1>3, <1>4, InsertSorted
<1>6. PICK r : r = Insert(q, e, w)
  OBVIOUS
<1>7. \A u \in Timer : queue'[u] = IF u = t THEN r ELSE queue[u]
  BY <1>6 DEF TypeOK
<1>8. ASSUME NEW u \in Timer, u # t
      PROVE  Sorted(queue[u], v)
  <2>1. queue[u] \in Seq(Entry)
    BY DEF TypeOK
  <2>2. DOMAIN queue[u] = 1 .. Len(queue[u])
    BY <2>1, Elements
  <2>3. \A i \in DOMAIN queue[u] : queue[u][i] \in Entry /\ queue[u][i] # e
    BY <1>8, <2>1, <2>2, Elements
  <2>4. Sorted(queue[u], when)
    OBVIOUS
  <2> QED BY <1>2, <2>3, <2>4 DEF Sorted
<1> QED BY <1>1, <1>5, <1>6, <1>7, <1>8

(* Every step keeps the queues in order. *)
LEMMA OrderKept ==
    ASSUME IInv, SoonestFirst, [Next]_vars
    PROVE  SoonestFirst'
<1>1. TypeOK /\ Exclusive /\ \A t \in Timer : Sorted(queue[t], when)
  BY SortedQueues DEF IInv
<1>2. SUFFICES \A t \in Timer : Sorted(queue'[t], when')
  BY DEF SoonestFirst, Sorted
<1>3. CASE UNCHANGED <<queue, when>>
  BY <1>1, <1>3
<1>4. CASE HandleRepeating
  <2>1. stack # <<>> /\ Expired(Top.t)
    BY <1>4 DEF HandleRepeating, At
  <2>2. PICK t \in Timer : t = Top.t
    BY <2>1, TopSound DEF Activation
  <2>3. PICK e \in Entry : e = Head(queue[t])
    BY <2>1, <2>2, ExpiredHead
  <2>4. PICK w \in Nat : w = when[e] + interval[e]
    BY <1>1, EntryTypes
  <2>5. /\ when' = [when EXCEPT ![e] = w]
        /\ queue' = [queue EXCEPT ![t] = Insert(Tail(queue[t]), e, w)]
    BY <1>4, <2>2, <2>3, <2>4 DEF HandleRepeating
  <2>6. /\ queue[t] \in Seq(Entry) /\ queue[t] # <<>> /\ Tail(queue[t]) \in Seq(Entry)
        /\ e \notin ToSet(Tail(queue[t])) /\ e \in ToSet(queue[t])
    BY <1>1, <2>1, <2>2, <2>3, ExpiredHead, HeadAndTail DEF Exclusive
  <2>7. Sorted(Tail(queue[t]), when)
    BY <1>1, <2>6, TailSorted
  <2>8. \A u \in Timer \ {t} : e \notin ToSet(queue[u])
    BY <1>1, <2>6 DEF Exclusive
  <2> QED BY <1>1, <2>5, <2>6, <2>7, <2>8, InsertKeepsOrder
<1>5. CASE HandleOnce
  <2>1. stack # <<>> /\ Expired(Top.t) /\ when' = when
    BY <1>5 DEF HandleOnce, At
  <2>2. PICK t \in Timer : t = Top.t
    BY <2>1, TopSound DEF Activation
  <2>3. queue' = [queue EXCEPT ![t] = Tail(queue[t])]
    BY <1>5, <2>2 DEF HandleOnce
  <2>4. Sorted(Tail(queue[t]), when)
    BY <1>1, <2>1, <2>2, ExpiredHead, TailSorted
  <2> QED BY <1>1, <2>1, <2>3, <2>4 DEF TypeOK
<1>6. ASSUME NEW i \in Interval, NEW repeat \in BOOLEAN, Take(i, repeat)
      PROVE  \A t \in Timer : Sorted(queue'[t], when')
  <2>1. stack # <<>> /\ Top.pc = "take"
    BY <1>6 DEF Take, At
  <2>2. Top \in Activation /\ Top.e \in ToSet(free)
    BY <2>1, TopSound DEF ActSound
  <2>3. PICK t \in Timer, e \in Entry : t = Top.t /\ e = Top.e
    BY <1>1, <2>2, Elements DEF Activation, TypeOK
  <2>4. PICK w \in Nat : w = IF i = 0 THEN 0 ELSE clock[t] + i
    BY <1>1, LongestType, TimerAssumption DEF TypeOK
  <2>5. /\ when' = [when EXCEPT ![e] = w]
        /\ queue' = [queue EXCEPT ![t] = Insert(queue[t], e, w)]
    BY <1>6, <2>3, <2>4 DEF Take
  <2>6. \A u \in Timer : e \notin ToSet(queue[u]) /\ queue[u] \in Seq(Entry)
    BY <1>1, <2>2, <2>3 DEF Exclusive, Queued, TypeOK
  <2> QED BY <1>1, <2>5, <2>6, InsertKeepsOrder
<1>7. ASSUME NEW t \in Timer, NEW e \in Entry, CallCancel(t, e)
      PROVE  \A u \in Timer : Sorted(queue'[u], when')
  <2>1. /\ e \in ToSet(queue[t]) /\ when' = when
        /\ queue' = [queue EXCEPT ![t] = Unlinked(queue[t], e)]
    BY <1>7 DEF CallCancel
  <2>2. Sorted(Unlinked(queue[t], e), when)
    BY <1>1, <2>1, UnlinkedSorted DEF TypeOK
  <2> QED BY <1>1, <2>1, <2>2 DEF TypeOK
<1>8. CASE ForkChild
  <2>1. \A t \in Timer : queue'[t] = <<>>
    BY <1>8 DEF ForkChild
  <2> QED BY <2>1 DEF Sorted
<1>9. Next \/ UNCHANGED vars
  OBVIOUS
<1>10. UNCHANGED vars => UNCHANGED <<queue, when>>
  BY DEF vars
<1>11. ASSUME NEW t \in Timer, Tick(t) \/ Fire(t) \/ Deliver(t) \/ CallSet(t)
       PROVE  UNCHANGED <<queue, when>>
  BY <1>11 DEF Tick, Fire, Deliver, CallSet, entries
<1>12. HandleNothing \/ LinkFree \/ Arm \/ SetItimer \/ Unlink => UNCHANGED <<queue, when>>
  BY DEF HandleNothing, LinkFree, Arm, SetItimer, Unlink, entries
<1> QED BY <1>3, <1>4, <1>5, <1>6, <1>7, <1>8, <1>9, <1>10, <1>11, <1>12
        DEF Next, Kernel, Step, Program

-----------------------------------------------------------------------------
(* One timer: an activation is never interrupted. *)

(* The only activation, replaced. *)
LEMMA TopMoved ==
    ASSUME stack \in Seq(Activation), stack # <<>>, Len(stack) <= 1, NEW a \in Activation,
           stack' = [stack EXCEPT ![Depth] = a]
    PROVE  stack' # <<>> /\ Top' = a /\ Len(stack') <= 1
<1>1. stack' # <<>> /\ Len(stack') = Len(stack) /\ stack'[Len(stack)] = a
  BY ReplacedShape
<1> QED BY <1>1 DEF Top, Depth

(* The only activation, returned from. *)
LEMMA TopPopped ==
    ASSUME stack \in Seq(Activation), stack # <<>>, Len(stack) <= 1, stack' = Popped
    PROVE  stack' = <<>> /\ Len(stack') <= 1
<1>1. Len(stack) \in 1 .. Len(stack) /\ Len(stack) \in Nat
  BY TopType DEF Depth
<1>2. stack' \in Seq(Activation) /\ Len(stack') = Len(stack) - 1
  BY PoppedShape
<1>3. Len(stack') = 0
  BY <1>1, <1>2
<1> QED BY <1>2, <1>3, EmptySeq

(* The only activation, called. *)
LEMMA TopPushed ==
    ASSUME NEW a \in Activation, stack' = <<a>>
    PROVE  stack' # <<>> /\ Top' = a /\ Len(stack') <= 1
<1>1. Len(<<a>>) = 1 /\ <<a>>[1] = a /\ <<a>> # <<>>
  OBVIOUS
<1> QED BY <1>1 DEF Top, Depth

(* An activation that is on its way to setting the timer, or will be.        *)
LEMMA OnItsWay ==
    ASSUME stack' # <<>>, Top'.pc \in {"handling", "link", "arm"}
    PROVE  Arming' /\ ~At("take")'
BY DEF Arming, Undisturbed, At

(* Nothing on the lists has moved. *)
LEMMA ListsStay ==
    ASSUME Lists, UNCHANGED <<queue, free>>, Len(stack') <= 1,
           stack # <<>> => ~Holding(Top), stack' # <<>> => ~Holding(Top'), ~At("take")'
    PROVE  Lists'
BY DEF Lists

(* With one timer nothing is lost and what waits is armed: kept by the     *)
(* passing of time, ...                                                    *)
LEMMA TickArmed ==
    ASSUME IInv, Lists, Arming, OneTimer, NEW t \in Timer, Tick(t)
    PROVE  Lists' /\ Arming'
<1>1. /\ UNCHANGED <<deadline, pending, itv, queue, free, when, interval, stack>>
      /\ \A i \in DOMAIN stack : stack[i].pc = "setitimer" => stack[i].t # t
  BY DEF Tick, entries
<1>2. ~At("setitimer")
  <2> SUFFICES ASSUME At("setitimer")
               PROVE  FALSE
    OBVIOUS
  <2>1. stack # <<>> /\ Top.pc = "setitimer" /\ stack \in Seq(Activation)
    BY DEF At, IInv, TypeOK
  <2>2. Depth \in DOMAIN stack /\ Top \in Activation /\ Top = stack[Depth]
    BY <2>1, TopType, LenProperties DEF Top
  <2>3. Top.t \in Timer /\ Top.t # t
    BY <1>1, <2>1, <2>2 DEF Activation
  <2> QED BY <2>3 DEF OneTimer
<1>3. Top' = Top /\ (At("take")' <=> At("take")) /\ ~At("setitimer")'
  BY <1>1, <1>2 DEF At, Top, Depth
<1>4. Lists'
  BY <1>1, <1>3 DEF Lists, Holding
<1>5. Undisturbed' => Undisturbed
  BY <1>1 DEF Undisturbed, At, Top, Depth
<1>6. Arming'
  BY <1>1, <1>3, <1>5 DEF Arming, Armed
<1> QED BY <1>4, <1>6

(* ... by the expiry of the timer, ... *)
LEMMA FireArmed ==
    ASSUME IInv, Lists, Arming, OneTimer, NEW t \in Timer, Fire(t)
    PROVE  Lists' /\ Arming'
<1>1. /\ UNCHANGED <<clock, itv, queue, free, when, interval, stack>>
      /\ pending' = pending \cup {t}
  BY DEF Fire, entries
<1>2. \A u \in Timer : u \in pending'
  BY <1>1 DEF OneTimer
<1>3. Top' = Top /\ (At("take")' <=> At("take"))
  BY <1>1 DEF At, Top, Depth
<1>4. Lists'
  BY <1>1, <1>3 DEF Lists, Holding
<1>5. Arming'
  BY <1>2 DEF Arming, Armed
<1> QED BY <1>4, <1>5

(* ... by the delivery of its signal, ... *)
LEMMA DeliverArmed ==
    ASSUME IInv, Lists, OneTimer, NEW t \in Timer, Deliver(t)
    PROVE  Lists' /\ Arming'
<1>1. /\ t \notin Masked /\ UNCHANGED <<queue, free>>
      /\ stack' = Append(stack, Act("timer_handler", t, "handling", NoEntry))
  BY DEF Deliver, entries
<1>2. stack = <<>>
  <2> SUFFICES ASSUME stack # <<>>
               PROVE  FALSE
    OBVIOUS
  <2>1. stack \in Seq(Activation)
    BY DEF IInv, TypeOK
  <2>2. Depth \in DOMAIN stack /\ Top \in Activation /\ Top = stack[Depth]
    BY <2>1, TopType, LenProperties DEF Top
  <2>3. Top.t \in Timer /\ Top.t \in Masked
    BY <2>2 DEF Activation, Masked
  <2> QED BY <1>1, <2>3 DEF OneTimer
<1>3. PICK a \in Activation : a = Act("timer_handler", t, "handling", NoEntry)
  <2>1. "handling" \in Pcs /\ NoEntry \in Entry \cup {NoEntry}
        /\ "timer_handler" \in {"pop_timer", "timer_handler"}
    BY DEF Pcs
  <2>2. Act("timer_handler", t, "handling", NoEntry) \in Activation
    BY <2>1, ActType
  <2> QED BY <2>2
<1>4. a.pc = "handling"
  BY <1>3 DEF Act
<1>5. stack' = <<a>>
  <2>1. Append(<<>>, a) = <<a>>
    OBVIOUS
  <2> QED BY <1>1, <1>2, <1>3, <2>1
<1>6. stack' # <<>> /\ Top' = a /\ Len(stack') <= 1
  BY <1>5, TopPushed
<1>7. Arming' /\ ~At("take")'
  BY <1>4, <1>6, OnItsWay
<1>8. Lists'
  BY <1>1, <1>2, <1>4, <1>6, <1>7, ListsStay DEF Holding
<1> QED BY <1>7, <1>8

(* ... by handling a repeating entry, ... *)
LEMMA HandleRepeatingArmed ==
    ASSUME IInv, Lists, HandleRepeating
    PROVE  Lists' /\ Arming'
<1>1. /\ stack # <<>> /\ Top.pc = "handling" /\ Expired(Top.t) /\ free' = free
  BY DEF HandleRepeating, At
<1>2. TypeOK /\ Exclusive /\ stack \in Seq(Activation) /\ Len(stack) <= 1
  BY DEF IInv, TypeOK, Lists
<1>3. PICK t \in Timer : t = Top.t
  BY <1>1, TopSound DEF Activation
<1>4. PICK e \in Entry : e = Head(queue[t])
  BY <1>1, <1>3, ExpiredHead
<1>5. PICK w \in Nat : w = when[e] + interval[e]
  BY <1>2, EntryTypes
<1>6. /\ queue' = [queue EXCEPT ![t] = Insert(Tail(queue[t]), e, w)]
      /\ stack' = Taking("arm", e)
  BY <1>3, <1>4, <1>5 DEF HandleRepeating, Taking
<1>7. PICK a \in Activation : a.pc = "arm" /\ stack' = [stack EXCEPT ![Depth] = a]
  <2> "arm" \in Pcs
    BY DEF Pcs
  <2> QED BY <1>1, <1>2, <1>6, MovedWith
<1>8. stack' # <<>> /\ Top' = a /\ Len(stack') <= 1
  BY <1>1, <1>2, <1>7, TopMoved
<1>9. Arming' /\ ~At("take")'
  BY <1>7, <1>8, OnItsWay
<1>10. /\ queue[t] \in Seq(Entry) /\ Tail(queue[t]) \in Seq(Entry)
       /\ ToSet(queue[t]) = {e} \cup ToSet(Tail(queue[t]))
  BY <1>1, <1>3, <1>4, ExpiredHead, HeadAndTail
<1>11. PICK q : q = Insert(Tail(queue[t]), e, w)
  OBVIOUS
<1>12. ToSet(q) = ToSet(queue[t])
  <2>1. ToSet(Insert(Tail(queue[t]), e, w)) = ToSet(Tail(queue[t])) \cup {e}
    BY <1>10, InsertSound
  <2> QED BY <1>10, <1>11, <2>1
<1>13. \A u \in Timer : ToSet(queue'[u]) = ToSet(queue[u])
  BY <1>2, <1>6, <1>11, <1>12 DEF TypeOK
<1>14. Lists'
  BY <1>1, <1>7, <1>8, <1>9, <1>13 DEF Lists, Holding
<1> QED BY <1>9, <1>14

(* ... or one that is not, ... *)
LEMMA HandleOnceArmed ==
    ASSUME IInv, Lists, HandleOnce
    PROVE  Lists' /\ Arming'
<1>1. /\ stack # <<>> /\ Top.pc = "handling" /\ Expired(Top.t) /\ free' = free
  BY DEF HandleOnce, At
<1>2. TypeOK /\ stack \in Seq(Activation) /\ Len(stack) <= 1
  BY DEF IInv, TypeOK, Lists
<1>3. PICK t \in Timer : t = Top.t
  BY <1>1, TopSound DEF Activation
<1>4. PICK e \in Entry : e = Head(queue[t])
  BY <1>1, <1>3, ExpiredHead
<1>5. PICK c \in Seq(Entry) : c = free
  BY <1>2 DEF TypeOK
<1>6. /\ queue' = [queue EXCEPT ![t] = Tail(queue[t])]
      /\ stack' = Linking("link", e, c)
  BY <1>3, <1>4, <1>5 DEF HandleOnce, Linking
<1>7. PICK a \in Activation :
         a.pc = "link" /\ a.e = e /\ a.chain = c /\ stack' = [stack EXCEPT ![Depth] = a]
  <2>1. "link" \in Pcs
    BY DEF Pcs
  <2>2. \E a \in Activation :
           /\ a.fn = Top.fn /\ a.t = Top.t /\ a.pc = "link" /\ a.e = e /\ a.chain = c
           /\ Linking("link", e, c) = [stack EXCEPT ![Depth] = a]
    BY <1>1, <1>2, <2>1, MovedLinking
  <2> QED BY <1>6, <2>2
<1>8. stack' # <<>> /\ Top' = a /\ Len(stack') <= 1
  BY <1>1, <1>2, <1>7, TopMoved
<1>9. Arming' /\ ~At("take")'
  BY <1>7, <1>8, OnItsWay
<1>10. ToSet(queue[t]) = {e} \cup ToSet(Tail(queue[t]))
  BY <1>1, <1>3, <1>4, ExpiredHead, HeadAndTail
<1>11. /\ ToSet(queue[t]) = {e} \cup ToSet(queue'[t])
       /\ \A u \in Timer : u # t => queue'[u] = queue[u]
  BY <1>2, <1>6, <1>10 DEF TypeOK
<1>12. Holding(Top') /\ Top'.e = e /\ Top'.chain = free' /\ ~Holding(Top)
  BY <1>1, <1>5, <1>7, <1>8 DEF Holding
<1>13. ASSUME NEW x \in Entry, x \notin ToSet(free'), x # e
       PROVE  \E u \in Timer : x \in ToSet(queue'[u])
  <2>1. PICK u \in Timer : x \in ToSet(queue[u])
    BY <1>1, <1>12, <1>13 DEF Lists
  <2> QED BY <1>11, <1>13, <2>1
<1>14. Lists'
  BY <1>8, <1>9, <1>12, <1>13 DEF Lists
<1> QED BY <1>9, <1>14

(* ... by a signal that finds nothing due, ... *)
LEMMA HandleNothingArmed ==
    ASSUME IInv, Lists, HandleNothing
    PROVE  Lists' /\ Arming'
<1>1. /\ stack # <<>> /\ Top.pc = "handling" /\ stack' = Goto("arm") /\ UNCHANGED <<queue, free>>
  BY DEF HandleNothing, At, entries
<1>2. stack \in Seq(Activation) /\ Len(stack) <= 1
  BY DEF IInv, TypeOK, Lists
<1>3. PICK a \in Activation : a.pc = "arm" /\ stack' = [stack EXCEPT ![Depth] = a]
  <2> "arm" \in Pcs
    BY DEF Pcs
  <2> QED BY <1>1, <1>2, Moved
<1>4. stack' # <<>> /\ Top' = a /\ Len(stack') <= 1
  BY <1>1, <1>2, <1>3, TopMoved
<1>5. Arming' /\ ~At("take")'
  BY <1>3, <1>4, OnItsWay
<1>6. Lists'
  BY <1>1, <1>3, <1>4, <1>5, ListsStay DEF Holding
<1> QED BY <1>5, <1>6

(* ... by linking a handled entry to the free list, ... *)
LEMMA LinkFreeArmed ==
    ASSUME IInv, Lists, LinkFree
    PROVE  Lists' /\ Arming'
<1>1. /\ stack # <<>> /\ Top.pc = "link" /\ stack' = Goto("arm")
      /\ free' = <<Top.e>> \o Top.chain /\ queue' = queue
  BY DEF LinkFree, At
<1>2. TypeOK /\ stack \in Seq(Activation) /\ Len(stack) <= 1
  BY DEF IInv, TypeOK, Lists
<1>3. PICK a \in Activation : a.pc = "arm" /\ stack' = [stack EXCEPT ![Depth] = a]
  <2> "arm" \in Pcs
    BY DEF Pcs
  <2> QED BY <1>1, <1>2, Moved
<1>4. stack' # <<>> /\ Top' = a /\ Len(stack') <= 1
  BY <1>1, <1>2, <1>3, TopMoved
<1>5. Arming' /\ ~At("take")'
  BY <1>3, <1>4, OnItsWay
<1>6. Holding(Top) /\ Top.chain = free /\ ~Holding(Top')
  BY <1>1, <1>3, <1>4 DEF Lists, Holding
<1>7. PICK e \in Entry : e = Top.e
  BY <1>1, <1>6, TopSound DEF ActSound
<1>8. ToSet(free') = {e} \cup ToSet(free)
  <2>1. free \in Seq(Entry) /\ free' = <<e>> \o free
    BY <1>1, <1>2, <1>6, <1>7 DEF TypeOK
  <2>2. ToSet(<<e>> \o free) = {e} \cup ToSet(free)
    BY <2>1, ConsDistinct
  <2> QED BY <2>1, <2>2
<1>9. Lists'
  BY <1>1, <1>4, <1>5, <1>6, <1>7, <1>8 DEF Lists
<1> QED BY <1>5, <1>9

(* ... by working out the interval, ... *)
LEMMA ArmArmed ==
    ASSUME IInv, Lists, OneTimer, Arm
    PROVE  Lists' /\ Arming'
<1>1. /\ stack # <<>> /\ Top.pc = "arm" /\ stack' = Goto("setitimer")
      /\ itv' = IF queue[Top.t] = <<>> \/ Expired(Top.t)
                THEN 0 ELSE when[Head(queue[Top.t])] - clock[Top.t]
      /\ pending' = IF Expired(Top.t) THEN pending \cup {Top.t} ELSE pending
      /\ UNCHANGED <<clock, deadline, queue, free, when, interval>>
  BY DEF Arm, At, entries
<1>2. TypeOK /\ stack \in Seq(Activation) /\ Len(stack) <= 1
  BY DEF IInv, TypeOK, Lists
<1>3. PICK a \in Activation : a.pc = "setitimer" /\ stack' = [stack EXCEPT ![Depth] = a]
  <2> "setitimer" \in Pcs
    BY DEF Pcs
  <2> QED BY <1>1, <1>2, Moved
<1>4. stack' # <<>> /\ Top' = a /\ Len(stack') <= 1
  BY <1>1, <1>2, <1>3, TopMoved
<1>5. ~Undisturbed' /\ ~At("take")'
  BY <1>3, <1>4 DEF Undisturbed, At
<1>6. ASSUME NEW u \in Timer, queue'[u] # <<>>
      PROVE  u \in pending' \/ (itv' # 0 /\ clock'[u] + itv' = when'[Head(queue'[u])])
  <2>1. u = Top.t
    BY <1>1, TopSound DEF OneTimer, Activation
  <2>2. CASE Expired(u)
    BY <1>1, <2>1, <2>2
  <2>3. CASE ~Expired(u)
    <3>1. PICK h \in Entry : h = Head(queue[u])
      BY <1>1, <1>2, <1>6, HeadAndTail DEF TypeOK
    <3>2. when[h] \in Nat /\ clock[u] \in 1 .. MaxClock /\ MaxClock \in Nat
      BY <1>2, <3>1, EntryTypes DEF TypeOK
    <3>3. ~(when[h] <= clock[u])
      BY <1>1, <1>6, <2>3, <3>1 DEF Expired
    <3>4. itv' = when[h] - clock[u] /\ when'[Head(queue'[u])] = when[h] /\ clock'[u] = clock[u]
      BY <1>1, <1>6, <2>1, <2>3, <3>1
    <3> QED BY <3>2, <3>3, <3>4
  <2> QED BY <2>2, <2>3
<1>7. Arming'
  BY <1>5, <1>6 DEF Arming
<1>8. Lists'
  BY <1>1, <1>3, <1>4, <1>5, ListsStay DEF Holding
<1> QED BY <1>7, <1>8

(* ... by setting the timer, ... *)
LEMMA SetItimerArmed ==
    ASSUME IInv, Lists, Arming, OneTimer, SetItimer
    PROVE  Lists' /\ Arming'
<1>1. /\ stack # <<>> /\ Top.pc = "setitimer" /\ stack' = Popped /\ At("setitimer")
      /\ deadline' = [deadline EXCEPT ![Top.t] = IF itv = 0 THEN 0 ELSE clock[Top.t] + itv]
      /\ UNCHANGED <<clock, pending, itv, queue, free, when, interval>>
  BY DEF SetItimer, At, entries
<1>2. TypeOK /\ stack \in Seq(Activation) /\ Len(stack) <= 1
  BY DEF IInv, TypeOK, Lists
<1>3. stack' = <<>> /\ Len(stack') <= 1
  BY <1>1, <1>2, TopPopped
<1>4. ~At("take")' /\ ~At("setitimer")'
  BY <1>3 DEF At
<1>5. ASSUME NEW u \in Timer, queue'[u] # <<>>, u \notin pending'
      PROVE  deadline'[u] = when'[Head(queue'[u])]
  <2>1. u = Top.t
    BY <1>1, TopSound DEF OneTimer, Activation
  <2>2. itv # 0 /\ clock[u] + itv = when[Head(queue[u])]
    BY <1>1, <1>5 DEF Arming
  <2>3. deadline'[u] = clock[u] + itv
    BY <1>1, <1>2, <2>1, <2>2 DEF TypeOK
  <2> QED BY <1>1, <2>2, <2>3
<1>6. Arming'
  BY <1>4, <1>5 DEF Arming, Armed
<1>7. Lists'
  BY <1>1, <1>3, <1>4, ListsStay DEF Holding
<1> QED BY <1>6, <1>7

(* ... by a call that sets a timer, ... *)
LEMMA CallSetArmed ==
    ASSUME IInv, Lists, Arming, NEW t \in Timer, CallSet(t)
    PROVE  Lists' /\ Arming'
<1>1. /\ stack = <<>> /\ free # <<>> /\ stack' = <<Act("pop_timer", t, "take", Head(free))>>
      /\ UNCHANGED <<clock, deadline, pending, itv, queue, free, when, interval>>
  BY DEF CallSet, kernel, entries
<1>2. Head(free) \in Entry
  BY <1>1, HeadAndTail DEF IInv, TypeOK
<1>3. PICK a \in Activation : a = Act("pop_timer", t, "take", Head(free))
  <2>1. "take" \in Pcs /\ "pop_timer" \in {"pop_timer", "timer_handler"}
    BY DEF Pcs
  <2> QED BY <1>2, <2>1, ActType
<1>4. a.pc = "take" /\ a.e = Head(free)
  BY <1>3 DEF Act
<1>5. stack' # <<>> /\ Top' = a /\ Len(stack') <= 1
  BY <1>1, <1>3, TopPushed
<1>6. ~At("setitimer")' /\ ~Holding(Top') /\ Undisturbed
  BY <1>1, <1>4, <1>5 DEF At, Holding, Undisturbed
<1>7. Arming'
  BY <1>1, <1>6 DEF Arming, Armed
<1>8. Lists'
  BY <1>1, <1>4, <1>5, <1>6 DEF Lists
<1> QED BY <1>7, <1>8

(* A timer whose queue has kept its head is armed as before.                 *)
LEMMA HeadKept ==
    ASSUME NEW t \in Timer, Armed(t), ~HeadChanged(queue[t], queue'[t]),
           queue[t] # <<>> => when'[Head(queue[t])] = when[Head(queue[t])],
           pending' = pending, deadline' = deadline
    PROVE  Armed(t)'
BY DEF Armed, HeadChanged

(* ... by taking and queueing its entry, ... *)
LEMMA TakeArmed ==
    ASSUME IInv, Lists, Arming, OneTimer, NEW i \in Interval, NEW repeat \in BOOLEAN,
           Take(i, repeat)
    PROVE  Lists' /\ Arming'
<1> DEFINE k == CHOOSE n \in DOMAIN free : free[n] = Top.e
<1>1. /\ stack # <<>> /\ Top.pc = "take" /\ At("take")
      /\ UNCHANGED <<clock, deadline, pending, itv>>
  BY DEF Take, At, kernel
<1>2. TypeOK /\ Exclusive /\ stack \in Seq(Activation) /\ Len(stack) <= 1 /\ free \in Seq(Entry)
  BY DEF IInv, TypeOK, Lists
<1>3. PICK t \in Timer : t = Top.t
  BY <1>1, TopSound DEF Activation
<1>4. free # <<>> /\ Top.e = Head(free)
  BY <1>1 DEF Lists
<1>5. PICK e \in Entry : e = Top.e /\ e = Head(free) /\ free[1] = e /\ e \in ToSet(free)
  BY <1>2, <1>4, HeadAndTail
<1>6. k = 1 /\ 1 \in 1 .. Len(free)
  <2>1. k \in 1 .. Len(free) /\ free[k] = e
    BY <1>2, <1>5, PlaceOf
  <2>2. 1 \in 1 .. Len(free)
    BY <1>2, <1>4, HeadAndTail
  <2> HIDE DEF k
  <2> QED BY <1>2, <1>5, <2>1, <2>2, Elements DEF Exclusive
<1>7. PICK f : f = SubSeq(free, 1 + 1, Len(free))
  OBVIOUS
<1>8. ToSet(free) = {e} \cup ToSet(f)
  BY <1>2, <1>5, <1>6, <1>7, SuffixProperties
<1>9. PICK w \in Nat : w = IF i = 0 THEN 0 ELSE clock[t] + i
  BY <1>2, LongestType, TimerAssumption DEF TypeOK
<1>10. queue[t] \in Seq(Entry) /\ \A u \in Timer : e \notin ToSet(queue[u])
  BY <1>2, <1>5 DEF TypeOK, Exclusive, Queued
<1>11. PICK q : q = Insert(queue[t], e, w)
  OBVIOUS
<1>12. ToSet(q) = ToSet(queue[t]) \cup {e}
  BY <1>10, <1>11, InsertSound
<1>13. /\ free' = f
       /\ when' = [when EXCEPT ![e] = w]
       /\ queue' = [queue EXCEPT ![t] = q]
       /\ stack' = IF HeadChanged(queue[t], q) THEN Goto("arm") ELSE Popped
  BY <1>3, <1>5, <1>6, <1>7, <1>9, <1>11 DEF Take
<1> HIDE DEF k
<1>14. queue'[t] = q /\ \A u \in Timer : u = t
  BY <1>2, <1>13 DEF TypeOK, OneTimer
<1>15. ~Holding(Top)
  BY <1>1 DEF Holding
<1>16. \A x \in Entry : x \in ToSet(free') \/ \E u \in Timer : x \in ToSet(queue'[u])
  <2>1. ASSUME NEW x \in Entry, x \notin ToSet(free')
        PROVE  x \in ToSet(queue'[t])
    <3>1. CASE x = e
      BY <1>12, <1>14, <3>1
    <3>2. CASE x # e
      <4>1. x \notin ToSet(free)
        BY <1>8, <1>13, <2>1, <3>2
      <4>2. \E u \in Timer : x \in ToSet(queue[u])
        BY <1>15, <4>1 DEF Lists
      <4> QED BY <1>12, <1>14, <4>2
    <3> QED BY <3>1, <3>2
  <2> QED BY <2>1
<1>17. CASE HeadChanged(queue[t], q)
  <2>1. PICK a \in Activation : a.pc = "arm" /\ stack' = [stack EXCEPT ![Depth] = a]
    <3> "arm" \in Pcs
      BY DEF Pcs
    <3> QED BY <1>1, <1>2, <1>13, <1>17, Moved
  <2>2. stack' # <<>> /\ Top' = a /\ Len(stack') <= 1
    BY <1>1, <1>2, <2>1, TopMoved
  <2>3. Arming' /\ ~At("take")'
    BY <2>1, <2>2, OnItsWay
  <2>4. Lists'
    BY <1>16, <2>1, <2>2, <2>3 DEF Lists, Holding
  <2> QED BY <2>3, <2>4
<1>18. CASE ~HeadChanged(queue[t], q)
  <2>1. stack' = <<>> /\ Len(stack') <= 1
    BY <1>1, <1>2, <1>13, <1>18, TopPopped
  <2>2. ~At("take")' /\ ~At("setitimer")'
    BY <2>1 DEF At
  <2>3. queue[t] # <<>> => when'[Head(queue[t])] = when[Head(queue[t])]
    <3>1. queue[t] # <<>> => Head(queue[t]) \in Entry /\ Head(queue[t]) # e
      BY <1>10, HeadAndTail
    <3> QED BY <1>2, <1>13, <3>1 DEF TypeOK
  <2>4. Armed(t)
    BY <1>1 DEF Arming, Undisturbed
  <2>5. Armed(t)'
    BY <1>1, <1>14, <1>18, <2>3, <2>4, HeadKept
  <2>6. Arming'
    BY <1>14, <2>2, <2>5 DEF Arming
  <2>7. Lists'
    BY <1>16, <2>1, <2>2 DEF Lists
  <2> QED BY <2>6, <2>7
<1> QED BY <1>17, <1>18

(* ... by a call that cancels one, ... *)
LEMMA CallCancelArmed ==
    ASSUME IInv, Lists, Arming, OneTimer, NEW t \in Timer, NEW e \in Entry, CallCancel(t, e)
    PROVE  Lists' /\ Arming'
<1>1. /\ stack = <<>> /\ e \in ToSet(queue[t])
      /\ queue' = [queue EXCEPT ![t] = Unlinked(queue[t], e)]
      /\ UNCHANGED <<clock, deadline, pending, itv, free, when, interval>>
  BY DEF CallCancel, kernel
<1>2. TypeOK /\ Exclusive
  BY DEF IInv
<1>3. ToSet(Unlinked(queue[t], e)) = ToSet(queue[t]) \ {e}
  BY <1>1, <1>2, UnlinkedProperties DEF TypeOK, Exclusive
<1>4. /\ queue'[t] = Unlinked(queue[t], e) /\ \A u \in Timer : u = t
  BY <1>1, <1>2 DEF TypeOK, OneTimer
<1>5. PICK a \in Activation :
         /\ a.pc = "unlink" /\ a.e = e /\ a.chain = free
         /\ a.arms = HeadChanged(queue[t], queue'[t])
         /\ stack' = <<a>>
  <2> DEFINE b == Act("pop_timer", t, "unlink", e)
             arms == HeadChanged(queue[t], queue'[t])
  <2>1. b \in Activation /\ b.pc = "unlink" /\ b.e = e
    <3>1. "unlink" \in Pcs /\ "pop_timer" \in {"pop_timer", "timer_handler"}
      BY DEF Pcs
    <3> QED BY <3>1, ActType DEF Act
  <2>2. arms \in BOOLEAN /\ free \in Seq(Entry)
    BY <1>2 DEF HeadChanged, TypeOK
  <2>3. stack' = <<[b EXCEPT !.chain = free, !.arms = arms]>>
    BY DEF CallCancel
  <2> HIDE DEF b
  <2>4. PICK m \in BOOLEAN : m = arms
    BY <2>2
  <2>5. PICK a : a = [b EXCEPT !.chain = free, !.arms = m]
    OBVIOUS
  <2>6. a \in Activation /\ a.pc = "unlink" /\ a.e = e /\ a.chain = free /\ a.arms = m
    BY <2>1, <2>2, <2>5 DEF Activation
  <2>7. stack' = <<a>>
    BY <2>3, <2>4, <2>5
  <2>8. a.arms = HeadChanged(queue[t], queue'[t])
    BY <2>4, <2>6
  <2> HIDE DEF arms
  <2> QED BY <2>6, <2>7, <2>8
<1>6. stack' # <<>> /\ Top' = a /\ Len(stack') <= 1
  BY <1>5, TopPushed
<1>7. ~At("setitimer")' /\ ~At("take")' /\ Holding(Top') /\ Top'.chain = free' /\ Top'.e = e
  BY <1>1, <1>5, <1>6 DEF At, Holding
<1>8. Lists'
  <2>1. ASSUME NEW x \in Entry, x \notin ToSet(free'), x # e
        PROVE  x \in ToSet(queue'[t])
    BY <1>1, <1>3, <1>4, <2>1 DEF Lists
  <2> QED BY <1>6, <1>7, <2>1 DEF Lists
<1>9. Arming'
  <2>1. ASSUME Undisturbed'
        PROVE  Armed(t)'
    <3>1. ~HeadChanged(queue[t], queue'[t])
      BY <1>5, <1>6, <1>7, <2>1 DEF Undisturbed, At
    <3>2. Armed(t)
      BY <1>1 DEF Arming, Undisturbed
    <3> QED BY <1>1, <3>1, <3>2, HeadKept
  <2> QED BY <1>4, <1>7, <2>1 DEF Arming
<1> QED BY <1>8, <1>9

(* ... and by linking the cancelled entry to the free list. *)
LEMMA UnlinkArmed ==
    ASSUME IInv, Lists, Arming, Unlink
    PROVE  Lists' /\ Arming'
<1>1. /\ stack # <<>> /\ Top.pc = "unlink" /\ free' = <<Top.e>> \o Top.chain
      /\ stack' = IF Top.arms THEN Goto("arm") ELSE Popped
      /\ UNCHANGED <<clock, deadline, pending, itv, queue, when, interval>>
  BY DEF Unlink, At, kernel
<1>2. TypeOK /\ stack \in Seq(Activation) /\ Len(stack) <= 1
  BY DEF IInv, TypeOK, Lists
<1>3. Holding(Top) /\ Top.chain = free
  BY <1>1 DEF Lists, Holding
<1>4. PICK e \in Entry : e = Top.e
  BY <1>1, <1>3, TopSound DEF ActSound
<1>5. ToSet(free') = {e} \cup ToSet(free)
  <2>1. free \in Seq(Entry) /\ free' = <<e>> \o free
    BY <1>1, <1>2, <1>3, <1>4 DEF TypeOK
  <2>2. ToSet(<<e>> \o free) = {e} \cup ToSet(free)
    BY <2>1, ConsDistinct
  <2> QED BY <2>1, <2>2
<1>6. \A x \in Entry : x \in ToSet(free') \/ \E t \in Timer : x \in ToSet(queue'[t])
  BY <1>1, <1>4, <1>5 DEF Lists
<1>7. CASE Top.arms
  <2>1. PICK a \in Activation : a.pc = "arm" /\ stack' = [stack EXCEPT ![Depth] = a]
    <3> "arm" \in Pcs
      BY DEF Pcs
    <3> QED BY <1>1, <1>2, <1>7, Moved
  <2>2. stack' # <<>> /\ Top' = a /\ Len(stack') <= 1
    BY <1>1, <1>2, <2>1, TopMoved
  <2>3. Arming' /\ ~At("take")'
    BY <2>1, <2>2, OnItsWay
  <2>4. Lists'
    BY <1>6, <2>1, <2>2, <2>3 DEF Lists, Holding
  <2> QED BY <2>3, <2>4
<1>8. CASE ~Top.arms
  <2>1. stack' = <<>> /\ Len(stack') <= 1
    BY <1>1, <1>2, <1>8, TopPopped
  <2>2. ~At("take")' /\ ~At("setitimer")'
    BY <2>1 DEF At
  <2>3. \A t \in Timer : Armed(t)
    BY <1>1, <1>8 DEF Arming, Undisturbed, At
  <2>4. Arming'
    BY <1>1, <2>2, <2>3 DEF Arming, Armed
  <2>5. Lists'
    BY <1>6, <2>1, <2>2 DEF Lists
  <2> QED BY <2>4, <2>5
<1> QED BY <1>7, <1>8

(* So every step keeps both, if no fork is made in the midst of a call. *)
LEMMA NextArmed ==
    ASSUME IInv, Lists, Arming, OneTimer, ~Forks, [Next]_vars
    PROVE  Lists' /\ Arming'
<1>1. ASSUME NEW t \in Timer, Tick(t) \/ Fire(t) \/ Deliver(t)
      PROVE  Lists' /\ Arming'
  BY <1>1, TickArmed, FireArmed, DeliverArmed
<1>2. ASSUME Step
      PROVE  Lists' /\ Arming'
  <2>1. CASE HandleRepeating
    BY <2>1, HandleRepeatingArmed
  <2>2. CASE HandleOnce
    BY <2>2, HandleOnceArmed
  <2>3. CASE HandleNothing
    BY <2>3, HandleNothingArmed
  <2>4. CASE LinkFree
    BY <2>4, LinkFreeArmed
  <2>5. CASE Arm
    BY <2>5, ArmArmed
  <2>6. CASE SetItimer
    BY <2>6, SetItimerArmed
  <2>7. ASSUME NEW i \in Interval, NEW repeat \in BOOLEAN, Take(i, repeat)
        PROVE  Lists' /\ Arming'
    BY <2>7, TakeArmed
  <2>8. CASE Unlink
    BY <2>8, UnlinkArmed
  <2> QED BY <1>2, <2>1, <2>2, <2>3, <2>4, <2>5, <2>6, <2>7, <2>8 DEF Step
<1>3. ASSUME NEW t \in Timer, CallSet(t) \/ \E e \in Entry : CallCancel(t, e)
      PROVE  Lists' /\ Arming'
  BY <1>3, CallSetArmed, CallCancelArmed
<1>4. ~ForkChild
  BY DEF ForkChild
<1>5. CASE UNCHANGED vars
  <2>1. UNCHANGED <<clock, deadline, pending, itv, queue, free, when, interval, stack>>
    BY <1>5 DEF vars
  <2>2. Lists'
    BY <2>1 DEF Lists, Holding, At, Top, Depth
  <2>3. Arming'
    BY <2>1 DEF Arming, Undisturbed, Armed, At, Top, Depth
  <2> QED BY <2>2, <2>3
<1> QED BY <1>1, <1>2, <1>3, <1>4, <1>5 DEF Next, Kernel, Program

(* They hold at the start. *)
LEMMA InitArmed == Init => SoonestFirst /\ Lists /\ Arming
<1> SUFFICES ASSUME Init
             PROVE  SoonestFirst /\ Lists /\ Arming
  OBVIOUS
<1>1. SoonestFirst
  BY DEF Init, SoonestFirst
<1>2. stack = <<>> /\ Len(stack) = 0 /\ ToSet(free) = Entry
  BY EmptyList, SetToSeqRange, TimerAssumption DEF Init
<1>3. Lists
  BY <1>2 DEF Lists, At
<1>4. Arming
  BY <1>2 DEF Init, Arming, Armed, At
<1> QED BY <1>1, <1>3, <1>4

(* The entries of a queue are in the order of the times they are due at,   *)
(* so that the first is the one to arm the timer for.                      *)
THEOREM QueuesInOrder == Spec => []SoonestFirst
<1>1. Init => SoonestFirst
  BY InitArmed
<1>2. IInv /\ SoonestFirst /\ [Next]_vars => SoonestFirst'
  BY OrderKept
<1> QED BY <1>1, <1>2, Invariant, PTL DEF Spec

(* With one timer the invariants say what the theorem says. *)
LEMMA OneMeansQueueSound ==
    ASSUME OneTimer, IInv, SoonestFirst, Lists, Arming
    PROVE  QueueSound
<1>1. WaitingIsArmed
  <2> SUFFICES ASSUME NEW t \in Timer \ Masked
               PROVE  Armed(t)
    BY DEF WaitingIsArmed, Armed
  <2>1. stack = <<>>
    <3> SUFFICES ASSUME stack # <<>>
                 PROVE  FALSE
      OBVIOUS
    <3>1. Depth \in DOMAIN stack /\ Top \in Activation /\ Top = stack[Depth]
      BY TopType, LenProperties DEF Top, IInv, TypeOK
    <3>2. Top.t \in Timer /\ Top.t \in Masked
      BY <3>1 DEF Activation, Masked
    <3> QED BY <3>2 DEF OneTimer
  <2> QED BY <2>1 DEF Arming, Undisturbed
<1>2. NoEntryLost
  <2> SUFFICES ASSUME stack = <<>>
               PROVE  Entry = ToSet(free) \cup Queued
    BY DEF NoEntryLost
  <2>1. Entry \subseteq ToSet(free) \cup Queued
    BY DEF Lists, Queued
  <2>2. ToSet(free) \subseteq Entry /\ \A t \in Timer : ToSet(queue[t]) \subseteq Entry
    BY Elements DEF IInv, TypeOK
  <2> QED BY <2>1, <2>2 DEF Queued
<1> QED BY <1>1, <1>2 DEF QueueSound

(* With one timer the queue is right: in order, with no entry lost, and    *)
(* whenever no call is under way the system has been asked for a signal in *)
(* time for the first entry, or one is pending.                            *)
THEOREM QueueIsSound ==
    ASSUME OneTimer, ~Forks
    PROVE  Spec => []QueueSound
<1>1. Init => Lists /\ Arming
  BY InitArmed
<1>2. IInv /\ Lists /\ Arming /\ [Next]_vars => Lists' /\ Arming'
  BY NextArmed
<1>3. IInv /\ SoonestFirst /\ Lists /\ Arming => QueueSound
  BY OneMeansQueueSound
<1> QED BY <1>1, <1>2, <1>3, Invariant, QueuesInOrder, PTL DEF Spec
=============================================================================
