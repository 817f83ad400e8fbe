--------------------------- MODULE SequenceLemmas ---------------------------
(***************************************************************************)
(* Lemmas about the operators on sequences that the models are written     *)
(* with, and the little induction over the natural numbers that the proofs *)
(* need. Induction is stated over sets, so that no lemma takes an operator *)
(* as a parameter.                                                         *)
(***************************************************************************)
EXTENDS SequencesExt, SequenceTheorems, FiniteSetTheorems, TLAPS

(* Removing the element at a position: type, length and elements. *)
LEMMA RemoveAtProperties ==
    ASSUME NEW S, NEW s \in Seq(S), NEW i \in 1 .. Len(s)
    PROVE  /\ RemoveAt(s, i) \in Seq(S)
           /\ Len(RemoveAt(s, i)) = Len(s) - 1
           /\ \A k \in 1 .. Len(s) - 1 : RemoveAt(s, i)[k] = IF k < i THEN s[k] ELSE s[k + 1]
<1> DEFINE u == SubSeq(s, 1, i - 1)
           v == SubSeq(s, i + 1, Len(s))
<1>. Len(s) \in Nat
  BY LenProperties
<1>1. u \in Seq(S) /\ Len(u) = i - 1 /\ \A k \in 1 .. i - 1 : u[k] = s[k]
  BY SubSeqProperties, ElementOfSeq
<1>2. v \in Seq(S) /\ Len(v) = Len(s) - i /\ \A k \in 1 .. Len(s) - i : v[k] = s[i + k]
  BY SubSeqProperties, ElementOfSeq
<1>3. RemoveAt(s, i) = u \o v
  BY DEF RemoveAt
<1> HIDE DEF u, v
<1>4. u \o v \in Seq(S) /\ Len(u \o v) = Len(s) - 1
  <2>1. u \o v \in Seq(S) /\ Len(u \o v) = Len(u) + Len(v)
    BY <1>1, <1>2, ConcatProperties
  <2> QED BY <2>1, <1>1, <1>2
<1>5. ASSUME NEW k \in 1 .. Len(s) - 1
      PROVE  (u \o v)[k] = IF k < i THEN s[k] ELSE s[k + 1]
  <2>1. k \in 1 .. Len(u) + Len(v)
    BY <1>1, <1>2
  <2>2. (u \o v)[k] = IF k <= Len(u) THEN u[k] ELSE v[k - Len(u)]
    BY <1>1, <1>2, <2>1, ConcatProperties
  <2>3. CASE k < i
    BY <2>2, <2>3, <1>1
  <2>4. CASE ~(k < i)
    <3>1. k - Len(u) = k - i + 1 /\ k - i + 1 \in 1 .. Len(s) - i /\ ~(k <= Len(u))
      BY <2>4, <1>1
    <3>2. v[k - i + 1] = s[i + (k - i + 1)]
      BY <3>1, <1>2
    <3> QED BY <3>1, <3>2, <2>2, <2>4, SMTT(40)
  <2> QED BY <2>3, <2>4
<1> QED BY <1>3, <1>4, <1>5

(* Removing one position loses no element but, perhaps, the one that was   *)
(* there, and adds none.                                                   *)
LEMMA RemoveAtRange ==
    ASSUME NEW S, NEW s \in Seq(S), NEW i \in 1 .. Len(s)
    PROVE  /\ ToSet(s) \ {s[i]} \subseteq ToSet(RemoveAt(s, i))
           /\ ToSet(RemoveAt(s, i)) \subseteq ToSet(s)
<1> DEFINE r == RemoveAt(s, i)
<1>. Len(s) \in Nat
  BY LenProperties
<1>1. /\ r \in Seq(S) /\ Len(r) = Len(s) - 1
      /\ \A k \in 1 .. Len(s) - 1 : r[k] = IF k < i THEN s[k] ELSE s[k + 1]
  BY RemoveAtProperties
<1> HIDE DEF r
<1>2. DOMAIN r = 1 .. Len(s) - 1 /\ DOMAIN s = 1 .. Len(s)
  BY <1>1, LenProperties
<1>3. ASSUME NEW k \in 1 .. Len(s), s[k] # s[i]
      PROVE  \E j \in 1 .. Len(s) - 1 : r[j] = s[k]
  <2>1. CASE k < i
    BY <2>1, <1>1
  <2>2. CASE k > i
    <3>1. k - 1 \in 1 .. Len(s) - 1 /\ ~(k - 1 < i) /\ (k - 1) + 1 = k
      BY <2>2
    <3> QED BY <3>1, <1>1
  <2> QED BY <2>1, <2>2, <1>3
<1>4. ASSUME NEW k \in 1 .. Len(s) - 1
      PROVE  \E j \in 1 .. Len(s) : r[k] = s[j]
  <2>1. CASE k < i
    BY <2>1, <1>1
  <2>2. CASE ~(k < i)
    BY <2>2, <1>1
  <2> QED BY <2>1, <2>2
<1>5. ToSet(s) = {s[k] : k \in 1 .. Len(s)} /\ ToSet(r) = {r[k] : k \in 1 .. Len(s) - 1}
  BY <1>2 DEF ToSet
<1>6. ToSet(s) \ {s[i]} \subseteq ToSet(r)
  BY <1>3, <1>5
<1>7. ToSet(r) \subseteq ToSet(s)
  BY <1>4, <1>5
<1> QED BY <1>6, <1>7 DEF r

(* Two sequences of one element each, concatenated. *)
LEMMA SinglesConcatenated ==
    ASSUME NEW c, NEW d
    PROVE  <<c>> \o <<d>> = <<c, d>>
<1>1. <<c>> \in Seq({c, d}) /\ Len(<<c>>) = 1 /\ <<c>>[1] = c
  OBVIOUS
<1>2. <<d>> \in Seq({c, d}) /\ Len(<<d>>) = 1 /\ <<d>>[1] = d
  OBVIOUS
<1>3. <<c, d>> \in Seq({c, d}) /\ Len(<<c, d>>) = 2 /\ <<c, d>>[1] = c /\ <<c, d>>[2] = d
  OBVIOUS
<1> DEFINE s == <<c>>  t == <<d>>  u == <<c, d>>  S == {c, d}
<1> HIDE DEF s, t, u, S
<1>4. /\ s \o t \in Seq(S) /\ Len(s \o t) = Len(s) + Len(t)
      /\ \A i \in 1 .. Len(s) + Len(t) :
           (s \o t)[i] = IF i <= Len(s) THEN s[i] ELSE t[i - Len(s)]
  <2>1. s \in Seq(S) /\ t \in Seq(S)
    BY <1>1, <1>2 DEF s, t, S
  <2> QED BY <2>1, ConcatProperties
<1>5. Len(s) = 1 /\ Len(t) = 1 /\ s[1] = c /\ t[1] = d
  BY <1>1, <1>2 DEF s, t
<1>6. Len(s \o t) = 2 /\ (s \o t)[1] = c /\ (s \o t)[2] = d
  BY <1>4, <1>5
<1>7. u \in Seq(S) /\ Len(u) = 2 /\ u[1] = c /\ u[2] = d
  BY <1>3 DEF u, S
<1>8. \A i \in 1 .. Len(s \o t) : (s \o t)[i] = u[i]
  BY <1>6, <1>7
<1>9. s \o t = u
  BY <1>4, <1>6, <1>7, <1>8, SeqEqual
<1> QED BY <1>9 DEF s, t, u

(* The first element, cut out of a sequence of one or of two. *)
LEMMA FirstOfTwo ==
    ASSUME NEW c, NEW e, NEW cs, cs \in {<<c>>, <<c, e>>}
    PROVE  SubSeq(cs, 1, 1) = <<c>>
<1>1. <<c>> \in Seq({c, e}) /\ Len(<<c>>) = 1 /\ <<c>>[1] = c
  OBVIOUS
<1>2. <<c, e>> \in Seq({c, e}) /\ Len(<<c, e>>) = 2 /\ <<c, e>>[1] = c
  OBVIOUS
<1>3. cs \in Seq({c, e}) /\ Len(cs) \in {1, 2} /\ cs[1] = c
  BY <1>1, <1>2
<1>4. /\ SubSeq(cs, 1, 1) \in Seq({c, e}) /\ Len(SubSeq(cs, 1, 1)) = 1
      /\ SubSeq(cs, 1, 1)[1] = c
  BY <1>3, SubSeqProperties
<1>5. \A i \in 1 .. 1 : SubSeq(cs, 1, 1)[i] = <<c>>[i]
  BY <1>1, <1>4
<1> QED BY <1>1, <1>4, <1>5, SeqEqual

(* Putting an element in front: type, length and elements. *)
LEMMA ConsProperties ==
    ASSUME NEW S, NEW s \in Seq(S), NEW x \in S
    PROVE  /\ <<x>> \o s \in Seq(S) /\ Len(<<x>> \o s) = Len(s) + 1 /\ Len(s) \in Nat
           /\ (<<x>> \o s)[1] = x
           /\ \A i \in 1 .. Len(s) : (<<x>> \o s)[i + 1] = s[i]
<1> DEFINE c == <<x>>  u == <<x>> \o s
<1>1. c \in Seq(S) /\ Len(c) = 1 /\ c[1] = x /\ Len(s) \in Nat
  OBVIOUS
<1>2. /\ u \in Seq(S) /\ Len(u) = Len(c) + Len(s)
      /\ \A i \in 1 .. Len(c) + Len(s) : u[i] = IF i <= Len(c) THEN c[i] ELSE s[i - Len(c)]
  BY <1>1, ConcatProperties
<1> HIDE DEF c, u
<1>3. u[1] = x
  BY <1>1, <1>2
<1>4. ASSUME NEW i \in 1 .. Len(s)
      PROVE  u[i + 1] = s[i]
  <2>1. i + 1 \in 1 .. Len(c) + Len(s) /\ ~(i + 1 <= Len(c)) /\ (i + 1) - Len(c) = i
    BY <1>1
  <2> QED BY <2>1, <1>2
<1> QED BY <1>1, <1>2, <1>3, <1>4 DEF u

(* Every set of natural numbers that is not empty has a least element. *)
LEMMA NatLeast ==
    ASSUME NEW T, T \subseteq Nat, T # {}
    PROVE  \E m \in T : \A k \in T : m <= k
<1>1. PICK n \in T : TRUE
  OBVIOUS
<1> DEFINE S == 0 .. n
           U == {0 .. k : k \in {j \in T : j <= n}}
           R == StrictSubsetOrdering(S)
<1>2. IsWellFoundedOn(R, FiniteSubsetsOf(S))
  BY FS_StrictSubsetOrderingWellFounded
<1>3. U \subseteq FiniteSubsetsOf(S) /\ U # {}
  <2>1. ASSUME NEW k \in Nat, k <= n
        PROVE  0 .. k \in FiniteSubsetsOf(S)
    BY <2>1, FS_Interval DEF FiniteSubsetsOf
  <2> QED BY <2>1
<1>4. \E x \in U : \A y \in U : <<y, x>> \notin R
  <2> HIDE DEF U, R
  <2> QED BY <1>2, <1>3, WFMin
<1>5. PICK m \in T : m <= n /\ \A k \in T : k <= n => <<0 .. k, 0 .. m>> \notin R
  BY <1>4
<1>6. ASSUME NEW k \in T, k < m
      PROVE  FALSE
  <2>1. 0 .. k \subseteq 0 .. m /\ 0 .. k \in SUBSET S /\ 0 .. m \in SUBSET S /\ k <= n
    BY <1>5, <1>6
  <2>2. m \in 0 .. m /\ m \notin 0 .. k
    BY <1>5, <1>6
  <2>3. <<0 .. k, 0 .. m>> \in R
    BY <2>1, <2>2, Zenon DEF StrictSubsetOrdering
  <2> QED BY <2>1, <2>3, <1>5
<1> QED BY <1>5, <1>6

(* Induction, over a set of natural numbers. *)
LEMMA NatSetInduction ==
    ASSUME NEW T, 0 \in T, \A n \in Nat : n \in T => n + 1 \in T
    PROVE  Nat \subseteq T
<1> SUFFICES ASSUME Nat \ T # {}
             PROVE  FALSE
  OBVIOUS
<1>1. PICK m \in Nat \ T : \A k \in Nat \ T : m <= k
  BY NatLeast
<1>2. m # 0 /\ m - 1 \in Nat /\ m - 1 \in T
  BY <1>1
<1> QED BY <1>1, <1>2

(* The functions that take a step number and a value to the next value. *)
StepFunctions(V, N) == [1 .. N -> [V -> V]]

(* G can be iterated N times from x. *)
HasIterates(V, x, N, G) ==
    \E f \in [0 .. N -> V] : f[0] = x /\ \A i \in 1 .. N : f[i] = G[i][f[i - 1]]

(* A step function can be iterated any number of times: what a recursive   *)
(* function or a fold over the numbers 1 .. N computes exists.             *)
LEMMA IteratesExist ==
    ASSUME NEW V, NEW x \in V, NEW N \in Nat, NEW G \in StepFunctions(V, N)
    PROVE  HasIterates(V, x, N, G)
<1> USE DEF StepFunctions
<1> DEFINE Upto(n, f) == f[0] = x /\ \A i \in 1 .. n : f[i] = G[i][f[i - 1]]
           T == {n \in Nat : n <= N => \E f \in [0 .. n -> V] : Upto(n, f)}
<1>1. 0 \in T
  <2> [i \in 0 .. 0 |-> x] \in [0 .. 0 -> V] /\ Upto(0, [i \in 0 .. 0 |-> x])
    OBVIOUS
  <2> QED OBVIOUS
<1>2. ASSUME NEW n \in Nat, n \in T
      PROVE  n + 1 \in T
  <2> SUFFICES ASSUME n + 1 <= N
               PROVE  \E f \in [0 .. n + 1 -> V] : Upto(n + 1, f)
    OBVIOUS
  <2>1. PICK f \in [0 .. n -> V] : Upto(n, f)
    BY <1>2
  <2> DEFINE y == G[n + 1][f[n]]
             g == [i \in 0 .. n + 1 |-> IF i = n + 1 THEN y ELSE f[i]]
  <2>2. y \in V
    OBVIOUS
  <2>3. g \in [0 .. n + 1 -> V]
    BY <2>2
  <2>4. Upto(n + 1, g)
    <3>1. ASSUME NEW i \in 1 .. n + 1
          PROVE  g[i] = G[i][g[i - 1]]
      <4>1. CASE i = n + 1
        BY <4>1
      <4>2. CASE i \in 1 .. n
        BY <4>2, <2>1
      <4> QED BY <4>1, <4>2
    <3> QED BY <3>1, <2>1
  <2> QED BY <2>3, <2>4
<1>3. N \in T
  <2> HIDE DEF T
  <2> QED BY <1>1, <1>2, NatSetInduction
<1> QED BY <1>3 DEF HasIterates

(* The elements of a sequence, its indexes, and what it means that it      *)
(* holds nothing twice.                                                    *)
LEMMA Elements ==
    ASSUME NEW S, NEW s \in Seq(S)
    PROVE  /\ Len(s) \in Nat /\ DOMAIN s = 1 .. Len(s) /\ ToSet(s) \subseteq S
           /\ \A i \in 1 .. Len(s) : s[i] \in S /\ s[i] \in ToSet(s)
           /\ \A x : x \in ToSet(s) <=> \E i \in 1 .. Len(s) : s[i] = x
           /\ IsInjective(s) <=> \A i, j \in 1 .. Len(s) : s[i] = s[j] => i = j
<1>1. Len(s) \in Nat /\ DOMAIN s = 1 .. Len(s) /\ \A i \in 1 .. Len(s) : s[i] \in S
  BY LenProperties, ElementOfSeq
<1>2. \A x : x \in ToSet(s) <=> \E i \in 1 .. Len(s) : s[i] = x
  BY <1>1 DEF ToSet
<1>3. IsInjective(s) <=> \A i, j \in 1 .. Len(s) : s[i] = s[j] => i = j
  BY <1>1 DEF IsInjective
<1> QED BY <1>1, <1>2, <1>3

(* The two parts of a sequence that is not empty. *)
LEMMA HeadAndTail ==
    ASSUME NEW S, NEW s \in Seq(S), s # <<>>
    PROVE  /\ Tail(s) \in Seq(S) /\ Head(s) \in S /\ Head(s) = s[1]
           /\ Len(s) \in Nat \ {0} /\ Len(Tail(s)) = Len(s) - 1
           /\ \A i \in 1 .. Len(s) - 1 : Tail(s)[i] = s[i + 1]
           /\ ToSet(s) = {Head(s)} \cup ToSet(Tail(s))
           /\ IsInjective(s) => IsInjective(Tail(s)) /\ Head(s) \notin ToSet(Tail(s))
<1> DEFINE t == Tail(s)
<1>1. /\ t \in Seq(S) /\ Len(t) = Len(s) - 1 /\ Len(s) \in Nat /\ Len(s) # 0
      /\ Head(s) = s[1] /\ Head(s) \in S
      /\ \A i \in 1 .. Len(s) - 1 : t[i] = s[i + 1]
  BY HeadTailProperties, LenProperties, EmptySeq
<1> HIDE DEF t
<1>a. /\ \A x : x \in ToSet(t) <=> \E i \in 1 .. Len(t) : t[i] = x
      /\ IsInjective(t) <=> \A i, j \in 1 .. Len(t) : t[i] = t[j] => i = j
  BY <1>1, Elements
<1>b. /\ \A x : x \in ToSet(s) <=> \E i \in 1 .. Len(s) : s[i] = x
      /\ IsInjective(s) <=> \A i, j \in 1 .. Len(s) : s[i] = s[j] => i = j
  BY Elements
<1>2. /\ \A x : x \in ToSet(s) <=> \E i \in 1 .. Len(s) : s[i] = x
      /\ \A x : x \in ToSet(t) <=> \E i \in 1 .. Len(s) - 1 : t[i] = x
      /\ IsInjective(s) <=> \A i, j \in 1 .. Len(s) : s[i] = s[j] => i = j
      /\ IsInjective(t) <=> \A i, j \in 1 .. Len(s) - 1 : t[i] = t[j] => i = j
  BY <1>1, <1>a, <1>b
<1>3. \A i \in 1 .. Len(s) - 1 : i + 1 \in 1 .. Len(s) /\ i + 1 # 1
  BY <1>1
<1>4. ToSet(t) \subseteq ToSet(s) /\ Head(s) \in ToSet(s)
  BY <1>1, <1>2, <1>3
<1>5. ASSUME NEW i \in 1 .. Len(s), i # 1
      PROVE  s[i] \in ToSet(t)
  <2>1. i - 1 \in 1 .. Len(s) - 1 /\ (i - 1) + 1 = i
    BY <1>1, <1>5
  <2> QED BY <2>1, <1>1, <1>2, ZenonT(60)
<1>6. ToSet(s) = {Head(s)} \cup ToSet(t)
  BY <1>1, <1>2, <1>4, <1>5
<1>7. ASSUME IsInjective(s)
      PROVE  IsInjective(t) /\ Head(s) \notin ToSet(t)
  <2>1. ASSUME NEW i \in 1 .. Len(s) - 1, NEW j \in 1 .. Len(s) - 1, t[i] = t[j]
        PROVE  i = j
    <3>1. s[i + 1] = s[j + 1] /\ i + 1 \in 1 .. Len(s) /\ j + 1 \in 1 .. Len(s)
      BY <1>1, <1>3, <2>1
    <3>2. i + 1 = j + 1
      BY <1>2, <1>7, <3>1
    <3> QED BY <3>2
  <2>2. ASSUME NEW i \in 1 .. Len(s) - 1, t[i] = s[1]
        PROVE  FALSE
    <3>1. s[i + 1] = s[1] /\ i + 1 \in 1 .. Len(s) /\ 1 \in 1 .. Len(s) /\ i + 1 # 1
      BY <1>1, <1>3, <2>2
    <3> QED BY <1>2, <1>7, <3>1
  <2> QED BY <1>1, <1>2, <2>1, <2>2
<1> QED BY <1>1, <1>6, <1>7 DEF t

(* Putting an element in front of a sequence: its parts, its range, and    *)
(* that it holds nothing twice if the element is new.                      *)
LEMMA ConsDistinct ==
    ASSUME NEW S, NEW s \in Seq(S), NEW x \in S
    PROVE  /\ <<x>> \o s \in Seq(S) /\ <<x>> \o s # <<>>
           /\ Head(<<x>> \o s) = x /\ Tail(<<x>> \o s) = s
           /\ ToSet(<<x>> \o s) = {x} \cup ToSet(s)
           /\ IsInjective(s) /\ x \notin ToSet(s) => IsInjective(<<x>> \o s)
<1> DEFINE u == <<x>> \o s
<1>1. /\ u \in Seq(S) /\ Len(u) = Len(s) + 1 /\ Len(s) \in Nat /\ u[1] = x
      /\ \A i \in 1 .. Len(s) : u[i + 1] = s[i]
  BY ConsProperties
<1> HIDE DEF u
<1>2. u # <<>>
  BY <1>1
<1>3. /\ Tail(u) \in Seq(S) /\ Len(Tail(u)) = Len(u) - 1 /\ Head(u) = u[1]
      /\ \A i \in 1 .. Len(u) - 1 : Tail(u)[i] = u[i + 1]
      /\ ToSet(u) = {Head(u)} \cup ToSet(Tail(u))
  BY <1>1, <1>2, HeadAndTail
<1>4. Tail(u) = s
  <2>1. Len(Tail(u)) = Len(s) /\ \A i \in 1 .. Len(s) : Tail(u)[i] = s[i]
    BY <1>1, <1>3
  <2> QED BY <2>1, <1>1, <1>3, SeqEqual
<1>5. ASSUME IsInjective(s), x \notin ToSet(s)
      PROVE  IsInjective(u)
  <2>1. /\ \A i, j \in 1 .. Len(s) : s[i] = s[j] => i = j
        /\ \A i \in 1 .. Len(s) : s[i] # x
    BY <1>5, Elements
  <2>2. ASSUME NEW i \in 1 .. Len(u), NEW j \in 1 .. Len(u), u[i] = u[j]
        PROVE  i = j
    <3>1. CASE i = 1 \/ j = 1
      <4>1. ASSUME NEW k \in 1 .. Len(u), k # 1
            PROVE  u[k] # x
        <5>1. k - 1 \in 1 .. Len(s) /\ (k - 1) + 1 = k
          BY <1>1, <4>1
        <5>2. u[(k - 1) + 1] = s[k - 1]
          BY <1>1, <5>1
        <5> QED BY <2>1, <5>1, <5>2
      <4> QED BY <1>1, <2>2, <3>1, <4>1
    <3>2. CASE i # 1 /\ j # 1
      <4>1. /\ i - 1 \in 1 .. Len(s) /\ (i - 1) + 1 = i
            /\ j - 1 \in 1 .. Len(s) /\ (j - 1) + 1 = j
        BY <1>1, <3>2
      <4>2. s[i - 1] = s[j - 1]
        BY <1>1, <2>2, <4>1
      <4>3. i - 1 = j - 1
        BY <2>1, <4>1, <4>2
      <4> QED BY <4>1, <4>3
    <3> QED BY <3>1, <3>2
  <2> QED BY <1>1, <2>2, Elements
<1> QED BY <1>1, <1>2, <1>3, <1>4, <1>5 DEF u

(* Inserting an element at a position: type, length and elements. *)
LEMMA InsertAtProperties ==
    ASSUME NEW S, NEW s \in Seq(S), NEW x \in S, NEW k \in 1 .. Len(s) + 1
    PROVE  /\ InsertAt(s, k, x) \in Seq(S) /\ Len(InsertAt(s, k, x)) = Len(s) + 1
           /\ Len(s) \in Nat
           /\ \A i \in 1 .. Len(s) + 1 :
                InsertAt(s, k, x)[i] = IF i < k THEN s[i] ELSE IF i = k THEN x ELSE s[i - 1]
<1> DEFINE u == SubSeq(s, 1, k - 1)
           c == <<x>>
           v == SubSeq(s, k, Len(s))
           uc == u \o c
           r == uc \o v
<1>. Len(s) \in Nat
  BY LenProperties
<1>1. u \in Seq(S) /\ Len(u) = k - 1 /\ \A i \in 1 .. k - 1 : u[i] = s[i]
  BY SubSeqProperties, ElementOfSeq
<1>2. v \in Seq(S) /\ Len(v) = Len(s) + 1 - k /\ \A i \in 1 .. Len(s) + 1 - k : v[i] = s[k + i - 1]
  <2>1. \A i \in k .. Len(s) : s[i] \in S
    BY ElementOfSeq
  <2>2. /\ v \in Seq(S) /\ Len(v) = IF k <= Len(s) THEN Len(s) - k + 1 ELSE 0
        /\ \A i \in 1 .. Len(s) - k + 1 : v[i] = s[k + i - 1]
    BY <2>1, SubSeqProperties
  <2> QED BY <2>2
<1>3. c \in Seq(S) /\ Len(c) = 1 /\ c[1] = x
  OBVIOUS
<1>4. InsertAt(s, k, x) = r
  BY DEF InsertAt
<1> HIDE DEF u, c, v
<1>5. /\ uc \in Seq(S) /\ Len(uc) = k
      /\ \A i \in 1 .. k : uc[i] = IF i <= k - 1 THEN u[i] ELSE c[i - (k - 1)]
  <2>1. /\ u \o c \in Seq(S) /\ Len(u \o c) = Len(u) + Len(c)
        /\ \A i \in 1 .. Len(u) + Len(c) : (u \o c)[i] = IF i <= Len(u) THEN u[i] ELSE c[i - Len(u)]
    BY <1>1, <1>3, ConcatProperties
  <2> QED BY <2>1, <1>1, <1>3
<1> HIDE DEF uc
<1>6. /\ r \in Seq(S) /\ Len(r) = Len(s) + 1
      /\ \A i \in 1 .. Len(s) + 1 : r[i] = IF i <= k THEN uc[i] ELSE v[i - k]
  <2>1. /\ uc \o v \in Seq(S) /\ Len(uc \o v) = Len(uc) + Len(v)
        /\ \A i \in 1 .. Len(uc) + Len(v) : (uc \o v)[i] = IF i <= Len(uc) THEN uc[i] ELSE v[i - Len(uc)]
    BY <1>2, <1>5, ConcatProperties
  <2> QED BY <2>1, <1>2, <1>5
<1> HIDE DEF r
<1>7. ASSUME NEW i \in 1 .. Len(s) + 1
      PROVE  r[i] = IF i < k THEN s[i] ELSE IF i = k THEN x ELSE s[i - 1]
  <2>1. CASE i < k
    <3>1. i \in 1 .. k /\ i <= k - 1 /\ i \in 1 .. k - 1
      BY <2>1
    <3> QED BY <3>1, <2>1, <1>1, <1>5, <1>6, SMTT(40)
  <2>2. CASE i = k
    <3>1. k \in 1 .. k /\ ~(k <= k - 1) /\ k - (k - 1) = 1
      OBVIOUS
    <3> QED BY <3>1, <2>2, <1>3, <1>5, <1>6
  <2>3. CASE i > k
    <3>1. i - k \in 1 .. Len(s) + 1 - k /\ k + (i - k) - 1 = i - 1 /\ ~(i <= k)
      BY <2>3
    <3>2. v[i - k] = s[i - 1]
      BY <1>2, <3>1
    <3> QED BY <3>1, <3>2, <2>3, <1>6
  <2> QED BY <2>1, <2>2, <2>3
<1> QED BY <1>4, <1>6, <1>7

(* Inserting adds the element to the range, and nothing is held twice if   *)
(* the element is new.                                                     *)
LEMMA InsertAtDistinct ==
    ASSUME NEW S, NEW s \in Seq(S), NEW x \in S, NEW k \in 1 .. Len(s) + 1
    PROVE  /\ ToSet(InsertAt(s, k, x)) = ToSet(s) \cup {x}
           /\ IsInjective(s) /\ x \notin ToSet(s) => IsInjective(InsertAt(s, k, x))
<1> DEFINE r == InsertAt(s, k, x)
<1>1. /\ r \in Seq(S) /\ Len(r) = Len(s) + 1 /\ Len(s) \in Nat
      /\ \A i \in 1 .. Len(s) + 1 : r[i] = IF i < k THEN s[i] ELSE IF i = k THEN x ELSE s[i - 1]
  BY InsertAtProperties
<1> HIDE DEF r
<1>2. /\ \A y : y \in ToSet(s) <=> \E i \in 1 .. Len(s) : s[i] = y
      /\ \A y : y \in ToSet(r) <=> \E i \in 1 .. Len(r) : r[i] = y
      /\ IsInjective(s) <=> \A i, j \in 1 .. Len(s) : s[i] = s[j] => i = j
      /\ IsInjective(r) <=> \A i, j \in 1 .. Len(r) : r[i] = r[j] => i = j
  BY <1>1, Elements
<1>3. ASSUME NEW i \in 1 .. Len(s)
      PROVE  s[i] \in ToSet(r)
  <2>1. CASE i < k
    BY <2>1, <1>1, <1>2
  <2>2. CASE ~(i < k)
    <3>1. i + 1 \in 1 .. Len(r) /\ ~(i + 1 < k) /\ i + 1 # k /\ (i + 1) - 1 = i
      BY <2>2, <1>1
    <3>2. r[i + 1] = s[i]
      BY <3>1, <1>1
    <3> QED BY <3>1, <3>2, <1>2
  <2> QED BY <2>1, <2>2
<1>4. x \in ToSet(r)
  <2>1. k \in 1 .. Len(r) /\ r[k] = x
    BY <1>1
  <2> QED BY <2>1, <1>2
<1>5. ASSUME NEW i \in 1 .. Len(r), i # k
      PROVE  \E m \in 1 .. Len(s) : r[i] = s[m] /\ m = IF i < k THEN i ELSE i - 1
  <2>1. CASE i < k
    BY <2>1, <1>1
  <2>2. CASE i > k
    <3>1. i - 1 \in 1 .. Len(s) /\ ~(i < k)
      BY <2>2, <1>1
    <3> QED BY <3>1, <1>5, <1>1
  <2> QED BY <1>5, <2>1, <2>2
<1>6. ToSet(r) = ToSet(s) \cup {x}
  <2>1. \A i \in 1 .. Len(r) : r[i] \in ToSet(s) \cup {x}
    BY <1>1, <1>2, <1>5
  <2> QED BY <2>1, <1>2, <1>3, <1>4
<1>7. ASSUME IsInjective(s), x \notin ToSet(s),
             NEW i \in 1 .. Len(r), NEW j \in 1 .. Len(r), r[i] = r[j]
      PROVE  i = j
  <2>1. CASE i = k \/ j = k
    <3>1. r[k] = x
      BY <1>1
    <3>2. ASSUME NEW m \in 1 .. Len(r), m # k
          PROVE  r[m] # x
      BY <1>2, <1>5, <1>7, <3>2
    <3> QED BY <1>7, <2>1, <3>1, <3>2
  <2>2. CASE i # k /\ j # k
    <3>1. PICK m \in 1 .. Len(s) : r[i] = s[m] /\ m = IF i < k THEN i ELSE i - 1
      BY <2>2, <1>5
    <3>2. PICK n \in 1 .. Len(s) : r[j] = s[n] /\ n = IF j < k THEN j ELSE j - 1
      BY <2>2, <1>5
    <3>3. m = n
      BY <3>1, <3>2, <1>2, <1>7
    <3> QED BY <3>1, <3>2, <3>3, <2>2
  <2> QED BY <2>1, <2>2
<1> QED BY <1>2, <1>6, <1>7 DEF r

(* Removing the element at a position of a sequence that holds nothing     *)
(* twice takes it out of the range.                                        *)
LEMMA RemoveAtDistinct ==
    ASSUME NEW S, NEW s \in Seq(S), NEW k \in 1 .. Len(s), IsInjective(s)
    PROVE  /\ ToSet(RemoveAt(s, k)) = ToSet(s) \ {s[k]}
           /\ IsInjective(RemoveAt(s, k))
<1> DEFINE r == RemoveAt(s, k)
<1>1. /\ r \in Seq(S) /\ Len(r) = Len(s) - 1 /\ Len(s) \in Nat
      /\ \A i \in 1 .. Len(s) - 1 : r[i] = IF i < k THEN s[i] ELSE s[i + 1]
  BY RemoveAtProperties, LenProperties
<1>2. ToSet(s) \ {s[k]} \subseteq ToSet(r) /\ ToSet(r) \subseteq ToSet(s)
  BY RemoveAtRange
<1> HIDE DEF r
<1>3. /\ \A y : y \in ToSet(r) <=> \E i \in 1 .. Len(r) : r[i] = y
      /\ \A i, j \in 1 .. Len(s) : s[i] = s[j] => i = j
      /\ IsInjective(r) <=> \A i, j \in 1 .. Len(r) : r[i] = r[j] => i = j
  BY <1>1, Elements
<1>4. ASSUME NEW i \in 1 .. Len(r)
      PROVE  \E m \in 1 .. Len(s) : r[i] = s[m] /\ m # k /\ m = IF i < k THEN i ELSE i + 1
  <2>1. CASE i < k
    BY <2>1, <1>1
  <2>2. CASE ~(i < k)
    <3>1. i + 1 \in 1 .. Len(s) /\ i + 1 # k
      BY <2>2, <1>1
    <3> QED BY <3>1, <2>2, <1>1
  <2> QED BY <2>1, <2>2
<1>5. s[k] \notin ToSet(r)
  <2>1. ASSUME NEW i \in 1 .. Len(r)
        PROVE  r[i] # s[k]
    BY <1>3, <1>4
  <2> QED BY <1>3, <2>1
<1>6. ASSUME NEW i \in 1 .. Len(r), NEW j \in 1 .. Len(r), r[i] = r[j]
      PROVE  i = j
  <2>1. PICK m \in 1 .. Len(s) : r[i] = s[m] /\ m = IF i < k THEN i ELSE i + 1
    BY <1>4
  <2>2. PICK n \in 1 .. Len(s) : r[j] = s[n] /\ n = IF j < k THEN j ELSE j + 1
    BY <1>4
  <2>3. m = n
    BY <2>1, <2>2, <1>3, <1>6
  <2> QED BY <2>1, <2>2, <2>3
<1> QED BY <1>2, <1>3, <1>5, <1>6 DEF r

(* What follows a position in a sequence: type and range. *)
LEMMA SuffixProperties ==
    ASSUME NEW S, NEW s \in Seq(S), NEW k \in 1 .. Len(s)
    PROVE  /\ SubSeq(s, k + 1, Len(s)) \in Seq(S)
           /\ ToSet(SubSeq(s, k + 1, Len(s))) \subseteq ToSet(s)
           /\ IsInjective(s) => /\ IsInjective(SubSeq(s, k + 1, Len(s)))
                                /\ s[k] \notin ToSet(SubSeq(s, k + 1, Len(s)))
           /\ k = 1 => ToSet(s) = {s[1]} \cup ToSet(SubSeq(s, k + 1, Len(s)))
<1> DEFINE v == SubSeq(s, k + 1, Len(s))
<1>. Len(s) \in Nat
  BY LenProperties
<1>1. v \in Seq(S) /\ Len(v) = Len(s) - k /\ \A i \in 1 .. Len(s) - k : v[i] = s[k + i]
  BY SubSeqProperties, ElementOfSeq
<1> HIDE DEF v
<1>2. /\ \A y : y \in ToSet(s) <=> \E i \in 1 .. Len(s) : s[i] = y
      /\ \A y : y \in ToSet(v) <=> \E i \in 1 .. Len(v) : v[i] = y
      /\ IsInjective(s) <=> \A i, j \in 1 .. Len(s) : s[i] = s[j] => i = j
      /\ IsInjective(v) <=> \A i, j \in 1 .. Len(v) : v[i] = v[j] => i = j
  BY <1>1, Elements
<1>3. \A i \in 1 .. Len(v) : k + i \in 1 .. Len(s) /\ k + i # k /\ v[i] = s[k + i]
  BY <1>1
<1>4. ToSet(v) \subseteq ToSet(s)
  BY <1>2, <1>3
<1>5. ASSUME IsInjective(s)
      PROVE  IsInjective(v) /\ s[k] \notin ToSet(v)
  <2>1. ASSUME NEW i \in 1 .. Len(v), NEW j \in 1 .. Len(v), v[i] = v[j]
        PROVE  i = j
    <3>1. k + i = k + j
      BY <1>2, <1>3, <1>5, <2>1
    <3> QED BY <3>1
  <2> QED BY <1>2, <1>3, <1>5, <2>1
<1>6. ASSUME k = 1
      PROVE  ToSet(s) = {s[1]} \cup ToSet(v)
  <2>1. ASSUME NEW i \in 1 .. Len(s), i # 1
        PROVE  s[i] \in ToSet(v)
    <3>1. i - 1 \in 1 .. Len(v) /\ k + (i - 1) = i
      BY <1>1, <1>6, <2>1
    <3> QED BY <1>2, <1>3, <3>1
  <2> QED BY <1>2, <1>4, <1>6, <2>1
<1> QED BY <1>1, <1>4, <1>5, <1>6 DEF v

(* A set of numbers below L that holds all that are below one of its       *)
(* members is an interval that begins at 1.                                *)
LEMMA DownClosed ==
    ASSUME NEW L \in Nat, NEW T, T \subseteq 1 .. L,
           \A i \in T : \A j \in 1 .. L : j < i => j \in T
    PROVE  Cardinality(T) \in 0 .. L /\ T = 1 .. Cardinality(T)
<1> DEFINE U == {k \in 1 .. L + 1 : k \notin T}
<1>1. L + 1 \in U
  OBVIOUS
<1>2. PICK m \in U : \A k \in U : m <= k
  <2>1. U \subseteq Nat /\ U # {}
    BY <1>1
  <2> HIDE DEF U
  <2> QED BY <2>1, NatLeast
<1>3. T = 1 .. m - 1
  <2>1. ASSUME NEW i \in T, ~(i < m)
        PROVE  FALSE
    BY <1>2, <2>1
  <2>2. ASSUME NEW i \in 1 .. m - 1
        PROVE  i \in T
    BY <1>2, <2>2
  <2>3. \A i \in T : i \in 1 .. m - 1
    BY <1>2, <2>1
  <2> QED BY <2>2, <2>3
<1>4. m - 1 \in 0 .. L
  BY <1>2
<1>5. Cardinality(1 .. m - 1) = m - 1
  BY <1>4, FS_Interval
<1> QED BY <1>3, <1>4, <1>5

(* Every finite set of natural numbers that is not empty has a greatest    *)
(* element.                                                                *)
LEMMA NatGreatest ==
    ASSUME NEW I, I \subseteq Nat, I # {}, IsFiniteSet(I)
    PROVE  \E m \in I : \A i \in I : i <= m
<1> DEFINE Bounded(F) == \E k \in Nat : \A i \in F : i <= k
           W == {F \in SUBSET I : IsFiniteSet(F) /\ ~Bounded(F)}
           C == {Cardinality(F) : F \in W}
           U == {k \in Nat : \A i \in I : i <= k}
<1>1. W = {}
  <2> SUFFICES ASSUME W # {}
               PROVE  FALSE
    OBVIOUS
  <2>1. C \subseteq Nat /\ C # {}
    BY FS_CardinalityType
  <2>2. PICK n \in C : \A k \in C : n <= k
    <3> HIDE DEF C
    <3> QED BY <2>1, NatLeast
  <2>3. PICK F \in W : Cardinality(F) = n
    BY <2>2
  <2>4. PICK x \in F : TRUE
    BY <2>3
  <2>5. IsFiniteSet(F \ {x}) /\ Cardinality(F \ {x}) = n - 1 /\ n \in Nat
    BY <2>1, <2>3, FS_RemoveElement
  <2>6. F \ {x} \notin W
    <3>1. ASSUME F \ {x} \in W
          PROVE  FALSE
      <4>1. n - 1 \in C
        BY <2>5, <3>1
      <4> HIDE DEF C
      <4> QED BY <2>2, <2>5, <4>1
    <3> QED BY <3>1
  <2>7. PICK k \in Nat : \A i \in F \ {x} : i <= k
    BY <2>3, <2>5, <2>6
  <2>8. x \in Nat /\ F \subseteq Nat
    BY <2>3
  <2>9. Bounded(F)
    <3>1. CASE x <= k
      BY <2>7, <2>8, <3>1
    <3>2. CASE k <= x
      <4>1. \A i \in F : i <= x
        BY <2>7, <2>8, <3>2
      <4> QED BY <2>8, <4>1
    <3> QED BY <2>8, <3>1, <3>2
  <2> QED BY <2>3, <2>9
<1>2. U \subseteq Nat /\ U # {}
  BY <1>1
<1>3. PICK u \in U : \A k \in U : u <= k
  <2> HIDE DEF U
  <2> QED BY <1>2, NatLeast
<1>4. u \in I
  <2> SUFFICES ASSUME u \notin I
               PROVE  FALSE
    OBVIOUS
  <2>1. \A i \in I : i \in Nat /\ i < u
    BY <1>3
  <2>2. u # 0 /\ u - 1 \in Nat
    <3>1. PICK i \in I : TRUE
      OBVIOUS
    <3>2. i \in Nat /\ i < u /\ u \in Nat
      BY <1>3, <2>1
    <3> QED BY <3>2
  <2>3. \A i \in I : i <= u - 1
    BY <2>1, <2>2
  <2>4. u - 1 \in U
    BY <2>2, <2>3
  <2> QED BY <1>3, <2>2, <2>4
<1> QED BY <1>3, <1>4

(* A finite set, as a sequence that holds each of its elements once. *)
LEMMA SetToSeqRange ==
    ASSUME NEW S, IsFiniteSet(S)
    PROVE  SetToSeq(S) \in Seq(S) /\ ToSet(SetToSeq(S)) = S /\ IsInjective(SetToSeq(S))
<1> DEFINE n == Cardinality(S)
           f == SetToSeq(S)
<1>1. n \in Nat /\ ExistsBijection(1 .. n, S)
  BY FS_CardinalityType
<1>2. \E g \in [1 .. n -> S] : IsInjective(g)
  BY <1>1 DEF ExistsBijection, Bijection, Injection, IsInjective
<1>3. f \in [1 .. n -> S] /\ IsInjective(f)
  BY <1>2 DEF SetToSeq
<1> HIDE DEF f
<1>4. f \in Injection(1 .. n, S)
  BY <1>3 DEF Injection, IsInjective
<1>5. IsFiniteSet(1 .. n) /\ Cardinality(1 .. n) = n
  BY <1>1, FS_Interval
<1>6. f \in Surjection(1 .. n, S)
  BY <1>4, <1>5, FS_Injection
<1>7. \A x \in S : \E i \in 1 .. n : f[i] = x
  BY <1>6 DEF Surjection
<1>8. f \in Seq(S) /\ ToSet(f) = S
  BY <1>1, <1>3, <1>7 DEF ToSet
<1> QED BY <1>3, <1>8 DEF f

(* Concatenation joins the ranges. *)
LEMMA ConcatRange ==
    ASSUME NEW S, NEW s \in Seq(S), NEW t \in Seq(S)
    PROVE  s \o t \in Seq(S) /\ ToSet(s \o t) = ToSet(s) \cup ToSet(t)
<1> DEFINE u == s \o t
<1>1. /\ u \in Seq(S) /\ Len(u) = Len(s) + Len(t) /\ Len(s) \in Nat /\ Len(t) \in Nat
      /\ \A i \in 1 .. Len(s) + Len(t) : u[i] = IF i <= Len(s) THEN s[i] ELSE t[i - Len(s)]
  BY ConcatProperties, LenProperties
<1> HIDE DEF u
<1>2. DOMAIN s = 1 .. Len(s) /\ DOMAIN t = 1 .. Len(t) /\ DOMAIN u = 1 .. Len(s) + Len(t)
  BY <1>1, LenProperties
<1>3. ASSUME NEW i \in 1 .. Len(s)
      PROVE  s[i] \in ToSet(u)
  BY <1>1, <1>2 DEF ToSet
<1>4. ASSUME NEW i \in 1 .. Len(t)
      PROVE  t[i] \in ToSet(u)
  <2>1. /\ i + Len(s) \in 1 .. Len(s) + Len(t) /\ (i + Len(s)) - Len(s) = i
        /\ ~(i + Len(s) <= Len(s))
    BY <1>1
  <2>2. u[i + Len(s)] = t[i]
    BY <2>1, <1>1
  <2> QED BY <2>1, <2>2, <1>2 DEF ToSet
<1>5. ASSUME NEW i \in 1 .. Len(s) + Len(t)
      PROVE  u[i] \in ToSet(s) \cup ToSet(t)
  <2>1. CASE i <= Len(s)
    BY <2>1, <1>1, <1>2, SMTT(40) DEF ToSet
  <2>2. CASE ~(i <= Len(s))
    <3>1. i - Len(s) \in 1 .. Len(t) /\ u[i] = t[i - Len(s)]
      BY <2>2, <1>1
    <3> QED BY <3>1, <1>2 DEF ToSet
  <2> QED BY <2>1, <2>2
<1>6. ToSet(u) \subseteq ToSet(s) \cup ToSet(t)
  BY <1>2, <1>5 DEF ToSet
<1>7. ToSet(s) \cup ToSet(t) \subseteq ToSet(u)
  BY <1>2, <1>3, <1>4 DEF ToSet
<1> QED BY <1>1, <1>6, <1>7 DEF u

-----------------------------------------------------------------------------
(* The weights of the elements of s add up to t. *)
Total(w, s, t) ==
    \E sum \in [0 .. Len(s) -> Int] :
        /\ sum[0] = 0
        /\ \A i \in 1 .. Len(s) : sum[i] = sum[i - 1] + w[s[i]]
        /\ sum[Len(s)] = t

(* The sums of weights: of nothing, ... *)
LEMMA TotalEmpty ==
    ASSUME NEW w
    PROVE  Total(w, <<>>, 0)
<1>1. Len(<<>>) = 0
  OBVIOUS
<1> DEFINE s == <<>>  sum == [i \in 0 .. 0 |-> 0]
<1>2. sum \in [0 .. 0 -> Int] /\ sum[0] = 0
  OBVIOUS
<1> HIDE DEF sum, s
<1>3. Len(s) = 0
  BY <1>1 DEF s
<1>4. Total(w, s, 0)
  BY <1>2, <1>3 DEF Total
<1> QED BY <1>4 DEF s

(* ... with one element more, ... *)
LEMMA TotalAppend ==
    ASSUME NEW A, NEW w \in [A -> Nat], NEW s \in Seq(A), NEW a \in A, NEW t, Total(w, s, t)
    PROVE  Total(w, Append(s, a), t + w[a])
<1> DEFINE n == Len(s)  u == Append(s, a)
<1>1. /\ n \in Nat /\ Len(u) = n + 1 /\ u[n + 1] = a
      /\ \A i \in 1 .. n : u[i] = s[i]
  BY AppendProperties, LenProperties
<1>2. PICK sum \in [0 .. n -> Int] :
         /\ sum[0] = 0
         /\ \A i \in 1 .. n : sum[i] = sum[i - 1] + w[s[i]]
         /\ sum[n] = t
  BY DEF Total
<1> DEFINE sum2 == [i \in 0 .. n + 1 |-> IF i = n + 1 THEN t + w[a] ELSE sum[i]]
<1> HIDE DEF n, u
<1>3. t \in Int /\ w[a] \in Int
  BY <1>1, <1>2
<1>4. sum2 \in [0 .. n + 1 -> Int]
  <2>1. \A i \in 0 .. n + 1 : i # n + 1 => i \in 0 .. n
    BY <1>1
  <2> QED BY <1>3, <2>1
<1>5. sum2[0] = 0 /\ sum2[n + 1] = t + w[a]
  BY <1>1, <1>2
<1>6. \A i \in 1 .. n + 1 : sum2[i] = sum2[i - 1] + w[u[i]]
  <2>1. ASSUME NEW i \in 1 .. n
        PROVE  sum2[i] = sum2[i - 1] + w[u[i]]
    <3>1. i \in 0 .. n + 1 /\ i - 1 \in 0 .. n + 1 /\ i # n + 1 /\ i - 1 # n + 1
      BY <1>1
    <3>2. sum2[i] = sum[i] /\ sum2[i - 1] = sum[i - 1]
      BY <3>1
    <3> QED BY <1>1, <1>2, <3>2
  <2>2. sum2[n + 1] = sum2[n] + w[u[n + 1]]
    BY <1>1, <1>2
  <2>3. \A i \in 1 .. n + 1 : i \in 1 .. n \/ i = n + 1
    BY <1>1
  <2>4. (n + 1) - 1 = n
    BY <1>1
  <2> HIDE DEF sum2
  <2> QED BY <2>1, <2>2, <2>3, <2>4
<1> HIDE DEF sum2
<1>7. Total(w, u, t + w[a])
  BY <1>1, <1>4, <1>5, <1>6 DEF Total
<1> QED BY <1>7 DEF u

(* ... without the last, ... *)
LEMMA TotalFront ==
    ASSUME NEW A, NEW w \in [A -> Nat], NEW s \in Seq(A), s # <<>>, NEW t, Total(w, s, t)
    PROVE  Total(w, Front(s), t - w[s[Len(s)]])
<1> DEFINE n == Len(s) - 1  u == Front(s)
<1>1. /\ n \in Nat /\ Len(s) = n + 1 /\ Len(u) = n
      /\ \A i \in 1 .. n : u[i] = s[i]
  <2>1. Len(s) \in Nat /\ Len(s) # 0
    BY EmptySeq
  <2>2. n \in Nat /\ n <= Len(s) /\ \A i \in 1 .. n : s[i] \in A
    BY <2>1
  <2>3. Front(s) = SubSeq(s, 1, n)
    BY DEF Front
  <2> HIDE DEF n, u
  <2>4. Len(SubSeq(s, 1, n)) = n /\ \A i \in 1 .. n : SubSeq(s, 1, n)[i] = s[i]
    BY <2>2
  <2> QED BY <2>1, <2>2, <2>3, <2>4 DEF n, u
<1>2. PICK sum \in [0 .. n + 1 -> Int] :
         /\ sum[0] = 0
         /\ \A i \in 1 .. n + 1 : sum[i] = sum[i - 1] + w[s[i]]
         /\ sum[n + 1] = t
  BY <1>1 DEF Total
<1> DEFINE sum2 == [i \in 0 .. n |-> sum[i]]
<1> HIDE DEF n, u
<1>3. sum2 \in [0 .. n -> Int] /\ sum2[0] = 0
  BY <1>1, <1>2
<1>4. \A i \in 1 .. n : sum2[i] = sum2[i - 1] + w[u[i]]
  BY <1>1, <1>2
<1>5. sum2[n] = t - w[s[n + 1]]
  <2>1. s[n + 1] \in A
    BY <1>1
  <2>2. w[s[n + 1]] \in Int /\ sum[n] \in Int
    BY <1>1, <2>1
  <2>3. t = sum[n] + w[s[n + 1]]
    BY <1>1, <1>2
  <2> QED BY <1>1, <2>2, <2>3
<1> HIDE DEF sum2
<1>6. Total(w, u, t - w[s[n + 1]])
  BY <1>1, <1>3, <1>4, <1>5 DEF Total
<1> QED BY <1>1, <1>6 DEF u

(* ... and without the first. *)
LEMMA TotalTail ==
    ASSUME NEW A, NEW w \in [A -> Nat], NEW s \in Seq(A), s # <<>>, NEW t, Total(w, s, t)
    PROVE  Total(w, Tail(s), t - w[Head(s)])
<1> DEFINE n == Len(s) - 1  u == Tail(s)
<1>1. /\ n \in Nat /\ Len(s) = n + 1 /\ Len(u) = n
      /\ \A i \in 1 .. n : u[i] = s[i + 1]
      /\ Head(s) = s[1]
  <2>1. Len(s) \in Nat /\ Len(s) # 0
    BY EmptySeq
  <2> QED BY <2>1
<1>2. PICK sum \in [0 .. n + 1 -> Int] :
         /\ sum[0] = 0
         /\ \A i \in 1 .. n + 1 : sum[i] = sum[i - 1] + w[s[i]]
         /\ sum[n + 1] = t
  BY <1>1 DEF Total
<1> DEFINE sum2 == [i \in 0 .. n |-> sum[i + 1] - w[s[1]]]
<1> HIDE DEF n, u
<1>3. s[1] \in A /\ w[s[1]] \in Int
  <2>1. s[1] \in A
    BY <1>1
  <2> QED BY <2>1
<1>4. sum2 \in [0 .. n -> Int] /\ sum2[0] = 0
  <2>1. sum[1] = sum[0] + w[s[1]]
    BY <1>1, <1>2
  <2>2. \A i \in 0 .. n : sum[i + 1] - w[s[1]] \in Int
    BY <1>1, <1>3
  <2>3. sum2[0] = sum[0 + 1] - w[s[1]]
    BY <1>1
  <2>4. sum2[0] = 0
    BY <1>2, <1>3, <2>1, <2>3
  <2> QED BY <2>2, <2>4
<1>5. \A i \in 1 .. n : sum2[i] = sum2[i - 1] + w[u[i]]
  <2> SUFFICES ASSUME NEW i \in 1 .. n
               PROVE  sum2[i] = sum2[i - 1] + w[u[i]]
    OBVIOUS
  <2>1. i \in 0 .. n /\ i - 1 \in 0 .. n /\ (i - 1) + 1 = i /\ i + 1 \in 1 .. n + 1 /\ (i + 1) - 1 = i
    BY <1>1
  <2>2. sum2[i] = sum[i + 1] - w[s[1]] /\ sum2[i - 1] = sum[i] - w[s[1]]
    BY <2>1
  <2>3. sum[i + 1] = sum[i] + w[s[i + 1]]
    BY <1>2, <2>1
  <2>4. s[i + 1] \in A /\ sum[i] \in Int
    BY <1>1, <2>1
  <2>5. w[s[i + 1]] \in Int
    BY <2>4
  <2> QED BY <1>1, <1>3, <2>2, <2>3, <2>4, <2>5
<1>6. sum2[n] = t - w[s[1]]
  BY <1>1, <1>2
<1> HIDE DEF sum2
<1>7. Total(w, u, t - w[s[1]])
  BY <1>1, <1>4, <1>5, <1>6 DEF Total
<1> QED BY <1>1, <1>7 DEF u

(* Weights add up to a natural number. *)
LEMMA TotalNat ==
    ASSUME NEW A, NEW w \in [A -> Nat], NEW s \in Seq(A), NEW t, Total(w, s, t)
    PROVE  t \in Nat
<1> DEFINE n == Len(s)
<1>1. n \in Nat /\ \A i \in 1 .. n : s[i] \in A
  BY LenProperties
<1>2. PICK sum \in [0 .. n -> Int] :
         /\ sum[0] = 0
         /\ \A i \in 1 .. n : sum[i] = sum[i - 1] + w[s[i]]
         /\ sum[n] = t
  BY DEF Total
<1> DEFINE T == {i \in Nat : i <= n => sum[i] \in Nat}
<1> HIDE DEF n
<1>3. 0 \in T
  BY <1>2
<1>4. ASSUME NEW i \in Nat, i \in T
      PROVE  i + 1 \in T
  <2> SUFFICES ASSUME i + 1 <= n
               PROVE  sum[i + 1] \in Nat
    OBVIOUS
  <2>1. i + 1 \in 1 .. n /\ (i + 1) - 1 = i /\ sum[i] \in Nat
    BY <1>1, <1>4
  <2>2. w[s[i + 1]] \in Nat
    BY <1>1, <2>1
  <2>3. sum[i + 1] = sum[i] + w[s[i + 1]]
    BY <1>2, <2>1
  <2> QED BY <2>1, <2>2, <2>3
<1>5. n \in T
  <2> HIDE DEF T
  <2> QED BY <1>1, <1>3, <1>4, NatSetInduction
<1> QED BY <1>1, <1>2, <1>5
=============================================================================
