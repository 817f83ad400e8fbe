-------------------------- MODULE AstClientProofs --------------------------
(***************************************************************************)
(* Proofs about three clients of the asts: the list of child processes of  *)
(* OsChildren, the table of timers of SysTimer and the descriptor sets of  *)
(* AsyncIo.  They have no variables in common; each part below is about    *)
(* one of them.                                                            *)
(***************************************************************************)
EXTENDS OsChildren, SysTimer, AsyncIo, SequenceLemmas

-----------------------------------------------------------------------------
(***************************************************************************)
(* Proofs about the list of child processes of OsChildren: for any number  *)
(* of children, callers that wait and processes that die, in any order, no *)
(* child is ever lost from the list, no status is thrown away before it is *)
(* asked for, and a wait is refused only when nothing can come of it. The  *)
(* hypothesis is that a collection does not come between the fork and the  *)
(* listing of a child that a handler forks as well; without it each of the *)
(* three is false (OsChildrenCons.cfg).                                    *)
(***************************************************************************)

(* Unlinking a child from a list takes out that child alone. *)
LEMMA UnlinkedProperties ==
    ASSUME NEW S, NEW l \in Seq(S), NEW c \in ToSet(l)
    PROVE  /\ Unlinked(l, c) \in Seq(S)
           /\ ToSet(l) \ {c} \subseteq ToSet(Unlinked(l, c))
           /\ ToSet(Unlinked(l, c)) \subseteq ToSet(l)
<1> DEFINE i == CHOOSE j \in DOMAIN l : l[j] = c
<1>1. i \in 1 .. Len(l) /\ l[i] = c
  BY LenProperties DEF ToSet
<1>2. Unlinked(l, c) = RemoveAt(l, i)
  BY DEF Unlinked
<1> HIDE DEF i
<1> QED BY <1>1, <1>2, RemoveAtProperties, RemoveAtRange

(* Giving up one child (set_no_wait) takes it out of a list only if it is  *)
(* dead.                                                                   *)
LEMMA SetNoWaitProperties ==
    ASSUME NEW S, NEW l \in Seq(S), NEW c
    PROVE  /\ SetNoWait(l, c) \in Seq(S)
           /\ ToSet(l) \ (dead \cap {c}) \subseteq ToSet(SetNoWait(l, c))
           /\ ToSet(SetNoWait(l, c)) \subseteq ToSet(l)
BY UnlinkedProperties DEF SetNoWait

(* Giving up several children takes out of a list only those that are      *)
(* dead.                                                                   *)
LEMMA SetNoWaitAllProperties ==
    ASSUME NEW S, NEW l \in Seq(S), NEW pids \in Seq(S)
    PROVE  /\ SetNoWaitAll(l, pids) \in Seq(S)
           /\ ToSet(l) \ (dead \cap ToSet(pids)) \subseteq ToSet(SetNoWaitAll(l, pids))
           /\ ToSet(SetNoWaitAll(l, pids)) \subseteq ToSet(l)
<1> DEFINE n == Len(pids)
           Unfolded(g) == [i \in 0 .. n |-> IF i = 0 THEN l ELSE SetNoWait(g[i - 1], pids[i])]
           after == CHOOSE g : g = Unfolded(g)
           G == [i \in 1 .. n |-> [s \in Seq(S) |-> SetNoWait(s, pids[i])]]
<1>1. n \in Nat /\ DOMAIN pids = 1 .. n
  BY LenProperties
<1>2. G \in [1 .. n -> [Seq(S) -> Seq(S)]]
  BY SetNoWaitProperties
<1>3. \E f \in [0 .. n -> Seq(S)] : f[0] = l /\ \A i \in 1 .. n : f[i] = G[i][f[i - 1]]
  <2>1. G \in StepFunctions(Seq(S), n)
    BY <1>2 DEF StepFunctions
  <2> HIDE DEF G, n
  <2>2. HasIterates(Seq(S), l, n, G)
    BY <1>1, <2>1, IteratesExist
  <2> QED BY <2>2 DEF HasIterates
<1>4. PICK f \in [0 .. n -> Seq(S)] : f[0] = l /\ \A i \in 1 .. n : f[i] = SetNoWait(f[i - 1], pids[i])
  <2>1. PICK f \in [0 .. n -> Seq(S)] : f[0] = l /\ \A i \in 1 .. n : f[i] = G[i][f[i - 1]]
    BY <1>3
  <2>2. ASSUME NEW i \in 1 .. n
        PROVE  f[i] = SetNoWait(f[i - 1], pids[i])
    <3>1. i - 1 \in 0 .. n /\ f[i - 1] \in Seq(S)
      BY <1>1
    <3> QED BY <2>1, <3>1
  <2> QED BY <2>1, <2>2
<1>5. f = Unfolded(f)
  <2>1. ASSUME NEW i \in 0 .. n
        PROVE  f[i] = IF i = 0 THEN l ELSE SetNoWait(f[i - 1], pids[i])
    BY <1>1, <1>4
  <2> QED BY <2>1
<1>6. after = Unfolded(after)
  BY <1>5
<1>7. SetNoWaitAll(l, pids) = after[n]
  BY DEF SetNoWaitAll
<1>8. after[0] = l /\ \A i \in 1 .. n : after[i] = SetNoWait(after[i - 1], pids[i])
  <2> HIDE DEF after, n
  <2>1. ASSUME NEW i \in 0 .. n
        PROVE  after[i] = IF i = 0 THEN l ELSE SetNoWait(after[i - 1], pids[i])
    BY <1>6, Zenon
  <2>2. after[0] = l
    BY <1>1, <2>1
  <2>3. ASSUME NEW i \in 1 .. n
        PROVE  after[i] = SetNoWait(after[i - 1], pids[i])
    <3>1. i \in 0 .. n /\ i # 0
      BY <1>1
    <3> QED BY <2>1, <3>1
  <2> QED BY <2>2, <2>3
<1> HIDE DEF after
<1> DEFINE Good(i) == /\ after[i] \in Seq(S)
                      /\ ToSet(l) \ (dead \cap ToSet(pids)) \subseteq ToSet(after[i])
                      /\ ToSet(after[i]) \subseteq ToSet(l)
           T == {i \in Nat : i <= n => Good(i)}
<1>9. 0 \in T
  BY <1>8
<1>10. ASSUME NEW i \in Nat, i \in T
       PROVE  i + 1 \in T
  <2> SUFFICES ASSUME i + 1 <= n
               PROVE  Good(i + 1)
    OBVIOUS
  <2>1. after[i + 1] = SetNoWait(after[i], pids[i + 1]) /\ i + 1 \in 1 .. n
    BY <1>1, <1>8
  <2>2. Good(i)
    BY <1>1, <1>10
  <2>3. pids[i + 1] \in ToSet(pids)
    BY <1>1, <2>1 DEF ToSet
  <2> QED BY <2>1, <2>2, <2>3, SetNoWaitProperties
<1>11. n \in T
  <2> HIDE DEF T
  <2> QED BY <1>1, <1>9, <1>10, NatSetInduction
<1> QED BY <1>1, <1>7, <1>11

-----------------------------------------------------------------------------
(* The program is one of those the code is right for: the check point of a *)
(* collection inside sys_fork does not meet an ast procedure that forks.   *)
Apart == ~(GcInFork /\ HandlerForks)

(* Every SIG_CHILD in the ring, and the one the kernel holds, stands for a *)
(* death of its own.                                                       *)
Died == {c \in Child : os[c] \in {"zombie", "gone"}}
SignalsAreDeaths == asts + (IF sigchld THEN 1 ELSE 0) <= Cardinality(Died)

(* The child between pop_fork and its entry, and the list it will be put   *)
(* on: what a trap takes off the list meanwhile comes back with it.        *)
ForkingSound ==
    /\ forking \in Child <=> at \in {"unlisted", "consing"}
    /\ forking \in Child => /\ os[forking] \in {"running", "zombie"}
                            /\ forking \notin Listed
    /\ at = "consing" => Listed \subseteq ToSet(head) /\ forking \notin ToSet(head)

(* Where the thread may be while a trap scans the list. *)
ScanSound ==
    scan # 0 => at \in {"user", "woken", "rescanning"} \cup
                        (IF GcInFork THEN {"unlisted", "consing"} ELSE {})

(* Only forked children have entries or are waited for, and a child has    *)
(* been flagged dead exactly when it has been reaped.                      *)
OnlyForked ==
    /\ \A c \in Listed \cup ToSet(head) : os[c] # "unborn"
    /\ target # AnyChild => \A i \in DOMAIN target : os[target[i]] # "unborn"
    /\ \A c \in Child : os[c] = "gone" <=> c \in dead

(* An entry keeps its flag OSPROCF_WILL_WAIT as long as its child may be   *)
(* asked for.                                                              *)
FlagKept ==
    \A c \in Child \ (returned \cup givenUp) :
        kind[c].wait /\ os[c] # "unborn" /\ c # forking => c \in willWait

(* The inductive invariant. *)
IInv == /\ TypeOK /\ SignalsAreDeaths /\ ForkingSound /\ ScanSound /\ OnlyForked
        /\ FlagKept /\ ListedUntilReaped /\ StatusKept

(* The children of a list, and of the list with one more in front. *)
LEMMA ListElements ==
    ASSUME NEW S, NEW l \in Seq(S)
    PROVE  /\ ToSet(l) \subseteq S
           /\ \A i \in 1 .. Len(l) : l[i] \in ToSet(l)
           /\ DOMAIN l = 1 .. Len(l)
           /\ \A x \in S : <<x>> \o l \in Seq(S) /\ ToSet(<<x>> \o l) = {x} \cup ToSet(l)
<1>1. DOMAIN l = 1 .. Len(l) /\ Len(l) \in Nat /\ \A i \in 1 .. Len(l) : l[i] \in S
  BY LenProperties, ElementOfSeq
<1>2. ASSUME NEW x \in S
      PROVE  <<x>> \o l \in Seq(S) /\ ToSet(<<x>> \o l) = {x} \cup ToSet(l)
  <2> DEFINE m == <<x>> \o l
  <2>1. /\ m \in Seq(S) /\ Len(m) = Len(l) + 1
        /\ \A i \in 1 .. Len(l) + 1 : m[i] = IF i = 1 THEN x ELSE l[i - 1]
    OBVIOUS
  <2>2. DOMAIN m = 1 .. Len(l) + 1
    BY <2>1, LenProperties
  <2> HIDE DEF m
  <2>3. ASSUME NEW i \in 1 .. Len(l)
        PROVE  l[i] \in ToSet(m)
    <3>1. i + 1 \in 1 .. Len(l) + 1 /\ m[i + 1] = l[i]
      BY <1>1, <2>1
    <3> QED BY <2>2, <3>1 DEF ToSet
  <2>4. x \in ToSet(m)
    <3>1. 1 \in 1 .. Len(l) + 1 /\ m[1] = x
      BY <1>1, <2>1
    <3> QED BY <2>2, <3>1 DEF ToSet
  <2>5. ASSUME NEW i \in 1 .. Len(l) + 1
        PROVE  m[i] \in {x} \cup ToSet(l)
    BY <1>1, <2>1 DEF ToSet
  <2>6. ToSet(m) = {x} \cup ToSet(l)
    BY <1>1, <2>2, <2>3, <2>4, <2>5 DEF ToSet
  <2> QED BY <2>1, <2>6 DEF m
<1> QED BY <1>1, <1>2 DEF ToSet

(* The invariant holds at the start. *)
LEMMA InitIInv == Init => IInv
<1> SUFFICES ASSUME Init
             PROVE  IInv
  OBVIOUS
<1>1. ToSet(<<>>) = {} /\ <<>> \in Seq(Child)
  BY DEF ToSet
<1>2. Died = {} /\ Cardinality(Died) = 0 /\ Cardinality(Child) \in Nat
  BY FS_EmptySet, FS_CardinalityType, ChildAssumption DEF Died, Init
<1>3. Listed = {} /\ ToSet(head) = {}
  BY <1>1 DEF Init, Listed
<1>4. TypeOK
  <2>1. (CHOOSE k \in Kinds : TRUE) \in Kinds
    BY ChildAssumption
  <2>2. kind \in [Child -> Kinds]
    BY <2>1 DEF Init
  <2>3. asts \in 0 .. Cardinality(Child)
    BY <1>2 DEF Init
  <2> QED BY <1>1, <2>2, <2>3 DEF Init, TypeOK
<1> QED BY <1>2, <1>3, <1>4, ChildAssumption
        DEF Init, IInv, SignalsAreDeaths, ForkingSound, ScanSound, OnlyForked, FlagKept,
            ListedUntilReaped, StatusKept

(* The children that have died are finitely many, and no more than there   *)
(* are.                                                                    *)
LEMMA DiedFinite ==
    /\ IsFiniteSet(Died) /\ Cardinality(Died) \in Nat
    /\ Cardinality(Child) \in Nat /\ Cardinality(Died) <= Cardinality(Child)
BY ChildAssumption, FS_Subset, FS_CardinalityType DEF Died

(* Taking a reaped child out of the list takes out no other, and does not  *)
(* take it out while somebody will wait for it.                            *)
LEMMA UnlistProperties ==
    ASSUME TypeOK, NEW c \in Child, Reaped(c)
    PROVE  /\ Unlist(c) \in Seq(Child)
           /\ Listed \ {c} \subseteq ToSet(Unlist(c)) /\ ToSet(Unlist(c)) \subseteq Listed
           /\ c \in willWait => c \in ToSet(Unlist(c))
           /\ c \in Listed
<1>1. os_process_list \in Seq(Child) /\ c \in ToSet(os_process_list)
  BY ListElements DEF TypeOK, Reaped
<1> QED BY <1>1, UnlinkedProperties DEF Unlist, Drop, Listed

(* Steps of the operating system keep the invariant: a child exits, a      *)
(* signal becomes pending.                                                 *)
LEMMA KernelStep ==
    ASSUME IInv, Kernel
    PROVE  IInv'
<1> USE DEF IInv
<1>1. ASSUME NEW c \in Child, ChildDies(c)
      PROVE  IInv'
  <2> USE <1>1 DEF ChildDies, entries, thread, results
  <2>1. TypeOK'
    BY DEF TypeOK
  <2>2. SignalsAreDeaths'
    <3>1. Died' = Died \cup {c} /\ c \notin Died
      BY DEF Died, TypeOK
    <3>2. Cardinality(Died') = Cardinality(Died) + 1
      BY <3>1, DiedFinite, FS_AddElement
    <3> QED BY <3>2, DiedFinite DEF SignalsAreDeaths, TypeOK
  <2>3. Listed' = Listed
    BY DEF Listed
  <2>4. ForkingSound' /\ ScanSound' /\ OnlyForked' /\ FlagKept' /\ ListedUntilReaped' /\ StatusKept'
    BY <2>3 DEF ForkingSound, ScanSound, OnlyForked, FlagKept, ListedUntilReaped, StatusKept, TypeOK
  <2> QED BY <2>1, <2>2, <2>4
<1>2. ASSUME Deliver
      PROVE  IInv'
  <2> USE <1>2 DEF Deliver, entries, thread, results
  <2>1. asts + 1 \in 0 .. Cardinality(Child)
    BY DiedFinite DEF SignalsAreDeaths, TypeOK
  <2>2. TypeOK'
    BY <2>1 DEF TypeOK
  <2>3. SignalsAreDeaths'
    BY DEF SignalsAreDeaths, TypeOK, Died
  <2>4. Listed' = Listed
    BY DEF Listed
  <2>5. ForkingSound' /\ ScanSound' /\ OnlyForked' /\ FlagKept' /\ ListedUntilReaped' /\ StatusKept'
    BY <2>4 DEF ForkingSound, ScanSound, OnlyForked, FlagKept, ListedUntilReaped, StatusKept
  <2> QED BY <2>2, <2>3, <2>5
<1> QED BY <1>1, <1>2 DEF Kernel

(* The steps of a fork keep the invariant: consing the record, forking,    *)
(* and listing the child.                                                  *)
LEMMA ForkingStep ==
    ASSUME IInv, Forking
    PROVE  IInv'
<1> USE DEF IInv
<1>1. ASSUME NEW c \in Child, NEW k \in Kinds, Fork(c, k)
      PROVE  IInv'
  <2> USE <1>1 DEF Fork, entries, results
  <2>1. TypeOK'
    BY DEF TypeOK
  <2>2. Died' = Died /\ Listed' = Listed
    BY DEF Died, Listed, TypeOK
  <2>3. SignalsAreDeaths'
    BY <2>2 DEF SignalsAreDeaths
  <2>4. ForkingSound' /\ ScanSound'
    BY <2>2 DEF ForkingSound, ScanSound, OnlyForked, TypeOK
  <2>5. OnlyForked' /\ FlagKept'
    BY <2>2, ChildAssumption DEF OnlyForked, FlagKept, TypeOK, ForkingSound
  <2>6. ListedUntilReaped' /\ StatusKept'
    BY <2>2 DEF ListedUntilReaped, StatusKept, TypeOK, ForkingSound
  <2> QED BY <2>1, <2>3, <2>4, <2>5, <2>6
<1>2. ASSUME PushList
      PROVE  IInv'
  <2> USE <1>2 DEF PushList, kernel, entries, results
  <2>1. TypeOK'
    BY DEF TypeOK
  <2>2. Died' = Died /\ Listed' = Listed /\ ToSet(head') = Listed
    BY DEF Died, Listed
  <2> QED BY <2>1, <2>2
          DEF SignalsAreDeaths, ForkingSound, ScanSound, OnlyForked, FlagKept, ListedUntilReaped, StatusKept
<1>3. ASSUME AddEntry
      PROVE  IInv'
  <2> USE <1>3 DEF AddEntry, kernel, results
  <2>1. forking \in Child /\ head \in Seq(Child) /\ os[forking] \in {"running", "zombie"}
    BY DEF ForkingSound, TypeOK
  <2>2. /\ os_process_list' \in Seq(Child) /\ Listed' = {forking} \cup ToSet(head)
        /\ ToSet(head') = {} /\ Died' = Died
    <3>1. ToSet(<<>>) = {}
      BY DEF ToSet
    <3> QED BY <2>1, <3>1, ListElements DEF Listed, Died
  <2>3. TypeOK'
    BY <2>1, <2>2 DEF TypeOK
  <2>4. Listed \cup {forking} \subseteq Listed'
    BY <2>2 DEF ForkingSound
  <2>5. SignalsAreDeaths' /\ ForkingSound' /\ ScanSound'
    BY <2>2, ChildAssumption DEF SignalsAreDeaths, ForkingSound, ScanSound
  <2>6. OnlyForked'
    BY <2>1, <2>2 DEF OnlyForked
  <2>7. FlagKept'
    BY <2>1 DEF FlagKept
  <2>8. ListedUntilReaped' /\ StatusKept'
    BY <2>4 DEF ListedUntilReaped, StatusKept
  <2> QED BY <2>3, <2>5, <2>6, <2>7, <2>8
<1> QED BY <1>1, <1>2, <1>3 DEF Forking

(* The scan of the SIGCHLD handler keeps the invariant: for each child     *)
(* that is reaped, its status is stored and it is unlinked when nobody     *)
(* will wait for it.                                                       *)
LEMMA ScanStep ==
    ASSUME Apart, IInv, Trap \/ Scanning
    PROVE  IInv'
<1> USE DEF IInv
<1>1. ASSUME Trap \/ PassOver \/ ScanEnds
      PROVE  IInv'
  <2> USE <1>1 DEF Trap, PassOver, ScanEnds, kernel, entries, thread, results
  <2>1. TypeOK'
    BY DiedFinite, SMTT(40) DEF TypeOK
  <2>2. Died' = Died /\ Listed' = Listed
    BY DEF Died, Listed
  <2>3. SignalsAreDeaths'
    BY <2>2, DiedFinite DEF SignalsAreDeaths, TypeOK
  <2>4. ScanSound'
    BY DEF ScanSound, CheckPoint
  <2>5. ForkingSound' /\ OnlyForked' /\ FlagKept' /\ ListedUntilReaped' /\ StatusKept'
    BY <2>2 DEF ForkingSound, OnlyForked, FlagKept, ListedUntilReaped, StatusKept
  <2> QED BY <2>1, <2>3, <2>4, <2>5
<1>2. ASSUME NEW c \in Child, ReapWithAst(c) \/ ReapWithoutAst(c)
      PROVE  IInv'
  <2> USE <1>2 DEF ReapWithAst, ReapWithoutAst, thread, results
  <2>1. Reaped(c)
    OBVIOUS
  <2>2. /\ Listed' = ToSet(Unlist(c)) /\ os_process_list' \in Seq(Child)
        /\ Listed \ {c} \subseteq Listed' /\ Listed' \subseteq Listed
        /\ c \in willWait => c \in Listed'
        /\ c \in Listed
    BY <2>1, UnlistProperties DEF Listed
  <2>3. Died' = Died
    BY <2>1 DEF Died, TypeOK, Reaped
  <2>4. TypeOK'
    <3>1. os' \in [Child -> {"unborn", "running", "zombie", "gone"}] /\ dead' \subseteq Child
      BY <2>1 DEF TypeOK, Reaped
    <3>2. scan' \in Nat /\ ran' \in {ran, [ran EXCEPT ![c] = @ + 1]}
      OBVIOUS
    <3>3. ran' \in [Child -> Nat]
      BY <3>2 DEF TypeOK
    <3> QED BY <2>2, <3>1, <3>2, <3>3 DEF TypeOK
  <2>5. SignalsAreDeaths' /\ ForkingSound' /\ ScanSound'
    BY <2>1, <2>2, <2>3 DEF SignalsAreDeaths, ForkingSound, ScanSound, TypeOK, Reaped
  <2>6. OnlyForked'
    <3>1. os' = [os EXCEPT ![c] = "gone"] /\ dead' = dead \cup {c} /\ os[c] = "zombie"
      BY <2>1 DEF Reaped
    <3>2. \A x \in Child : os'[x] = "unborn" <=> os[x] = "unborn"
      BY <3>1 DEF TypeOK
    <3>3. ToSet(head) \subseteq Child /\ Listed \subseteq Child
      BY ListElements DEF TypeOK, Listed
    <3>4. target # AnyChild => \A i \in DOMAIN target : target[i] \in Child
      BY ElementOfSeq, LenProperties DEF TypeOK
    <3>5. \A x \in Child : os'[x] = "gone" <=> x \in dead'
      BY <3>1 DEF OnlyForked, TypeOK
    <3> QED BY <2>2, <3>2, <3>3, <3>4, <3>5 DEF OnlyForked
  <2>7. FlagKept' /\ ListedUntilReaped'
    BY <2>1, <2>2 DEF FlagKept, ListedUntilReaped, TypeOK, Reaped
  <2>8. StatusKept'
    BY <2>1, <2>2, SMTT(40) DEF StatusKept, FlagKept, ForkingSound, TypeOK, Reaped
  <2> QED BY <2>4, <2>5, <2>6, <2>7, <2>8
<1>3. ASSUME NEW c \in Child, NEW e \in Child, NEW k \in Kinds, ReapWithForkingAst(c, e, k)
      PROVE  IInv'
  <2> USE <1>3 DEF ReapWithForkingAst, thread
  <2>1. Reaped(c) /\ forking \notin Child /\ at # "consing" /\ c # e
    BY DEF Apart, Reaped, ForkingSound, ScanSound, TypeOK
  <2>2. /\ Unlist(c) \in Seq(Child)
        /\ Listed \ {c} \subseteq ToSet(Unlist(c)) /\ ToSet(Unlist(c)) \subseteq Listed
        /\ c \in willWait => c \in ToSet(Unlist(c))
        /\ c \in Listed
    BY <2>1, UnlistProperties
  <2>3. Listed' = {e} \cup ToSet(Unlist(c)) /\ os_process_list' \in Seq(Child)
    BY <2>2, ListElements DEF Listed
  <2>4. Died' = Died
    BY <2>1 DEF Died, TypeOK, Reaped
  <2>5. TypeOK'
    <3>1. os' \in [Child -> {"unborn", "running", "zombie", "gone"}] /\ dead' \subseteq Child
      BY <2>1 DEF TypeOK, Reaped
    <3>2. ran' \in [Child -> Nat] /\ scan' \in Nat
      BY DEF TypeOK
    <3>3. kind' \in [Child -> Kinds] /\ willWait' \subseteq Child
      BY DEF TypeOK
    <3> QED BY <2>3, <3>1, <3>2, <3>3 DEF TypeOK
  <2>6. SignalsAreDeaths' /\ ForkingSound' /\ ScanSound'
    BY <2>1, <2>4, ChildAssumption DEF SignalsAreDeaths, ForkingSound, ScanSound, Apart, Reaped
  <2>7. OnlyForked'
    <3>1. /\ os' = [os EXCEPT ![c] = "gone", ![e] = "running"] /\ dead' = dead \cup {c}
          /\ os[c] = "zombie" /\ os[e] = "unborn"
      BY <2>1 DEF Reaped
    <3>2. \A x \in Child : os'[x] = "unborn" => os[x] = "unborn" /\ x # e
      BY <3>1 DEF TypeOK
    <3>3. ToSet(head) \subseteq Child /\ Listed \subseteq Child
      BY ListElements DEF TypeOK, Listed
    <3>4. target # AnyChild => \A i \in DOMAIN target : target[i] \in Child
      BY ElementOfSeq, LenProperties DEF TypeOK
    <3>5. \A x \in Child : os'[x] = "gone" <=> x \in dead'
      BY <3>1 DEF OnlyForked, TypeOK
    <3> QED BY <2>2, <2>3, <3>2, <3>3, <3>4, <3>5 DEF OnlyForked
  <2>8. FlagKept' /\ ListedUntilReaped'
    BY <2>1, <2>2, <2>3 DEF FlagKept, ListedUntilReaped, TypeOK, Reaped
  <2>9. StatusKept'
    BY <2>1, <2>2, <2>3, ZenonT(60) DEF StatusKept, FlagKept, TypeOK, Reaped
  <2> QED BY <2>5, <2>6, <2>7, <2>8, <2>9
<1> QED BY <1>1, <1>2, <1>3 DEF Scanning, Reap

(* The children that a wait asks for are children. *)
LEMMA AskedProperties ==
    ASSUME TypeOK
    PROVE  /\ \A i \in DOMAIN Asked : Asked[i] \in Child
           /\ target # AnyChild => target \in Seq(Child)
BY ElementOfSeq, LenProperties DEF TypeOK, Asked

(* Leaving a wait abnormally takes out of the list only dead children that *)
(* nobody will wait for any more.                                          *)
LEMMA AbexitProperties ==
    ASSUME TypeOK, Abexit
    PROVE  /\ os_process_list' \in Seq(Child)
           /\ \A c \in Listed : c \in Listed' \/ c \in dead \cap givenUp'
           /\ Listed' \subseteq Listed
           /\ willWait' \subseteq willWait /\ willWait \ givenUp' \subseteq willWait'
           /\ givenUp \subseteq givenUp' /\ givenUp' \subseteq Child
<1> DEFINE given == IF target = AnyChild THEN <<>> ELSE target
<1>1. given \in Seq(Child) /\ os_process_list \in Seq(Child)
  BY DEF TypeOK
<1>2. /\ os_process_list' = SetNoWaitAll(os_process_list, given)
      /\ willWait' = willWait \ (ToSet(given) \ dead)
      /\ givenUp' = givenUp \cup ToSet(given)
  BY DEF Abexit
<1> HIDE DEF given
<1>3. ToSet(given) \subseteq Child
  BY <1>1, ListElements
<1> QED BY <1>1, <1>2, <1>3, SetNoWaitAllProperties DEF Listed, TypeOK

(* The steps of syswait keep the invariant, those of leaving it abnormally *)
(* included.                                                               *)
LEMMA WaitingStep ==
    ASSUME IInv, Waiting
    PROVE  IInv'
<1> USE DEF IInv
<1>1. ASSUME NEW t \in Targets, StartWait(t)
      PROVE  IInv'
  <2> USE <1>1 DEF StartWait, kernel, entries, results
  <2>1. t # AnyChild => t \in Seq(Child) /\ \A i \in DOMAIN t : os[t[i]] # "unborn"
    <3>1. ASSUME NEW c \in Forked, NEW e \in Forked
          PROVE  /\ <<c>> \in Seq(Child) /\ DOMAIN <<c>> = {1}
                 /\ <<c, e>> \in Seq(Child) /\ DOMAIN <<c, e>> = {1, 2}
                 /\ os[c] # "unborn" /\ os[e] # "unborn"
      BY <3>1 DEF Forked
    <3>2. t # AnyChild => \E c, e \in Forked : t = <<c>> \/ t = <<c, e>>
      BY DEF Targets
    <3> SUFFICES ASSUME t # AnyChild
                 PROVE  t \in Seq(Child) /\ \A i \in DOMAIN t : os[t[i]] # "unborn"
      OBVIOUS
    <3>3. PICK c, e \in Forked : t = <<c>> \/ t = <<c, e>>
      BY <3>2
    <3>4. CASE t = <<c>>
      BY <3>1, <3>4
    <3>5. CASE t = <<c, e>>
      BY <3>1, <3>5
    <3> QED BY <3>3, <3>4, <3>5
  <2>2. TypeOK'
    BY <2>1 DEF TypeOK
  <2>3. Died' = Died /\ Listed' = Listed
    BY DEF Died, Listed
  <2> QED BY <2>1, <2>2, <2>3
          DEF SignalsAreDeaths, ForkingSound, ScanSound, OnlyForked, FlagKept, ListedUntilReaped, StatusKept
<1>2. ASSUME NothingToWaitFor \/ Park \/ Wake \/ Rescan \/ TestAgain
      PROVE  IInv'
  <2>1. /\ target' \in {target, AnyChild} /\ waited' \in {waited, TRUE, FALSE} /\ scan' \in {scan, 1}
        /\ at' \in {"user", "testing", "parked", "woken", "rescanning"}
        /\ at \notin {"unlisted", "consing"}
        /\ UNCHANGED <<os, kind, sigchld, asts, os_process_list, dead, willWait, forking, head,
                       ran, returned, givenUp, refused>>
    BY <1>2 DEF NothingToWaitFor, Park, Wake, Rescan, TestAgain, EndWait, kernel, entries, results
  <2>2. Died' = Died /\ Listed' = Listed
    BY <2>1 DEF Died, Listed
  <2>3. waited' \in BOOLEAN /\ scan' \in Nat
    <3>1. waited' \in BOOLEAN
      BY <2>1, Zenon DEF TypeOK
    <3>2. scan' \in Nat
      BY <2>1 DEF TypeOK
    <3> QED BY <3>1, <3>2
  <2>4. TypeOK'
    BY <2>1, <2>3 DEF TypeOK
  <2>5. ScanSound'
    BY <1>2 DEF NothingToWaitFor, Park, Wake, Rescan, TestAgain, EndWait, ScanSound
  <2> QED BY <2>1, <2>2, <2>4, <2>5
          DEF SignalsAreDeaths, ForkingSound, OnlyForked, FlagKept, ListedUntilReaped, StatusKept
<1>3. ASSUME NEW i \in DOMAIN Asked, Return(i)
      PROVE  IInv'
  <2> USE <1>3 DEF Return, EndWait, kernel
  <2>1. Asked[i] \in Child /\ Asked[i] \in Listed
    BY AskedProperties
  <2>2. /\ os_process_list' \in Seq(Child)
        /\ Listed \ {Asked[i]} \subseteq Listed' /\ Listed' \subseteq Listed
    BY <2>1, UnlinkedProperties DEF Drop, Listed, TypeOK
  <2>3. TypeOK' /\ Died' = Died
    BY <2>1, <2>2 DEF TypeOK, Died
  <2>4. SignalsAreDeaths' /\ ForkingSound' /\ ScanSound' /\ OnlyForked'
    BY <2>2, <2>3 DEF SignalsAreDeaths, ForkingSound, ScanSound, OnlyForked
  <2>5. FlagKept' /\ ListedUntilReaped' /\ StatusKept'
    BY <2>1, <2>2 DEF FlagKept, ListedUntilReaped, StatusKept, OnlyForked
  <2> QED BY <2>3, <2>4, <2>5
<1>4. ASSUME \/ Abexit /\ UNCHANGED refused
             \/ \E i \in DOMAIN Asked : refused' = refused \cup {Asked[i]} /\
                    IF waited THEN Abexit ELSE UNCHANGED <<os_process_list, willWait, givenUp>>,
             EndWait, at \in {"testing", "woken"},
             UNCHANGED <<kernel, asts, dead, forking, head, scan, ran, returned>>
      PROVE  IInv'
  <2> USE <1>4 DEF EndWait, kernel
  <2>1. /\ os_process_list' \in Seq(Child)
        /\ \A c \in Listed : c \in Listed' \/ c \in dead \cap givenUp'
        /\ Listed' \subseteq Listed
        /\ willWait' \subseteq willWait /\ willWait \ givenUp' \subseteq willWait'
        /\ givenUp \subseteq givenUp' /\ givenUp' \subseteq Child
    BY AbexitProperties DEF Listed, TypeOK
  <2>2. refused' \subseteq Child
    BY AskedProperties DEF TypeOK
  <2>3. TypeOK' /\ Died' = Died
    BY <2>1, <2>2 DEF TypeOK, Died
  <2>4. SignalsAreDeaths' /\ ForkingSound' /\ ScanSound' /\ OnlyForked'
    BY <2>1, <2>3 DEF SignalsAreDeaths, ForkingSound, ScanSound, OnlyForked
  <2>5. FlagKept' /\ ListedUntilReaped' /\ StatusKept'
    BY <2>1 DEF FlagKept, ListedUntilReaped, StatusKept, OnlyForked
  <2> QED BY <2>3, <2>4, <2>5
<1>5. ASSUME NEW i \in DOMAIN Asked, Refuse(i)
      PROVE  IInv'
  BY <1>4, <1>5 DEF Refuse
<1>6. ASSUME Abandon
      PROVE  IInv'
  BY <1>4, <1>6 DEF Abandon
<1> QED BY <1>1, <1>2, <1>3, <1>5, <1>6 DEF Waiting, Test

(* The invariant is inductive. *)
LEMMA NextIInv == Apart /\ IInv /\ [Next]_vars => IInv'
<1> SUFFICES ASSUME Apart, IInv, [Next]_vars
             PROVE  IInv'
  OBVIOUS
<1>1. CASE Next
  BY <1>1, KernelStep, ForkingStep, ScanStep, WaitingStep DEF Next
<1>2. CASE UNCHANGED vars
  <2>1. Listed' = Listed /\ Died' = Died /\ TypeOK'
    BY <1>2 DEF vars, Listed, Died, IInv, TypeOK
  <2> QED BY <1>2, <2>1
          DEF vars, IInv, SignalsAreDeaths, ForkingSound, ScanSound, OnlyForked, FlagKept,
              ListedUntilReaped, StatusKept
<1> QED BY <1>1, <1>2

-----------------------------------------------------------------------------

(* A child that has been forked and not yet waited for is in               *)
(* os_process_list from the moment it is listed, whatever scans,           *)
(* collections and abnormal exits come between.                            *)
THEOREM NoChildLost == Apart => (Spec => []ChildrenListed)
<1> SUFFICES ASSUME Apart
             PROVE  Spec => []ChildrenListed
  OBVIOUS
<1>1. IInv /\ [Next]_vars => IInv'
  BY NextIInv
<1>2. IInv => ChildrenListed
  BY DEF IInv, ChildrenListed
<1> QED BY <1>1, <1>2, InitIInv, PTL DEF Spec

(* The status of a child that died is kept, in its record, until the wait  *)
(* it is for has returned it or was given up.                              *)
THEOREM NoStatusLost == Apart => (Spec => []StatusKept)
<1> SUFFICES ASSUME Apart
             PROVE  Spec => []StatusKept
  OBVIOUS
<1>1. IInv /\ [Next]_vars => IInv'
  BY NextIInv
<1>2. IInv => StatusKept
  BY DEF IInv
<1> QED BY <1>1, <1>2, InitIInv, PTL DEF Spec

(* syswait says that there is no child to wait for only when there is      *)
(* none.                                                                   *)
THEOREM RefusesRightly == Apart => (Spec => NoFalseRefusal)
<1> DEFINE A == \A c \in refused' \ refused : ~kind[c].wait \/ c \in returned \cup givenUp
<1> SUFFICES ASSUME Apart
             PROVE  Spec => [][A]_vars
  BY DEF NoFalseRefusal
<1>1. IInv /\ [Next]_vars => IInv'
  BY NextIInv
<1>2. IInv /\ [Next]_vars => [A]_vars
  <2> SUFFICES ASSUME IInv, Next, NEW c \in refused' \ refused
               PROVE  ~kind[c].wait \/ c \in returned \cup givenUp
    BY DEF vars
  <2>1. PICK i \in DOMAIN Asked : Refuse(i)
    BY DEF Next, Kernel, ChildDies, Deliver, Forking, Fork, PushList, AddEntry, Trap, Scanning,
           PassOver, ScanEnds, Reap, ReapWithAst, ReapWithForkingAst, ReapWithoutAst,
           Waiting, StartWait, Test, Return, NothingToWaitFor, Park, Wake, Rescan, TestAgain, Abandon,
           thread, results
  <2>2. c = Asked[i] /\ c \in Child /\ c \notin Listed /\ forking # c
    BY <2>1, AskedProperties DEF IInv, Refuse, ForkingSound
  <2>3. os[c] # "unborn"
    <3>1. target # AnyChild
      BY <2>1, <2>2, ListElements DEF IInv, TypeOK, Asked, Listed
    <3> QED BY <2>1, <2>2, <3>1 DEF IInv, OnlyForked, Asked
  <2> QED BY <2>2, <2>3 DEF IInv, ListedUntilReaped, StatusKept, TypeOK
<1> QED BY <1>1, <1>2, InitIInv, PTL DEF Spec

-----------------------------------------------------------------------------
(***************************************************************************)
(* Proofs about the table of timers of SysTimer, for any number of slots   *)
(* and of procedures.  A slot is never lost, whatever the program does: of *)
(* that, Plain and InUse are the invariant.  And a slot never has two      *)
(* owners, if the program is not Hasty, that is, sets no timer while an    *)
(* expiry of a repeating timer that it has cancelled since is still in the *)
(* ring and its slot is free already; without that it is false             *)
(* (SysTimerStale.cfg).                                                    *)
(***************************************************************************)

(* Tables, chain and entries of C: the chain has the free slots, once, and *)
(* a slot marked as repeating has an entry that repeats.                   *)
Plain(tab, flags, free, run) ==
    /\ tab \in [Slot -> Astp \cup {None, Cancelled}]
    /\ flags \in [Slot -> BOOLEAN]
    /\ free \in Seq(Slot)
    /\ \A i, j \in 1 .. Len(free) : free[i] = free[j] => i = j
    /\ \A t \in Slot : tab[t] = None <=> \E i \in 1 .. Len(free) : free[i] = t
    /\ run \subseteq Entry /\ IsFiniteSet(run) /\ Cardinality(run) <= N
    /\ \A t \in Slot : flags[t] => \E e \in run : e.slot = t /\ e.repeat

(* The ast in a slot will be found again. *)
InUse(tab, run, q) ==
    \A t \in Slot : tab[t] \in Astp =>
        (\E e \in run : e.slot = t) \/ (\E i \in 1 .. Len(q) : q[i].slot = t)

(* The stack holds handlers and calls of Get_tim. *)
StackType ==
    Seq([fn : {"handler"}, astp : Astp]
          \cup [fn : {"Get_tim"}, slot : Slot, astp : Astp \cup {None}, repeat : BOOLEAN])

(* The inductive invariant of the slots. *)
SlotInv ==
    /\ Plain(timertab, timerflags, chain, running)
    /\ ring \in Seq(Entry)
    /\ InUse(timertab, running, ring)
    /\ stack \in StackType

(* The entries of C and the slots. *)
RunningSound(tab, flags, run) ==
    /\ \A e \in run : tab[e.slot] = e.astp /\ flags[e.slot] = e.repeat
    /\ \A e, f \in run : e.slot = f.slot => e = f

(* The expiries and the slots. *)
RingSound(tab, flags, run, q) ==
    \A i \in 1 .. Len(q) :
        /\ q[i].repeat => \/ tab[q[i].slot] = None
                          \/ tab[q[i].slot] = q[i].astp /\ flags[q[i].slot]
        /\ ~q[i].repeat =>
             /\ tab[q[i].slot] \in {q[i].astp, Cancelled}
             /\ \A e \in run : e.slot # q[i].slot
             /\ \A j \in 1 .. Len(q) : q[j].slot = q[i].slot => j = i

(* What a slot holds, if only false, will be found again. *)
Awaited(tab, run, q) ==
    \A t \in Slot : tab[t] # None =>
        (\E e \in run : e.slot = t) \/ (\E i \in 1 .. Len(q) : q[i].slot = t)

(* Tables, chain, entries of C and ring, and how they fit together. *)
Core(tab, flags, free, run, q) ==
    /\ Plain(tab, flags, free, run)
    /\ q \in Seq(Entry)
    /\ RunningSound(tab, flags, run)
    /\ RingSound(tab, flags, run, q)

(* The inductive invariant of the owners. *)
OwnerInv ==
    /\ Core(timertab, timerflags, chain, running, ring)
    /\ Awaited(timertab, running, ring)
    /\ stack \in StackType

-----------------------------------------------------------------------------
(* A chain of free slots that holds no slot twice is no longer than the    *)
(* table.                                                                  *)
LEMMA ChainLength ==
    ASSUME NEW free \in Seq(Slot),
           \A i, j \in 1 .. Len(free) : free[i] = free[j] => i = j
    PROVE  Len(free) <= N
<1> SUFFICES ASSUME Len(free) > N
             PROVE  FALSE
  BY SysTimerAssumption
<1>1. Len(free) \in Nat /\ N \in Nat /\ free \in [1 .. Len(free) -> Slot]
  BY SysTimerAssumption
<1>2. /\ IsFiniteSet(1 .. Len(free)) /\ Cardinality(1 .. Len(free)) = Len(free)
      /\ IsFiniteSet(Slot) /\ Cardinality(Slot) = N
  <2>1. \A n \in Nat : IsFiniteSet(1 .. n) /\ Cardinality(1 .. n) = n
    <3> SUFFICES ASSUME NEW n \in Nat
                 PROVE  IsFiniteSet(1 .. n) /\ Cardinality(1 .. n) = n
      OBVIOUS
    <3>1. IsFiniteSet(1 .. n) /\ Cardinality(1 .. n) = IF 1 > n THEN 0 ELSE n - 1 + 1
      BY FS_Interval
    <3> QED BY <3>1
  <2> QED BY <2>1, <1>1 DEF Slot
<1>3. \E i, j \in 1 .. Len(free) : i # j /\ free[i] = free[j]
  BY <1>1, <1>2, FS_PigeonHole
<1> QED BY <1>3

(* An expiry names a slot, and what it says of its timer is of its type.   *)
LEMMA EntryAt ==
    ASSUME NEW q \in Seq(Entry), NEW i \in 1 .. Len(q)
    PROVE  q[i] \in Entry /\ q[i].slot \in Slot /\ q[i].astp \in Astp /\ q[i].repeat \in BOOLEAN
<1>1. q[i] \in Entry
  OBVIOUS
<1> DEFINE e == q[i]
<1> HIDE DEF e
<1>2. e \in Entry => e.slot \in Slot /\ e.astp \in Astp /\ e.repeat \in BOOLEAN
  BY DEF Entry
<1> QED BY <1>1, <1>2 DEF e

(* The stack without its top is a stack, and its top is a handler or a     *)
(* call of Get_tim.                                                        *)
LEMMA FrontOfStack ==
    ASSUME stack \in StackType, stack # <<>>
    PROVE  Front(stack) \in StackType /\ Last(stack) \in
             [fn : {"handler"}, astp : Astp]
               \cup [fn : {"Get_tim"}, slot : Slot, astp : Astp \cup {None}, repeat : BOOLEAN]
<1> DEFINE T == [fn : {"handler"}, astp : Astp]
                  \cup [fn : {"Get_tim"}, slot : Slot, astp : Astp \cup {None}, repeat : BOOLEAN]
<1>1. stack \in Seq(T)
  BY DEF StackType
<1> HIDE DEF T
<1>2. Front(stack) \in Seq(T) /\ Last(stack) \in T
  <2>1. Len(stack) \in Nat /\ Len(stack) # 0
    BY <1>1
  <2>2. Len(stack) \in 1 .. Len(stack) /\ \A i \in 1 .. Len(stack) - 1 : i \in 1 .. Len(stack)
    BY <2>1
  <2> QED BY <1>1, <2>2, SubSeqProperties DEF Front, Last
<1> QED BY <1>2 DEF StackType, T

(* A slot t is freed, with some of its entries in C. *)
LEMMA FreePlain ==
    ASSUME NEW tab, NEW flags, NEW free, NEW run, Plain(tab, flags, free, run),
           NEW t \in Slot, tab[t] # None,
           NEW rest, rest \subseteq run, NEW flags2 \in [Slot -> BOOLEAN],
           \A u \in Slot : flags2[u] => \E e \in rest : e.slot = u /\ e.repeat
    PROVE  Plain(Freed(tab, t), flags2, <<t>> \o free, rest)
<1> DEFINE tab2 == Freed(tab, t)
           free2 == <<t>> \o free
<1>1. /\ tab2 \in [Slot -> Astp \cup {None, Cancelled}] /\ tab2[t] = None
      /\ \A u \in Slot : u # t => tab2[u] = tab[u]
  BY DEF Plain, Freed
<1>2. /\ free2 \in Seq(Slot) /\ Len(free2) = Len(free) + 1 /\ Len(free) \in Nat
      /\ free2[1] = t /\ \A i \in 1 .. Len(free) : free2[i + 1] = free[i]
  BY ConsProperties DEF Plain
<1> HIDE DEF tab2, free2
<1>3. \A i \in 1 .. Len(free2) : i = 1 \/ (i - 1 \in 1 .. Len(free) /\ free2[i] = free[i - 1])
  <2> SUFFICES ASSUME NEW i \in 1 .. Len(free2), i # 1
               PROVE  i - 1 \in 1 .. Len(free) /\ free2[i] = free[i - 1]
    OBVIOUS
  <2>1. i - 1 \in 1 .. Len(free) /\ (i - 1) + 1 = i
    BY <1>2
  <2> QED BY <2>1, <1>2
<1>4. \A i \in 1 .. Len(free) : free[i] \in Slot /\ free[i] # t
  BY DEF Plain
<1>5. \A i, j \in 1 .. Len(free2) : free2[i] = free2[j] => i = j
  <2> SUFFICES ASSUME NEW i \in 1 .. Len(free2), NEW j \in 1 .. Len(free2), free2[i] = free2[j]
               PROVE  i = j
    OBVIOUS
  <2>1. CASE i = 1 \/ j = 1
    BY <2>1, <1>2, <1>3, <1>4
  <2>2. CASE i # 1 /\ j # 1
    <3>1. i - 1 \in 1 .. Len(free) /\ j - 1 \in 1 .. Len(free) /\ free[i - 1] = free[j - 1]
      BY <2>2, <1>3
    <3>2. i - 1 = j - 1
      BY <3>1 DEF Plain
    <3> QED BY <3>2
  <2> QED BY <2>1, <2>2
<1>6. \A u \in Slot : tab2[u] = None <=> \E i \in 1 .. Len(free2) : free2[i] = u
  <2> SUFFICES ASSUME NEW u \in Slot
               PROVE  tab2[u] = None <=> \E i \in 1 .. Len(free2) : free2[i] = u
    OBVIOUS
  <2>1. CASE u = t
    <3>1. 1 \in 1 .. Len(free2)
      BY <1>2
    <3> QED BY <3>1, <2>1, <1>1, <1>2
  <2>2. CASE u # t
    <3>1. tab[u] = None <=> \E i \in 1 .. Len(free) : free[i] = u
      BY DEF Plain
    <3>2. (\E i \in 1 .. Len(free) : free[i] = u) => \E i \in 1 .. Len(free2) : free2[i] = u
      <4>1. \A i \in 1 .. Len(free) : i + 1 \in 1 .. Len(free2)
        BY <1>2
      <4> QED BY <4>1, <1>2
    <3>3. (\E i \in 1 .. Len(free2) : free2[i] = u) => \E i \in 1 .. Len(free) : free[i] = u
      BY <2>2, <1>2, <1>3
    <3> QED BY <3>1, <3>2, <3>3, <2>2, <1>1
  <2> QED BY <2>1, <2>2
<1>7. rest \subseteq Entry /\ IsFiniteSet(rest) /\ Cardinality(rest) <= N
  <2>1. rest \subseteq run /\ run \subseteq Entry /\ IsFiniteSet(run) /\ Cardinality(run) <= N
    BY DEF Plain
  <2>2. IsFiniteSet(rest) /\ Cardinality(rest) <= Cardinality(run)
    BY <2>1, FS_Subset
  <2>3. Cardinality(rest) \in Nat /\ Cardinality(run) \in Nat
    BY <2>1, <2>2, FS_CardinalityType
  <2> QED BY <2>1, <2>2, <2>3, SysTimerAssumption
<1> QED BY <1>1, <1>2, <1>5, <1>6, <1>7 DEF Plain, tab2, free2

(* Setting a timer takes the first slot of the chain, or changes nothing.  *)
LEMMA SetShape ==
    ASSUME NEW tab, NEW flags, NEW free, NEW run, Plain(tab, flags, free, run),
           NEW p \in Astp \cup {None}, NEW r \in BOOLEAN,
           Set(tab, flags, free, run, p, r)
    PROVE  \/ timertab' = tab /\ timerflags' = flags /\ chain' = free /\ running' = run
           \/ /\ p \in Astp /\ p # None /\ p # Cancelled /\ Cardinality(run) # N
              /\ \E t \in Slot, e \in Entry :
                   /\ e.slot = t /\ e.astp = p /\ e.repeat = r /\ running' = run \cup {e}
                   /\ tab[t] = None /\ free[1] = t /\ 1 \in 1 .. Len(free)
                   /\ timertab' \in [Slot -> Astp \cup {None, Cancelled}]
                   /\ timerflags' \in [Slot -> BOOLEAN]
                   /\ timertab'[t] = p /\ timerflags'[t] = r
                   /\ \A u \in Slot : u # t => timertab'[u] = tab[u] /\ timerflags'[u] = flags[u]
                   /\ Len(free) = Len(chain') + 1 /\ Len(chain') \in Nat /\ chain' \in Seq(Slot)
                   /\ \A i \in 1 .. Len(chain') : chain'[i] = free[i + 1]
<1>1. CASE p = None \/ free = <<>> \/ Cardinality(run) = N
  BY <1>1 DEF Set
<1>2. CASE ~(p = None \/ free = <<>> \/ Cardinality(run) = N)
  <2> DEFINE t == Head(free)
             e == [slot |-> t, astp |-> p, repeat |-> r]
  <2>1. /\ timertab' = [tab EXCEPT ![t] = p] /\ timerflags' = [flags EXCEPT ![t] = r]
        /\ chain' = Tail(free) /\ running' = run \cup {e}
    BY <1>2 DEF Set
  <2>2. /\ free \in Seq(Slot) /\ t \in Slot /\ t = free[1] /\ Len(free) = Len(chain') + 1
        /\ Len(chain') \in Nat /\ chain' \in Seq(Slot)
        /\ \A i \in 1 .. Len(chain') : chain'[i] = free[i + 1]
    <3>1. free \in Seq(Slot) /\ free # <<>>
      BY <1>2 DEF Plain
    <3>2. /\ Head(free) \in Slot /\ Tail(free) \in Seq(Slot) /\ Len(Tail(free)) = Len(free) - 1
          /\ \A i \in 1 .. Len(Tail(free)) : Tail(free)[i] = free[i + 1]
      BY <3>1, HeadTailProperties
    <3> QED BY <3>1, <3>2, <2>1
  <2>3. e \in Entry /\ e.slot = t /\ e.astp = p /\ e.repeat = r /\ p \in Astp
    BY <1>2, <2>2 DEF Entry
  <2> HIDE DEF t, e
  <2>4. tab[t] = None /\ p # None /\ p # Cancelled /\ 1 \in 1 .. Len(free)
    <3>1. 1 \in 1 .. Len(free)
      BY <2>2
    <3> QED BY <3>1, <2>2, <2>3, SysTimerAssumption DEF Plain
  <2>5. /\ timertab' \in [Slot -> Astp \cup {None, Cancelled}]
        /\ timerflags' \in [Slot -> BOOLEAN]
        /\ timertab'[t] = p /\ timerflags'[t] = r
        /\ \A u \in Slot : u # t => timertab'[u] = tab[u] /\ timerflags'[u] = flags[u]
    BY <2>1, <2>2, <2>3 DEF Plain
  <2> QED BY <1>2, <2>1, <2>2, <2>3, <2>4, <2>5
<1> QED BY <1>1, <1>2

(* It leaves the tables and the chain as they should be. *)
LEMMA SetPlain ==
    ASSUME NEW tab, NEW flags, NEW free, NEW run, Plain(tab, flags, free, run),
           NEW p \in Astp \cup {None}, NEW r \in BOOLEAN,
           Set(tab, flags, free, run, p, r)
    PROVE  Plain(timertab', timerflags', chain', running')
<1>1. CASE timertab' = tab /\ timerflags' = flags /\ chain' = free /\ running' = run
  BY <1>1
<1>2. CASE ~(timertab' = tab /\ timerflags' = flags /\ chain' = free /\ running' = run)
  <2>1. PICK t \in Slot, e \in Entry :
             /\ p # None /\ Cardinality(run) # N
             /\ e.slot = t /\ e.repeat = r /\ running' = run \cup {e}
             /\ tab[t] = None /\ free[1] = t /\ 1 \in 1 .. Len(free)
             /\ timertab' \in [Slot -> Astp \cup {None, Cancelled}]
             /\ timerflags' \in [Slot -> BOOLEAN]
             /\ timertab'[t] = p /\ timerflags'[t] = r
             /\ \A u \in Slot : u # t => timertab'[u] = tab[u] /\ timerflags'[u] = flags[u]
             /\ Len(free) = Len(chain') + 1 /\ Len(chain') \in Nat /\ chain' \in Seq(Slot)
             /\ \A i \in 1 .. Len(chain') : chain'[i] = free[i + 1]
    BY <1>2, SetShape
  <2>6. \A i, j \in 1 .. Len(chain') :
          /\ i + 1 \in 1 .. Len(free) /\ chain'[i] = free[i + 1]
          /\ i + 1 = j + 1 => i = j
    BY <2>1
  <2>7. \A i, j \in 1 .. Len(chain') : chain'[i] = chain'[j] => i = j
    <3> SUFFICES ASSUME NEW i \in 1 .. Len(chain'), NEW j \in 1 .. Len(chain'),
                        chain'[i] = chain'[j]
                 PROVE  i = j
      OBVIOUS
    <3>1. i + 1 = j + 1
      BY <2>6 DEF Plain
    <3> QED BY <3>1, <2>6
  <2>8. \A u \in Slot : timertab'[u] = None <=> \E i \in 1 .. Len(chain') : chain'[i] = u
    <3> SUFFICES ASSUME NEW u \in Slot
                 PROVE  timertab'[u] = None <=> \E i \in 1 .. Len(chain') : chain'[i] = u
      OBVIOUS
    <3>1. tab[u] = None <=> \E i \in 1 .. Len(free) : free[i] = u
      BY DEF Plain
    <3>2. CASE u = t
      <4>1. ASSUME NEW i \in 1 .. Len(chain'), chain'[i] = t
            PROVE  FALSE
        <5>1. 1 \in 1 .. Len(free) /\ i + 1 \in 1 .. Len(free) /\ free[i + 1] = free[1] /\ i + 1 # 1
          BY <4>1, <2>1, <2>6
        <5> QED BY <5>1 DEF Plain
      <4> QED BY <4>1, <3>2, <2>1
    <3>3. CASE u # t
      <4>1. ASSUME NEW i \in 1 .. Len(free), free[i] = u
            PROVE  \E j \in 1 .. Len(chain') : chain'[j] = u
        <5>1. i # 1
          BY <4>1, <3>3, <2>1
        <5>2. i - 1 \in 1 .. Len(chain') /\ (i - 1) + 1 = i
          BY <5>1, <2>1
        <5> QED BY <5>2, <4>1, <2>1
      <4>2. (\E j \in 1 .. Len(chain') : chain'[j] = u) => \E i \in 1 .. Len(free) : free[i] = u
        BY <2>6
      <4> QED BY <3>1, <4>1, <4>2, <3>3, <2>1
    <3> QED BY <3>2, <3>3
  <2>9. running' \subseteq Entry /\ IsFiniteSet(running') /\ Cardinality(running') <= N
    <3>1. run \subseteq Entry /\ IsFiniteSet(run) /\ Cardinality(run) <= N /\ Cardinality(run) # N
      BY <2>1 DEF Plain
    <3>2. /\ IsFiniteSet(run \cup {e})
          /\ Cardinality(run \cup {e}) = IF e \in run THEN Cardinality(run) ELSE Cardinality(run) + 1
      BY <3>1, FS_AddElement
    <3>3. Cardinality(run) \in Nat
      BY <3>1, FS_CardinalityType
    <3> QED BY <3>1, <3>2, <3>3, <2>1, SysTimerAssumption
  <2>10. \A u \in Slot : timerflags'[u] => \E f \in running' : f.slot = u /\ f.repeat
    BY <2>1 DEF Plain
  <2> QED BY <2>1, <2>7, <2>8, <2>9, <2>10 DEF Plain
<1> QED BY <1>1, <1>2

(* And every ast still is where it will be found. *)
LEMMA SetInUse ==
    ASSUME NEW tab, NEW flags, NEW free, NEW run, NEW q, Plain(tab, flags, free, run),
           NEW p \in Astp \cup {None}, NEW r \in BOOLEAN,
           Set(tab, flags, free, run, p, r)
    PROVE  /\ InUse(tab, run, q) => InUse(timertab', running', q)
           /\ Awaited(tab, run, q) => Awaited(timertab', running', q)
  BY SetShape DEF InUse, Awaited

-----------------------------------------------------------------------------
(* Slots: the invariant says what the theorem says. *)
LEMMA SlotInvSound ==
    ASSUME SlotInv
    PROVE  SlotsSound
<1>1. TimerTypeOK
  BY ChainLength DEF SlotInv, Plain, TimerTypeOK, StackType
<1>2. DOMAIN chain = 1 .. Len(chain) /\ DOMAIN ring = 1 .. Len(ring)
  BY DEF SlotInv, Plain
<1>3. ChainSound
  <2>1. IsInjective(chain)
    BY <1>2 DEF SlotInv, Plain, IsInjective
  <2>2. \A i \in 1 .. Len(chain) : chain[i] \in Slot
    BY DEF SlotInv, Plain
  <2>3. ToSet(chain) = {t \in Slot : timertab[t] = None}
    BY <1>2, <2>2 DEF SlotInv, Plain, ToSet
  <2> QED BY <2>1, <2>3 DEF ChainSound
<1>4. SlotInUse
  BY <1>2 DEF SlotInv, InUse, SlotInUse
<1> QED BY <1>1, <1>3, <1>4 DEF SlotsSound

(* It holds at the start. *)
LEMMA InitSlotInv == TimerInit => SlotInv
<1> SUFFICES ASSUME TimerInit
             PROVE  SlotInv
  OBVIOUS
<1>1. N \in Nat
  BY SysTimerAssumption
<1>2. chain \in Seq(Slot) /\ Len(chain) = N /\ \A i \in Slot : chain[i] = i
  BY <1>1 DEF TimerInit, Slot
<1>3. IsFiniteSet(running) /\ Cardinality(running) = 0
  BY FS_EmptySet DEF TimerInit
<1>4. ring \in Seq(Entry) /\ Len(ring) = 0 /\ stack \in StackType
  BY DEF TimerInit, StackType
<1>5. /\ timertab \in [Slot -> Astp \cup {None, Cancelled}] /\ timerflags \in [Slot -> BOOLEAN]
      /\ \A t \in Slot : timertab[t] = None /\ ~timerflags[t]
  BY DEF TimerInit
<1>6. InUse(timertab, running, ring)
  BY <1>5, SysTimerAssumption DEF InUse
<1> QED BY <1>1, <1>2, <1>3, <1>4, <1>5, <1>6 DEF SlotInv, Plain, TimerInit, Slot

(* An expiry in C keeps it. *)
LEMMA ExpireSlots ==
    ASSUME SlotInv, NEW e \in running, Expire(e)
    PROVE  SlotInv'
<1> DEFINE q == ring'  n == Len(ring)
<1>1. e \in Entry /\ e.slot \in Slot /\ ring \in Seq(Entry)
  BY DEF SlotInv, Plain, Entry
<1>2. /\ q \in Seq(Entry) /\ Len(q) = n + 1 /\ n \in Nat
      /\ q[n + 1] = e /\ \A i \in 1 .. n : q[i] = ring[i]
  BY <1>1, AppendProperties DEF Expire
<1>3. /\ running' = (IF e.repeat THEN running ELSE running \ {e})
      /\ timertab' = timertab /\ timerflags' = timerflags /\ chain' = chain /\ stack' = stack
  BY DEF Expire
<1> HIDE DEF q, n
<1>4. running' \subseteq Entry /\ IsFiniteSet(running') /\ Cardinality(running') <= N
  <2>1. running' \in SUBSET running /\ running \subseteq Entry /\ IsFiniteSet(running)
        /\ Cardinality(running) <= N
    BY <1>3 DEF SlotInv, Plain
  <2>2. IsFiniteSet(running') /\ Cardinality(running') <= Cardinality(running)
    BY <2>1, FS_Subset
  <2>3. Cardinality(running') \in Nat /\ Cardinality(running) \in Nat
    BY <2>1, <2>2, FS_CardinalityType
  <2> QED BY <2>1, <2>2, <2>3, SysTimerAssumption
<1>5. Plain(timertab', timerflags', chain', running')
  BY <1>3, <1>4 DEF SlotInv, Plain
<1>6. ASSUME NEW t \in Slot, timertab[t] \in Astp
      PROVE  (\E f \in running' : f.slot = t) \/ (\E i \in 1 .. Len(q) : q[i].slot = t)
  <2>1. n + 1 \in 1 .. Len(q) /\ \A i \in 1 .. n : i \in 1 .. Len(q)
    BY <1>2
  <2>2. (\E f \in running : f.slot = t) \/ (\E i \in 1 .. n : ring[i].slot = t)
    BY <1>6 DEF SlotInv, InUse, n
  <2> QED BY <2>1, <2>2, <1>2, <1>3
<1>7. InUse(timertab', running', q)
  BY <1>3, <1>6 DEF InUse
<1> QED BY <1>2, <1>3, <1>5, <1>7 DEF SlotInv, q

(* Setting a timer keeps it. *)
LEMMA SetNewSlots ==
    ASSUME SlotInv, NEW p \in Astp, NEW r \in Repeat, SetNew(p, r)
    PROVE  SlotInv'
<1>1. /\ Set(timertab, timerflags, chain, running, p, r) /\ r \in BOOLEAN
      /\ ring' = ring /\ stack' = stack
  BY SysTimerAssumption DEF SetNew
<1>2. Plain(timertab', timerflags', chain', running')
  BY <1>1, SetPlain DEF SlotInv
<1>3. InUse(timertab', running', ring)
  BY <1>1, SetInUse DEF SlotInv
<1> QED BY <1>1, <1>2, <1>3 DEF SlotInv

(* Cancelling or replacing a timer that runs keeps it. *)
LEMMA CancelRunningSlots ==
    ASSUME SlotInv, NEW p \in Astp, NEW r \in Repeat, NEW want \in Wants(p),
           CancelRunning(p, want, r)
    PROVE  SlotInv'
<1>1. PICK t \in Slot, e \in running :
        /\ timertab[t] = p
        /\ e.slot = t
        /\ Set(Freed(timertab, t), [timerflags EXCEPT ![t] = FALSE],
               <<t>> \o chain, running \ {e}, want, r)
  BY DEF CancelRunning
<1> DEFINE tab == Freed(timertab, t)
           flags == [timerflags EXCEPT ![t] = FALSE]
           free == <<t>> \o chain
           run == running \ {e}
<1>2. ring' = ring /\ stack' = stack /\ want \in Astp \cup {None} /\ r \in BOOLEAN
      /\ timertab[t] # None
  BY <1>1, SysTimerAssumption DEF CancelRunning, Wants
<1>3. Plain(tab, flags, free, run)
  <2>1. flags \in [Slot -> BOOLEAN] /\ ~flags[t] /\ \A u \in Slot : u # t => flags[u] = timerflags[u]
    BY DEF SlotInv, Plain
  <2> HIDE DEF flags
  <2>2. \A u \in Slot : flags[u] => \E f \in run : f.slot = u /\ f.repeat
    BY <2>1, <1>1 DEF SlotInv, Plain
  <2> QED BY <2>1, <2>2, <1>2, FreePlain DEF SlotInv
<1>4. InUse(tab, run, ring)
  <2>1. timertab \in [Slot -> Astp \cup {None, Cancelled}] /\ InUse(timertab, running, ring)
    BY DEF SlotInv, Plain
  <2>2. tab[t] = None /\ \A u \in Slot : u # t => tab[u] = timertab[u]
    BY <2>1 DEF Freed
  <2>3. \A f \in running : f.slot # t => f \in run
    BY <1>1
  <2> HIDE DEF tab, run
  <2> QED BY <2>1, <2>2, <2>3, SysTimerAssumption DEF InUse
<1>5. Set(tab, flags, free, run, want, r)
  BY <1>1
<1> HIDE DEF tab, flags, free, run
<1>6. Plain(timertab', timerflags', chain', running')
  BY <1>2, <1>3, <1>5, SetPlain
<1>7. InUse(timertab', running', ring)
  BY <1>2, <1>3, <1>4, <1>5, SetInUse
<1> QED BY <1>2, <1>6, <1>7 DEF SlotInv

(* Cancelling or replacing a timer whose expiry is pending keeps it. *)
LEMMA CancelExpiredSlots ==
    ASSUME SlotInv, NEW p \in Astp, NEW r \in Repeat, NEW want \in Wants(p),
           CancelExpired(p, want, r)
    PROVE  SlotInv'
<1>1. PICK t \in Slot :
        /\ timertab[t] = p
        /\ timertab' = [timertab EXCEPT ![t] = Cancelled]
        /\ timerflags' = [timerflags EXCEPT ![t] = FALSE]
        /\ stack' = Append(stack, Checking(t, want, r))
  BY DEF CancelExpired
<1>2. chain' = chain /\ running' = running /\ ring' = ring
  BY DEF CancelExpired
<1>3. p # None /\ None # Cancelled /\ Cancelled \notin Astp /\ r \in BOOLEAN
      /\ want \in Astp \cup {None}
  BY SysTimerAssumption DEF Wants
<1>4. /\ timertab' \in [Slot -> Astp \cup {None, Cancelled}] /\ timerflags' \in [Slot -> BOOLEAN]
      /\ timertab'[t] = Cancelled /\ ~timerflags'[t]
      /\ \A u \in Slot : u # t => timertab'[u] = timertab[u] /\ timerflags'[u] = timerflags[u]
  BY <1>1 DEF SlotInv, Plain
<1>5. \A u \in Slot : timertab'[u] = None <=> timertab[u] = None
  BY <1>1, <1>3, <1>4
<1>6. Plain(timertab', timerflags', chain', running')
  BY <1>2, <1>4, <1>5 DEF SlotInv, Plain
<1>7. InUse(timertab', running', ring')
  BY <1>2, <1>3, <1>4 DEF SlotInv, InUse
<1>8. stack' \in StackType
  <2> DEFINE c == Checking(t, want, r)
             T == [fn : {"handler"}, astp : Astp]
                    \cup [fn : {"Get_tim"}, slot : Slot, astp : Astp \cup {None}, repeat : BOOLEAN]
  <2>1. c \in T
    BY <1>3 DEF Checking
  <2>2. stack \in Seq(T)
    BY DEF SlotInv, StackType
  <2> HIDE DEF c, T
  <2>3. Append(stack, c) \in Seq(T)
    BY <2>1, <2>2
  <2> QED BY <2>3, <1>1 DEF StackType, c, T
<1> QED BY <1>2, <1>6, <1>7, <1>8 DEF SlotInv

(* The call of Get_tim on top of the stack. *)
LEMMA TopCall ==
    ASSUME stack \in StackType, In("Get_tim")
    PROVE  /\ Front(stack) \in StackType /\ Top.slot \in Slot /\ Top.astp \in Astp \cup {None}
           /\ Top.repeat \in BOOLEAN
<1>1. stack # <<>> /\ Top.fn = "Get_tim"
  BY DEF In
<1>2. Front(stack) \in StackType /\ Top \in
           [fn : {"handler"}, astp : Astp]
             \cup [fn : {"Get_tim"}, slot : Slot, astp : Astp \cup {None}, repeat : BOOLEAN]
  BY <1>1, FrontOfStack DEF Top
<1> QED BY <1>1, <1>2

(* The freeing of a cancelled slot behind the check point keeps it. *)
LEMMA CheckedSlots ==
    ASSUME SlotInv, Checked
    PROVE  SlotInv'
<1>1. In("Get_tim") /\ ring' = ring /\ stack' = Front(stack)
  BY DEF Checked
<1>2. Front(stack) \in StackType /\ Top.slot \in Slot /\ Top.astp \in Astp \cup {None}
      /\ Top.repeat \in BOOLEAN
  BY <1>1, TopCall DEF SlotInv
<1>3. CASE timertab[Top.slot] = Cancelled
  <2> DEFINE t == Top.slot
             tab == Freed(timertab, t)
             free == <<t>> \o chain
  <2>1. Set(tab, timerflags, free, running, Top.astp, Top.repeat)
    BY <1>3 DEF Checked
  <2>2. timertab[t] # None
    BY <1>3, SysTimerAssumption
  <2>3. Plain(tab, timerflags, free, running)
    <3>1. /\ timerflags \in [Slot -> BOOLEAN]
          /\ \A u \in Slot : timerflags[u] => \E e \in running : e.slot = u /\ e.repeat
      BY DEF SlotInv, Plain
    <3> QED BY <3>1, <2>2, <1>2, FreePlain DEF SlotInv
  <2>4. InUse(tab, running, ring)
    BY <1>2, SysTimerAssumption DEF SlotInv, Plain, InUse, Freed
  <2> HIDE DEF tab, free
  <2>5. Plain(timertab', timerflags', chain', running')
    BY <2>1, <2>3, <1>2, SetPlain
  <2>6. InUse(timertab', running', ring)
    BY <2>1, <2>3, <2>4, <1>2, SetInUse
  <2> QED BY <2>5, <2>6, <1>1, <1>2 DEF SlotInv
<1>4. CASE timertab[Top.slot] # Cancelled
  <2>1. Set(timertab, timerflags, chain, running, Top.astp, Top.repeat)
    BY <1>4 DEF Checked
  <2>2. Plain(timertab', timerflags', chain', running')
    BY <2>1, <1>2, SetPlain DEF SlotInv
  <2>3. InUse(timertab', running', ring)
    BY <2>1, <1>2, SetInUse DEF SlotInv
  <2> QED BY <2>2, <2>3, <1>1, <1>2 DEF SlotInv
<1> QED BY <1>3, <1>4

(* The oldest expiry is taken off the ring: what is in a slot that will    *)
(* expire again is still where it will be found.                           *)
LEMMA TailInUse ==
    ASSUME NEW tab, NEW run, NEW q \in Seq(Entry), q # <<>>, InUse(tab, run, q),
           tab[Head(q).slot] \notin Astp \/ \E e \in run : e.slot = Head(q).slot
    PROVE  InUse(tab, run, Tail(q)) /\ Tail(q) \in Seq(Entry)
<1> DEFINE r == Tail(q)
<1>1. /\ Len(r) = Len(q) - 1 /\ Len(q) \in Nat /\ Head(q) = q[1] /\ r \in Seq(Entry)
      /\ \A i \in 1 .. Len(r) : r[i] = q[i + 1]
  BY HeadTailProperties
<1> HIDE DEF r
<1>2. ASSUME NEW t \in Slot, tab[t] \in Astp, \A e \in run : e.slot # t
      PROVE  \E i \in 1 .. Len(r) : r[i].slot = t
  <2>1. PICK i \in 1 .. Len(q) : q[i].slot = t
    BY <1>2 DEF InUse
  <2>2. i # 1
    BY <1>1, <1>2, <2>1
  <2>3. i - 1 \in 1 .. Len(r) /\ (i - 1) + 1 = i
    BY <1>1, <2>2
  <2> QED BY <1>1, <2>1, <2>3
<1> QED BY <1>1, <1>2 DEF InUse, r

(* An expiry whose slot is free when it is taken keeps it. *)
LEMMA TakeOfFreeSlots ==
    ASSUME SlotInv, TakeOfFree
    PROVE  SlotInv'
<1>1. ring # <<>> /\ timertab[Head(ring).slot] = None /\ ring' = Tail(ring)
      /\ UNCHANGED <<timertab, timerflags, chain, running, stack>>
  BY DEF TakeOfFree
<1>2. InUse(timertab, running, Tail(ring)) /\ Tail(ring) \in Seq(Entry)
  BY <1>1, TailInUse, SysTimerAssumption DEF SlotInv
<1> QED BY <1>1, <1>2 DEF SlotInv

(* Taking an expiry and running the ast of its slot keeps it. *)
LEMMA TakeTrapSlots ==
    ASSUME SlotInv, TakeTrap
    PROVE  SlotInv'
<1> DEFINE t == Head(ring).slot
           p == timertab[t]
<1>1. /\ ring # <<>> /\ ring' = Tail(ring) /\ timerflags' = timerflags /\ running' = running
      /\ p # None
      /\ timertab' = IF timerflags[t] THEN timertab ELSE Freed(timertab, t)
      /\ chain' = IF timerflags[t] THEN chain ELSE <<t>> \o chain
      /\ stack' = IF p = Cancelled THEN stack ELSE Append(stack, Handler(p))
  BY DEF TakeTrap
<1>2. t \in Slot /\ p \in Astp \cup {None, Cancelled} /\ ring \in Seq(Entry)
  <2>1. ring \in Seq(Entry) /\ 1 \in 1 .. Len(ring) /\ Head(ring) = ring[1]
    BY <1>1, HeadTailProperties DEF SlotInv
  <2>2. t \in Slot
    BY <2>1, EntryAt
  <2> QED BY <2>1, <2>2 DEF SlotInv, Plain
<1>3. stack' \in StackType
  <2>1. CASE p = Cancelled
    BY <2>1, <1>1 DEF SlotInv
  <2>2. CASE p # Cancelled
    <3> DEFINE c == Handler(p)
               T == [fn : {"handler"}, astp : Astp]
                      \cup [fn : {"Get_tim"}, slot : Slot, astp : Astp \cup {None}, repeat : BOOLEAN]
    <3>1. c \in T
      BY <2>2, <1>1, <1>2 DEF Handler
    <3>2. stack \in Seq(T)
      BY DEF SlotInv, StackType
    <3>3. stack' = Append(stack, c)
      BY <2>2, <1>1
    <3> HIDE DEF c, T
    <3>4. stack' \in Seq(T)
      BY <3>1, <3>2, <3>3
    <3> QED BY <3>4 DEF StackType, T
  <2> QED BY <2>1, <2>2
<1>4. CASE timerflags[t]
  <2>1. \E e \in running : e.slot = t
    BY <1>2, <1>4 DEF SlotInv, Plain
  <2>2. InUse(timertab, running, Tail(ring)) /\ Tail(ring) \in Seq(Entry)
    BY <2>1, <1>1, <1>2, TailInUse DEF SlotInv
  <2> QED BY <2>2, <1>1, <1>3, <1>4 DEF SlotInv
<1>5. CASE ~timerflags[t]
  <2> DEFINE tab == Freed(timertab, t)
             free == <<t>> \o chain
  <2>1. timertab' = tab /\ chain' = free /\ tab[t] = None
    BY <1>1, <1>2, <1>5 DEF Freed, SlotInv, Plain
  <2>2. Plain(tab, timerflags, free, running)
    <3>1. /\ timerflags \in [Slot -> BOOLEAN]
          /\ \A u \in Slot : timerflags[u] => \E e \in running : e.slot = u /\ e.repeat
      BY DEF SlotInv, Plain
    <3> QED BY <3>1, <1>1, <1>2, FreePlain DEF SlotInv
  <2>3. InUse(tab, running, ring)
    BY <1>2, SysTimerAssumption DEF SlotInv, Plain, InUse, Freed
  <2> HIDE DEF tab, free
  <2>4. InUse(tab, running, Tail(ring)) /\ Tail(ring) \in Seq(Entry)
    BY <2>1, <2>3, <1>1, <1>2, TailInUse, SysTimerAssumption
  <2> QED BY <2>1, <2>2, <2>4, <1>1, <1>3 DEF SlotInv
<1> QED BY <1>4, <1>5

(* The return from a handler keeps it. *)
LEMMA ReturnSlots ==
    ASSUME SlotInv, TrapReturn
    PROVE  SlotInv'
<1>1. stack # <<>> /\ stack' = Front(stack) /\ UNCHANGED <<timertab, timerflags, chain, running, ring>>
  BY DEF TrapReturn, In
<1>2. Front(stack) \in StackType
  BY <1>1, FrontOfStack DEF SlotInv
<1> QED BY <1>1, <1>2 DEF SlotInv

(* It is inductive. *)
LEMMA SlotStep ==
    ASSUME SlotInv, [TimerNext]_timervars
    PROVE  SlotInv'
<1>1. CASE \E e \in running : Expire(e)
  BY <1>1, ExpireSlots
<1>2. ASSUME NEW p \in Astp, NEW r \in Repeat, SetNew(p, r)
      PROVE  SlotInv'
  BY <1>2, SetNewSlots
<1>3. ASSUME NEW p \in Astp, NEW r \in Repeat, NEW want \in Wants(p), CancelRunning(p, want, r)
      PROVE  SlotInv'
  BY <1>3, CancelRunningSlots
<1>4. ASSUME NEW p \in Astp, NEW r \in Repeat, NEW want \in Wants(p), CancelExpired(p, want, r)
      PROVE  SlotInv'
  BY <1>4, CancelExpiredSlots
<1>5. CASE Checked
  BY <1>5, CheckedSlots
<1>6. CASE TakeOfFree
  BY <1>6, TakeOfFreeSlots
<1>7. CASE TakeTrap
  BY <1>7, TakeTrapSlots
<1>8. CASE TrapReturn
  BY <1>8, ReturnSlots
<1>9. CASE UNCHANGED timervars
  BY <1>9 DEF timervars, SlotInv
<1> QED BY <1>1, <1>2, <1>3, <1>4, <1>5, <1>6, <1>7, <1>8, <1>9 DEF TimerNext

(* The free chain holds exactly the free slots, each of them once, and     *)
(* every slot with an ast has a timer in C, or an expiry in the ring, that *)
(* will run it: no slot is lost, whatever the program does, even one that  *)
(* is Hasty.                                                               *)
THEOREM NoSlotLost == TimerSpec => []SlotsSound
<1>1. SlotInv /\ [TimerNext]_timervars => SlotInv'
  BY SlotStep
<1>2. SlotInv => SlotsSound
  BY SlotInvSound
<1> QED BY <1>1, <1>2, InitSlotInv, PTL DEF TimerSpec

-----------------------------------------------------------------------------
(* Owners: the invariant contains that of the slots. *)
LEMMA OwnerInvSlots ==
    ASSUME OwnerInv
    PROVE  SlotInv
<1>1. InUse(timertab, running, ring)
  BY SysTimerAssumption DEF OwnerInv, Awaited, InUse
<1> QED BY <1>1 DEF OwnerInv, Core, SlotInv

(* It is enough to know that the slots, and what belongs to them, are      *)
(* sound.                                                                  *)
LEMMA OwnersStay ==
    ASSUME SlotInv', RunningSound(timertab', timerflags', running'),
           RingSound(timertab', timerflags', running', ring'),
           Awaited(timertab', running', ring')
    PROVE  OwnerInv'
  BY DEF SlotInv, OwnerInv, Core

(* It says what the theorem says. *)
LEMMA OwnerInvSound ==
    ASSUME OwnerInv
    PROVE  OwnersSound
<1>1. DOMAIN ring = 1 .. Len(ring)
  BY DEF OwnerInv, Core
<1>2. RunningOwnsSlot
  BY DEF OwnerInv, Core, RunningSound, RunningOwnsSlot
<1>3. ExpiryOwnsSlot
  BY <1>1 DEF OwnerInv, Core, RingSound, ExpiryOwnsSlot
<1> QED BY <1>2, <1>3 DEF OwnersSound

(* It holds at the start. *)
LEMMA InitOwnerInv == TimerInit => OwnerInv
<1> SUFFICES ASSUME TimerInit
             PROVE  OwnerInv
  OBVIOUS
<1>1. SlotInv
  BY InitSlotInv
<1>2. Len(ring) = 0 /\ \A t \in Slot : timertab[t] = None
  BY DEF TimerInit
<1>3. RunningSound(timertab, timerflags, running) /\ RingSound(timertab, timerflags, running, ring)
  BY <1>2 DEF TimerInit, RunningSound, RingSound
<1>4. Awaited(timertab, running, ring)
  BY <1>2 DEF Awaited
<1> QED BY <1>1, <1>3, <1>4 DEF OwnerInv, Core, SlotInv

(* Taking the oldest expiry off the ring leaves the rest sound. *)
LEMMA TailCore ==
    ASSUME NEW tab, NEW flags, NEW free, NEW run, NEW q, q # <<>>,
           Core(tab, flags, free, run, q)
    PROVE  Core(tab, flags, free, run, Tail(q))
<1> DEFINE r == Tail(q)
<1>1. /\ q \in Seq(Entry) /\ r \in Seq(Entry) /\ Len(q) = Len(r) + 1 /\ Len(r) \in Nat
      /\ \A i \in 1 .. Len(r) : r[i] = q[i + 1]
  <2>1. q \in Seq(Entry)
    BY DEF Core
  <2>2. /\ r \in Seq(Entry) /\ Len(r) = Len(q) - 1 /\ \A i \in 1 .. Len(r) : r[i] = q[i + 1]
    BY <2>1, HeadTailProperties
  <2> QED BY <2>1, <2>2
<1> HIDE DEF r
<1>2. \A i, j \in 1 .. Len(r) : i + 1 \in 1 .. Len(q) /\ (i + 1 = j + 1 => i = j)
  BY <1>1
<1>3. RingSound(tab, flags, run, r)
  <2> SUFFICES ASSUME NEW i \in 1 .. Len(r)
               PROVE  /\ r[i].repeat => \/ tab[r[i].slot] = None
                                        \/ tab[r[i].slot] = r[i].astp /\ flags[r[i].slot]
                      /\ ~r[i].repeat =>
                           /\ tab[r[i].slot] \in {r[i].astp, Cancelled}
                           /\ \A e \in run : e.slot # r[i].slot
                           /\ \A j \in 1 .. Len(r) : r[j].slot = r[i].slot => j = i
    BY DEF RingSound
  <2>1. r[i] = q[i + 1] /\ i + 1 \in 1 .. Len(q)
    BY <1>1, <1>2
  <2>2. /\ q[i + 1].repeat => \/ tab[q[i + 1].slot] = None
                              \/ tab[q[i + 1].slot] = q[i + 1].astp /\ flags[q[i + 1].slot]
        /\ ~q[i + 1].repeat =>
             /\ tab[q[i + 1].slot] \in {q[i + 1].astp, Cancelled}
             /\ \A e \in run : e.slot # q[i + 1].slot
             /\ \A j \in 1 .. Len(q) : q[j].slot = q[i + 1].slot => j = i + 1
    BY <2>1 DEF Core, RingSound
  <2>3. ~q[i + 1].repeat => \A j \in 1 .. Len(r) : r[j].slot = r[i].slot => j = i
    BY <2>1, <2>2, <1>1, <1>2
  <2> QED BY <2>1, <2>2, <2>3
<1> QED BY <1>1, <1>3 DEF Core, r

(* The first expiry is taken of a slot that is free, or will expire again.  *)
LEMMA TailAwaited ==
    ASSUME NEW tab, NEW run, NEW q \in Seq(Entry), q # <<>>, Awaited(tab, run, q),
           tab[Head(q).slot] = None \/ \E e \in run : e.slot = Head(q).slot
    PROVE  Awaited(tab, run, Tail(q))
<1> DEFINE r == Tail(q)
<1>1. /\ Len(r) = Len(q) - 1 /\ Len(q) \in Nat /\ Head(q) = q[1]
      /\ \A i \in 1 .. Len(r) : r[i] = q[i + 1]
  BY HeadTailProperties
<1> HIDE DEF r
<1> SUFFICES ASSUME NEW t \in Slot, tab[t] # None, \A e \in run : e.slot # t
             PROVE  \E i \in 1 .. Len(r) : r[i].slot = t
  BY DEF Awaited, r
<1>2. PICK i \in 1 .. Len(q) : q[i].slot = t
  BY DEF Awaited
<1>3. i # 1
  BY <1>1, <1>2
<1>4. i - 1 \in 1 .. Len(r) /\ (i - 1) + 1 = i
  BY <1>1, <1>3
<1> QED BY <1>1, <1>2, <1>4

(* A slot t is freed, with its entry in C if it has one: what is on its    *)
(* way for it comes from a timer that repeats.                             *)
LEMMA FreeCore ==
    ASSUME NEW tab, NEW flags, NEW free, NEW run, NEW q, Core(tab, flags, free, run, q),
           NEW t \in Slot, tab[t] # None,
           \A i \in 1 .. Len(q) : q[i].slot = t => q[i].repeat
    PROVE  Core(Freed(tab, t), [flags EXCEPT ![t] = FALSE], <<t>> \o free,
                {e \in run : e.slot # t}, q)
<1> DEFINE tab2 == Freed(tab, t)
           flags2 == [flags EXCEPT ![t] = FALSE]
           run2 == {e \in run : e.slot # t}
<1>1. /\ flags2 \in [Slot -> BOOLEAN]
      /\ tab2[t] = None /\ ~flags2[t]
      /\ \A u \in Slot : u # t => tab2[u] = tab[u] /\ flags2[u] = flags[u]
  BY DEF Core, Plain, Freed
<1>2. \A u \in Slot : flags2[u] => \E e \in run2 : e.slot = u /\ e.repeat
  BY <1>1 DEF Core, Plain
<1>3. Plain(tab2, flags2, <<t>> \o free, run2)
  BY <1>1, <1>2, FreePlain DEF Core
<1> HIDE DEF tab2, flags2
<1>4. \A e \in run : e.slot \in Slot
  BY DEF Core, Plain, Entry
<1>5. RunningSound(tab2, flags2, run2)
  BY <1>1, <1>4 DEF Core, RunningSound
<1>6. \A i \in 1 .. Len(q) : q[i].slot \in Slot
  BY EntryAt DEF Core
<1>7. RingSound(tab2, flags2, run2, q)
  BY <1>1, <1>6 DEF Core, RingSound
<1> QED BY <1>3, <1>5, <1>7 DEF Core, tab2, flags2

(* A timer is set in a slot that nothing is on its way for. *)
LEMMA SetCore ==
    ASSUME NEW tab, NEW flags, NEW free, NEW run, NEW q, Core(tab, flags, free, run, q),
           NEW p \in Astp \cup {None}, NEW r \in BOOLEAN,
           p # None => \A i \in 1 .. Len(q), j \in 1 .. Len(free) : q[i].slot # free[j],
           Set(tab, flags, free, run, p, r)
    PROVE  RunningSound(timertab', timerflags', running')
           /\ RingSound(timertab', timerflags', running', q)
<1>1. CASE timertab' = tab /\ timerflags' = flags /\ chain' = free /\ running' = run
  BY <1>1 DEF Core
<1>2. CASE ~(timertab' = tab /\ timerflags' = flags /\ chain' = free /\ running' = run)
  <2>0. Plain(tab, flags, free, run) /\ q \in Seq(Entry)
    BY DEF Core
  <2>1. PICK t \in Slot, e \in Entry :
             /\ p # None /\ p # Cancelled /\ Cardinality(run) # N
             /\ e.slot = t /\ e.astp = p /\ e.repeat = r /\ running' = run \cup {e}
             /\ tab[t] = None /\ free[1] = t /\ 1 \in 1 .. Len(free)
             /\ timertab' \in [Slot -> Astp \cup {None, Cancelled}]
             /\ timerflags' \in [Slot -> BOOLEAN]
             /\ timertab'[t] = p /\ timerflags'[t] = r
             /\ \A u \in Slot : u # t => timertab'[u] = tab[u] /\ timerflags'[u] = flags[u]
             /\ Len(free) = Len(chain') + 1 /\ Len(chain') \in Nat /\ chain' \in Seq(Slot)
             /\ \A i \in 1 .. Len(chain') : chain'[i] = free[i + 1]
    BY <2>0, <1>2, SetShape, SMTT(40)
  <2>2. \A f \in run : f.slot \in Slot /\ f.slot # t
    <3>1. \A f \in run : f.slot \in Slot /\ f.astp \in Astp /\ tab[f.slot] = f.astp
      BY DEF Core, Plain, Entry, RunningSound
    <3> QED BY <3>1, <2>1, SysTimerAssumption
  <2>3. RunningSound(timertab', timerflags', running')
    <3>1. \A f \in run : timertab'[f.slot] = f.astp /\ timerflags'[f.slot] = f.repeat
      BY <2>1, <2>2 DEF Core, RunningSound
    <3>2. \A f, g \in running' : f.slot = g.slot => f = g
      BY <2>1, <2>2 DEF Core, RunningSound
    <3> QED BY <3>1, <3>2, <2>1 DEF RunningSound
  <2>4. \A i \in 1 .. Len(q) : q[i].slot \in Slot /\ q[i].slot # t
    <3>1. \A i \in 1 .. Len(q) : q[i].slot \in Slot
      BY <2>0, EntryAt
    <3> QED BY <3>1, <2>1
  <2>5. RingSound(timertab', timerflags', running', q)
    BY <2>1, <2>4 DEF Core, RingSound
  <2> QED BY <2>3, <2>5
<1> QED BY <1>1, <1>2

(* An expiry in C keeps the invariant. *)
LEMMA ExpireStep ==
    ASSUME OwnerInv, NEW e \in running, Expire(e)
    PROVE  OwnerInv'
<1> DEFINE q == ring'  n == Len(ring)
<1>1. e \in Entry /\ e.slot \in Slot /\ ring \in Seq(Entry)
  BY DEF OwnerInv, Core, Plain, Entry
<1>2. /\ ring' \in Seq(Entry) /\ Len(q) = n + 1 /\ n \in Nat
      /\ q[n + 1] = e /\ \A i \in 1 .. n : q[i] = ring[i]
  BY <1>1, AppendProperties DEF Expire
<1>3. /\ running' = (IF e.repeat THEN running ELSE running \ {e})
      /\ timertab' = timertab /\ timerflags' = timerflags /\ chain' = chain /\ stack' = stack
  BY DEF Expire
<1> HIDE DEF q, n
<1>4. \A i \in 1 .. Len(q) : i \in 1 .. n \/ i = n + 1
  BY <1>2
<1>6. RunningSound(timertab, timerflags, running) /\ RingSound(timertab, timerflags, running, ring)
  BY DEF OwnerInv, Core
<1>7. timertab[e.slot] = e.astp /\ timerflags[e.slot] = e.repeat
  BY <1>6 DEF RunningSound
<1>8. RunningSound(timertab, timerflags, running')
  BY <1>1, <1>3, <1>6, <1>7 DEF RunningSound
<1>9. RingSound(timertab, timerflags, running', q)
  <2>1. CASE e.repeat
    <3>1. \A i \in 1 .. n : ~ring[i].repeat => ring[i].slot # e.slot
      BY <1>6 DEF RingSound, n
    <3>2. running' = running /\ timertab[q[n + 1].slot] = q[n + 1].astp /\ timerflags[q[n + 1].slot]
      BY <2>1, <1>2, <1>3, <1>7
    <3>3. \A i \in 1 .. n :
            /\ q[i].repeat => \/ timertab[q[i].slot] = None
                              \/ timertab[q[i].slot] = q[i].astp /\ timerflags[q[i].slot]
            /\ ~q[i].repeat =>
                 /\ timertab[q[i].slot] \in {q[i].astp, Cancelled}
                 /\ \A f \in running' : f.slot # q[i].slot
      BY <3>2, <1>2, <1>6 DEF RingSound, n
    <3>4. \A i \in 1 .. n : ~q[i].repeat =>
            \A j \in 1 .. Len(q) : q[j].slot = q[i].slot => j = i
      BY <3>1, <1>2, <1>4, <1>6 DEF RingSound, n
    <3>5. q[n + 1].repeat
      BY <2>1, <1>2
    <3> QED BY <3>2, <3>3, <3>4, <3>5, <1>4 DEF RingSound
  <2>2. CASE ~e.repeat
    <3>1. \A i \in 1 .. n : ring[i].slot # e.slot
      <4> SUFFICES ASSUME NEW i \in 1 .. n, ring[i].slot = e.slot
                   PROVE  FALSE
        OBVIOUS
      <4>1. e.astp # None /\ timerflags[e.slot] = FALSE
        BY <2>2, <1>1, <1>7, SysTimerAssumption DEF Entry
      <4> QED BY <4>1, <1>6, <1>7 DEF RingSound, n
    <3>2. \A f \in running' : f.slot # e.slot
      BY <1>3, <1>6, <2>2 DEF RunningSound
    <3>3. \A i \in 1 .. n :
            /\ q[i].repeat => \/ timertab[q[i].slot] = None
                              \/ timertab[q[i].slot] = q[i].astp /\ timerflags[q[i].slot]
            /\ ~q[i].repeat =>
                 /\ timertab[q[i].slot] \in {q[i].astp, Cancelled}
                 /\ \A f \in running' : f.slot # q[i].slot
                 /\ \A j \in 1 .. Len(q) : q[j].slot = q[i].slot => j = i
      BY <2>2, <3>1, <1>2, <1>3, <1>4, <1>6 DEF RingSound, n
    <3>4. \A j \in 1 .. Len(q) : q[j].slot = q[n + 1].slot => j = n + 1
      BY <3>1, <1>2, <1>4
    <3> QED BY <2>2, <3>2, <3>3, <3>4, <1>2, <1>4, <1>7 DEF RingSound
  <2> QED BY <2>1, <2>2
<1>10. Awaited(timertab, running', q)
  <2> SUFFICES ASSUME NEW t \in Slot, timertab[t] # None
               PROVE  (\E f \in running' : f.slot = t) \/ (\E i \in 1 .. Len(q) : q[i].slot = t)
    BY DEF Awaited
  <2>1. CASE t = e.slot
    <3>1. n + 1 \in 1 .. Len(q)
      BY <1>2
    <3> QED BY <2>1, <3>1, <1>2
  <2>2. CASE t # e.slot
    <3>1. \A i \in 1 .. n : i \in 1 .. Len(q)
      BY <1>2
    <3>2. (\E f \in running : f.slot = t) \/ (\E i \in 1 .. n : ring[i].slot = t)
      BY DEF OwnerInv, Awaited, n
    <3> QED BY <2>2, <3>1, <3>2, <1>2, <1>3
  <2> QED BY <2>1, <2>2
<1>11. SlotInv'
  BY OwnerInvSlots, ExpireSlots
<1> QED BY <1>3, <1>8, <1>9, <1>10, <1>11, OwnersStay DEF q

(* The slots that SetsAt lets a timer have, nothing is on its way for.     *)
LEMMA SetsAtUnused ==
    ASSUME ~Hasty, NEW tab, NEW flags, NEW free, NEW run, Core(tab, flags, free, run, ring),
           SetsAt(free)
    PROVE  \A i \in 1 .. Len(ring), j \in 1 .. Len(free) : ring[i].slot # free[j]
<1>1. /\ ring \in Seq(Entry) /\ free \in Seq(Slot)
      /\ \A u \in Slot : tab[u] = None <=> \E i \in 1 .. Len(free) : free[i] = u
      /\ RingSound(tab, flags, run, ring)
  BY DEF Core, Plain
<1> SUFFICES ASSUME NEW i \in 1 .. Len(ring), NEW j \in 1 .. Len(free), ring[i].slot = free[j]
             PROVE  FALSE
  OBVIOUS
<1>2. ring[i].slot \in Slot /\ ring[i].astp \in Astp
  BY <1>1, EntryAt
<1>3. tab[ring[i].slot] = None
  BY <1>1, <1>2
<1>4. CASE ring[i].repeat
  <2>1. ring[i].slot \in ToSet(free)
    BY <1>1 DEF ToSet
  <2> QED BY <2>1, <1>1, <1>4 DEF SetsAt
<1>5. CASE ~ring[i].repeat
  BY <1>1, <1>2, <1>3, <1>5, SysTimerAssumption DEF RingSound
<1> QED BY <1>4, <1>5

(* Setting a timer in a slot from the free chain keeps it. *)
LEMMA SetNewStep ==
    ASSUME ~Hasty, OwnerInv, NEW p \in Astp, NEW r \in Repeat, SetNew(p, r)
    PROVE  OwnerInv'
<1>1. SlotInv'
  BY OwnerInvSlots, SetNewSlots
<1>2. /\ Core(timertab, timerflags, chain, running, ring) /\ r \in BOOLEAN
      /\ Set(timertab, timerflags, chain, running, p, r) /\ ring' = ring
  BY SysTimerAssumption DEF OwnerInv, SetNew
<1>3. \A i \in 1 .. Len(ring), j \in 1 .. Len(chain) : ring[i].slot # chain[j]
  BY <1>2, SetsAtUnused DEF SetNew
<1>4. /\ RunningSound(timertab', timerflags', running')
      /\ RingSound(timertab', timerflags', running', ring)
  BY <1>2, <1>3, SetCore
<1>5. Awaited(timertab', running', ring)
  BY <1>2, SetInUse DEF OwnerInv, Core
<1> QED BY <1>1, <1>2, <1>4, <1>5, OwnersStay

(* Cancelling or replacing a timer that runs keeps the invariant. *)
LEMMA CancelRunningStep ==
    ASSUME ~Hasty, OwnerInv, NEW p \in Astp, NEW r \in Repeat, NEW want \in Wants(p),
           CancelRunning(p, want, r)
    PROVE  OwnerInv'
<1>1. PICK t \in Slot, e \in running :
        /\ timertab[t] = p
        /\ e.slot = t
        /\ want = None \/ SetsAt(<<t>> \o chain)
        /\ Set(Freed(timertab, t), [timerflags EXCEPT ![t] = FALSE],
               <<t>> \o chain, running \ {e}, want, r)
  BY DEF CancelRunning
<1> DEFINE tab == Freed(timertab, t)
           flags == [timerflags EXCEPT ![t] = FALSE]
           free == <<t>> \o chain
           run == running \ {e}
<1>2. ring' = ring /\ stack' = stack /\ want \in Astp \cup {None} /\ r \in BOOLEAN
      /\ timertab[t] # None
  BY <1>1, SysTimerAssumption DEF CancelRunning, Wants
<1>3. \A i \in 1 .. Len(ring) : ring[i].slot = t => ring[i].repeat
  BY <1>1 DEF OwnerInv, Core, RingSound
<1>4. run = {f \in running : f.slot # t}
  BY <1>1 DEF OwnerInv, Core, RunningSound
<1>5. Core(tab, flags, free, run, ring)
  BY <1>2, <1>3, <1>4, FreeCore DEF OwnerInv
<1>6. Awaited(tab, run, ring)
  <2>1. /\ timertab \in [Slot -> Astp \cup {None, Cancelled}] /\ Awaited(timertab, running, ring)
    BY DEF OwnerInv, Core, Plain
  <2>2. tab[t] = None /\ \A u \in Slot : u # t => tab[u] = timertab[u]
    BY <2>1 DEF Freed
  <2> HIDE DEF tab, run
  <2> QED BY <2>1, <2>2, <1>4 DEF Awaited
<1>7. want # None => \A i \in 1 .. Len(ring), j \in 1 .. Len(free) : ring[i].slot # free[j]
  <2>1. want # None => SetsAt(free)
    BY <1>1
  <2> HIDE DEF tab, flags, free, run
  <2> QED BY <2>1, <1>5, SetsAtUnused
<1>8. Set(tab, flags, free, run, want, r)
  BY <1>1
<1> HIDE DEF tab, flags, free, run
<1>9. /\ RunningSound(timertab', timerflags', running')
      /\ RingSound(timertab', timerflags', running', ring)
  BY <1>2, <1>5, <1>7, <1>8, SetCore
<1>10. Awaited(timertab', running', ring)
  BY <1>2, <1>5, <1>6, <1>8, SetInUse DEF Core
<1>11. SlotInv'
  BY OwnerInvSlots, CancelRunningSlots
<1> QED BY <1>2, <1>9, <1>10, <1>11, OwnersStay

(* Cancelling or replacing a timer whose expiry is pending keeps the       *)
(* invariant.                                                              *)
LEMMA CancelExpiredStep ==
    ASSUME OwnerInv, NEW p \in Astp, NEW r \in Repeat, NEW want \in Wants(p),
           CancelExpired(p, want, r)
    PROVE  OwnerInv'
<1>1. PICK t \in Slot :
        /\ timertab[t] = p
        /\ \A e \in running : e.slot # t
        /\ timertab' = [timertab EXCEPT ![t] = Cancelled]
        /\ timerflags' = [timerflags EXCEPT ![t] = FALSE]
        /\ stack' = Append(stack, Checking(t, want, r))
  BY DEF CancelExpired
<1>2. chain' = chain /\ running' = running /\ ring' = ring
  BY DEF CancelExpired
<1>3. p # None /\ p # Cancelled /\ None # Cancelled /\ r \in BOOLEAN
      /\ want \in Astp \cup {None}
  BY SysTimerAssumption DEF Wants
<1>4. Core(timertab, timerflags, chain, running, ring) /\ Awaited(timertab, running, ring)
  BY DEF OwnerInv
<1>5. /\ timertab' \in [Slot -> Astp \cup {None, Cancelled}] /\ timerflags' \in [Slot -> BOOLEAN]
      /\ timertab'[t] = Cancelled /\ ~timerflags'[t]
      /\ \A u \in Slot : u # t => timertab'[u] = timertab[u] /\ timerflags'[u] = timerflags[u]
  BY <1>1, <1>4 DEF Core, Plain
<1>6. ring \in Seq(Entry) /\ \A i \in 1 .. Len(ring) : ring[i].slot \in Slot
  BY <1>4, EntryAt DEF Core
<1>7. \A i \in 1 .. Len(ring) : ring[i].slot = t => ~ring[i].repeat
  <2>1. timerflags[t] = FALSE
    BY <1>1, <1>4, SMTT(40) DEF Core, Plain
  <2> QED BY <2>1, <1>1, <1>3, <1>4 DEF Core, RingSound
<1>8. RunningSound(timertab', timerflags', running')
  <2>1. \A e \in running : e.slot \in Slot
    BY <1>4 DEF Core, Plain, Entry
  <2> QED BY <2>1, <1>1, <1>2, <1>4, <1>5 DEF Core, RunningSound
<1>9. RingSound(timertab', timerflags', running', ring')
  <2> SUFFICES ASSUME NEW i \in 1 .. Len(ring)
               PROVE  /\ ring[i].repeat =>
                           \/ timertab'[ring[i].slot] = None
                           \/ timertab'[ring[i].slot] = ring[i].astp /\ timerflags'[ring[i].slot]
                      /\ ~ring[i].repeat =>
                           /\ timertab'[ring[i].slot] \in {ring[i].astp, Cancelled}
                           /\ \A e \in running : e.slot # ring[i].slot
                           /\ \A j \in 1 .. Len(ring) : ring[j].slot = ring[i].slot => j = i
    BY <1>2 DEF RingSound
  <2>1. /\ ring[i].repeat =>
             \/ timertab[ring[i].slot] = None
             \/ timertab[ring[i].slot] = ring[i].astp /\ timerflags[ring[i].slot]
        /\ ~ring[i].repeat =>
             /\ timertab[ring[i].slot] \in {ring[i].astp, Cancelled}
             /\ \A e \in running : e.slot # ring[i].slot
             /\ \A j \in 1 .. Len(ring) : ring[j].slot = ring[i].slot => j = i
    BY <1>4 DEF Core, RingSound
  <2>2. CASE ring[i].slot = t
    BY <2>1, <2>2, <1>5, <1>7
  <2>3. CASE ring[i].slot # t
    BY <2>1, <2>3, <1>5, <1>6
  <2> QED BY <2>2, <2>3
<1>10. Awaited(timertab', running', ring')
  <2>1. timertab[t] # None
    BY <1>1, <1>3
  <2> QED BY <2>1, <1>2, <1>4, <1>5 DEF Awaited
<1>11. SlotInv'
  BY OwnerInvSlots, CancelExpiredSlots
<1> QED BY <1>8, <1>9, <1>10, <1>11, OwnersStay

(* A call that comes from the check point finds its slot freed. *)
LEMMA CheckedStep ==
    ASSUME OwnerInv, Checked
    PROVE  OwnerInv'
<1>1. In("Get_tim") /\ ring = <<>> /\ ring' = ring
  BY DEF Checked
<1>2. Top.slot \in Slot /\ Top.astp \in Astp \cup {None} /\ Top.repeat \in BOOLEAN
  BY <1>1, TopCall DEF OwnerInv
<1>3. timertab[Top.slot] # Cancelled
  <2> SUFFICES ASSUME timertab[Top.slot] = Cancelled
               PROVE  FALSE
    OBVIOUS
  <2>1. \E e \in running : e.slot = Top.slot
    BY <1>1, <1>2, SysTimerAssumption DEF OwnerInv, Awaited
  <2> QED BY <2>1, SysTimerAssumption DEF OwnerInv, Core, Plain, RunningSound, Entry
<1>4. Set(timertab, timerflags, chain, running, Top.astp, Top.repeat)
  BY <1>3 DEF Checked
<1>5. Core(timertab, timerflags, chain, running, ring)
  BY DEF OwnerInv
<1>6. \A i \in 1 .. Len(ring), j \in 1 .. Len(chain) : ring[i].slot # chain[j]
  BY <1>1
<1>7. /\ RunningSound(timertab', timerflags', running')
      /\ RingSound(timertab', timerflags', running', ring)
  BY <1>2, <1>4, <1>5, <1>6, SetCore
<1>8. Awaited(timertab', running', ring)
  BY <1>2, <1>4, <1>5, SetInUse DEF OwnerInv, Core
<1>9. SlotInv'
  BY OwnerInvSlots, CheckedSlots
<1> QED BY <1>1, <1>7, <1>8, <1>9, OwnersStay

(* An expiry whose slot is free when it is taken up keeps the invariant. *)
LEMMA TakeOfFreeStep ==
    ASSUME OwnerInv, TakeOfFree
    PROVE  OwnerInv'
<1>1. ring # <<>> /\ timertab[Head(ring).slot] = None /\ ring' = Tail(ring)
      /\ UNCHANGED <<timertab, timerflags, chain, running, stack>>
  BY DEF TakeOfFree
<1>2. Core(timertab, timerflags, chain, running, ring)
  BY DEF OwnerInv
<1>3. Core(timertab, timerflags, chain, running, Tail(ring))
  BY <1>1, <1>2, TailCore
<1>4. Awaited(timertab, running, Tail(ring))
  <2>1. ring \in Seq(Entry)
    BY <1>2 DEF Core
  <2> QED BY <2>1, <1>1, TailAwaited DEF OwnerInv
<1> QED BY <1>1, <1>3, <1>4 DEF OwnerInv

(* Taking up an expiry keeps the invariant. *)
LEMMA TakeTrapStep ==
    ASSUME OwnerInv, TakeTrap
    PROVE  OwnerInv'
<1> DEFINE t == Head(ring).slot
           p == timertab[t]
<1>1. /\ ring # <<>> /\ ring' = Tail(ring) /\ timerflags' = timerflags /\ running' = running
      /\ p # None
      /\ timertab' = IF timerflags[t] THEN timertab ELSE Freed(timertab, t)
      /\ chain' = IF timerflags[t] THEN chain ELSE <<t>> \o chain
      /\ stack' = IF p = Cancelled THEN stack ELSE Append(stack, Handler(p))
  BY DEF TakeTrap
<1>2. Core(timertab, timerflags, chain, running, ring) /\ Awaited(timertab, running, ring)
  BY DEF OwnerInv
<1>3. /\ ring \in Seq(Entry) /\ 1 \in 1 .. Len(ring) /\ Head(ring) = ring[1]
      /\ Len(Tail(ring)) = Len(ring) - 1 /\ \A i \in 1 .. Len(Tail(ring)) : Tail(ring)[i] = ring[i + 1]
  <2>1. ring \in Seq(Entry)
    BY <1>2 DEF Core
  <2> QED BY <2>1, <1>1, HeadTailProperties
<1>4. t \in Slot /\ p \in Astp \cup {None, Cancelled}
  <2>1. t \in Slot
    BY <1>3, EntryAt
  <2> QED BY <2>1, <1>2 DEF Core, Plain
<1>5. SlotInv'
  BY OwnerInvSlots, TakeTrapSlots
<1>6. Core(timertab, timerflags, chain, running, Tail(ring))
  BY <1>1, <1>2, TailCore
<1> HIDE DEF t, p
<1>7. CASE timerflags[t]
  <2>1. timertab' = timertab /\ chain' = chain
    BY <1>1, <1>7
  <2>2. \E e \in running : e.slot = t
    BY <1>2, <1>4, <1>7 DEF Core, Plain
  <2>3. Awaited(timertab, running, Tail(ring))
    BY <2>2, <1>1, <1>2, <1>3, TailAwaited DEF t
  <2> QED BY <2>1, <2>3, <1>1, <1>5, <1>6, OwnersStay DEF Core
<1>8. CASE ~timerflags[t]
  <2>1. timertab' = Freed(timertab, t) /\ chain' = <<t>> \o chain
    BY <1>1, <1>8
  <2>2. RingSound(timertab, timerflags, running, ring)
    BY <1>2 DEF Core
  <2>3. ring[1].slot = t /\ timertab[t] # None
    BY <1>1, <1>3 DEF t, p
  <2>4. ~ring[1].repeat
    BY <2>2, <2>3, <1>3, <1>8 DEF RingSound
  <2>5. (\A e \in running : e.slot # t) /\ \A j \in 1 .. Len(ring) : ring[j].slot = t => j = 1
    BY <2>2, <2>3, <2>4, <1>3 DEF RingSound
  <2>6. \A i \in 1 .. Len(Tail(ring)) : Tail(ring)[i].slot # t
    <3>1. \A i \in 1 .. Len(Tail(ring)) : i + 1 \in 1 .. Len(ring) /\ i + 1 # 1
      BY <1>3
    <3> QED BY <3>1, <2>5, <1>3
  <2>7. [timerflags EXCEPT ![t] = FALSE] = timerflags
    BY <1>2, <1>4, <1>8 DEF Core, Plain
  <2>8. {e \in running : e.slot # t} = running
    BY <2>5
  <2>9. Core(Freed(timertab, t), timerflags, <<t>> \o chain, running, Tail(ring))
    <3> DEFINE q == Tail(ring)
    <3>1. \A i \in 1 .. Len(q) : q[i].slot = t => q[i].repeat
      BY <2>6
    <3>2. Core(timertab, timerflags, chain, running, q)
      BY <1>6
    <3> HIDE DEF q
    <3>3. Core(Freed(timertab, t), [timerflags EXCEPT ![t] = FALSE], <<t>> \o chain,
               {e \in running : e.slot # t}, q)
      BY <3>1, <3>2, <2>3, <1>4, FreeCore
    <3> QED BY <3>3, <2>7, <2>8 DEF q
  <2>10. Awaited(Freed(timertab, t), running, Tail(ring))
    <3>1. /\ Freed(timertab, t)[t] = None
          /\ \A u \in Slot : u # t => Freed(timertab, t)[u] = timertab[u]
      BY <1>2, <1>4 DEF Core, Plain, Freed
    <3>2. Awaited(Freed(timertab, t), running, ring)
      BY <3>1, <1>2 DEF Awaited
    <3> QED BY <3>1, <3>2, <1>1, <1>3, TailAwaited DEF t
  <2> QED BY <2>1, <2>9, <2>10, <1>1, <1>5, OwnersStay DEF Core
<1> QED BY <1>7, <1>8

(* The return from a handler keeps the invariant. *)
LEMMA ReturnStep ==
    ASSUME OwnerInv, TrapReturn
    PROVE  OwnerInv'
<1>1. stack # <<>> /\ stack' = Front(stack) /\ UNCHANGED <<timertab, timerflags, chain, running, ring>>
  BY DEF TrapReturn, In
<1>2. Front(stack) \in StackType
  BY <1>1, FrontOfStack DEF OwnerInv
<1> QED BY <1>1, <1>2 DEF OwnerInv

(* The invariant is inductive. *)
LEMMA InductiveStep ==
    ASSUME ~Hasty, OwnerInv, [TimerNext]_timervars
    PROVE  OwnerInv'
<1>1. CASE \E e \in running : Expire(e)
  BY <1>1, ExpireStep
<1>2. ASSUME NEW p \in Astp, NEW r \in Repeat, SetNew(p, r)
      PROVE  OwnerInv'
  BY <1>2, SetNewStep
<1>3. ASSUME NEW p \in Astp, NEW r \in Repeat, NEW want \in Wants(p), CancelRunning(p, want, r)
      PROVE  OwnerInv'
  BY <1>3, CancelRunningStep
<1>4. ASSUME NEW p \in Astp, NEW r \in Repeat, NEW want \in Wants(p), CancelExpired(p, want, r)
      PROVE  OwnerInv'
  BY <1>4, CancelExpiredStep
<1>5. CASE Checked
  BY <1>5, CheckedStep
<1>6. CASE TakeOfFree
  BY <1>6, TakeOfFreeStep
<1>7. CASE TakeTrap
  BY <1>7, TakeTrapStep
<1>8. CASE TrapReturn
  BY <1>8, ReturnStep
<1>9. CASE UNCHANGED timervars
  BY <1>9 DEF timervars, OwnerInv
<1> QED BY <1>1, <1>2, <1>3, <1>4, <1>5, <1>6, <1>7, <1>8, <1>9 DEF TimerNext

(* A slot belongs to one timer at a time: the timer that runs in it in C   *)
(* is the one in the table, and an expiry in the ring runs the ast of the  *)
(* timer that expired, or nothing.                                         *)
THEOREM OneOwner == ~Hasty => (TimerSpec => []OwnersSound)
<1> SUFFICES ASSUME ~Hasty
             PROVE  TimerSpec => []OwnersSound
  OBVIOUS
<1>1. OwnerInv /\ [TimerNext]_timervars => OwnerInv'
  BY InductiveStep
<1>2. OwnerInv => OwnersSound
  BY OwnerInvSound
<1> QED BY <1>1, <1>2, InitOwnerInv, PTL DEF TimerSpec

-----------------------------------------------------------------------------
(***************************************************************************)
(* Proof about asynchronous input in AsyncIo: for any number of devices    *)
(* and of calls, with signals at any point of them, a device that has      *)
(* asynchronous input but is not checked has input, and an ast for it in   *)
(* the ring or its trap running and still to read.  SIGIO may clear the    *)
(* device's bit between the test of _pop_set_async_check and its change,   *)
(* and the count goes wrong then (CtrCountsOn); no     *)
(* device is left unchecked all the same.  The invariant follows a call    *)
(* through its steps: it holds of every device but the one a call is       *)
(* about, and of that one from the setting of its bit on.                  *)
(***************************************************************************)

(* What a call has still to do, at every point of it: sysread, the switching *)
(* on of a device and the switching off.                                     *)
Reading ==
    {<<"off?", "read", "on?">>,
     <<"clear", "uncount", "FIOASYNC off", "read", "on?">>,
     <<"uncount", "FIOASYNC off", "read", "on?">>,
     <<"FIOASYNC off", "read", "on?">>,
     <<"read", "on?">>,
     <<"on?">>,
     <<"set", "count", "FIOASYNC on">>,
     <<"count", "FIOASYNC on">>,
     <<"FIOASYNC on">>}

Enabling ==
    {<<"add", "enable?">>,
     <<"enable?">>,
     <<"set", "count", "select">>,
     <<"count", "select">>,
     <<"select">>,
     <<"FIOASYNC on", "poll">>,
     <<"poll">>}

Disabling ==
    {<<"off?", "remove">>,
     <<"clear", "uncount", "FIOASYNC off", "remove">>,
     <<"uncount", "FIOASYNC off", "remove">>,
     <<"FIOASYNC off", "remove">>,
     <<"remove">>}

Plans == Reading \cup Enabling \cup Disabling

(* A device that is not checked has been told of. *)
Kept(g) == g \in async_fds \ async_on_fds => Told(g)

(* The call has set the bit of its device. *)
Marked(steps) == Head(steps) \in {"count", "select", "FIOASYNC on", "poll"}

(* A call about device f has these steps still to do. *)
Underway(f, steps) ==
    /\ todo = Do(f, steps)
    /\ \A g \in Fd \ {f} : Kept(g)
    /\ Marked(steps) => Kept(f)

CallKept ==
    \/ todo = <<>> /\ \A g \in Fd : Kept(g)
    \/ \E f \in Fd, steps \in Plans : Underway(f, steps)

InputTyped ==
    /\ waiting \subseteq Fd /\ async_fds \subseteq Fd /\ async_on_fds \subseteq Fd
    /\ devasts \in Seq(Fd)

(* The inductive invariant. *)
InputInv == InputTyped /\ CallKept

-----------------------------------------------------------------------------

(* The steps of a call, each with the device it is about. *)
LEMMA DoShape ==
    ASSUME NEW f \in Fd, NEW s \in Seq(Steps)
    PROVE  /\ Do(f, s) \in Seq([step : Steps, fd : Fd])
           /\ Len(Do(f, s)) = Len(s)
           /\ \A i \in 1 .. Len(s) : Do(f, s)[i] = [step |-> s[i], fd |-> f]
<1> DEFINE E == [step : Steps, fd : Fd]
<1>1. Len(s) \in Nat /\ DOMAIN s = 1 .. Len(s) /\ \A i \in 1 .. Len(s) : s[i] \in Steps
  BY LenProperties, ElementOfSeq
<1>2. \A i \in 1 .. Len(s) : [step |-> s[i], fd |-> f] \in E
  BY <1>1
<1>3. Do(f, s) \in [1 .. Len(s) -> E]
  BY <1>1, <1>2 DEF Do
<1>4. \A n \in Nat : \A q \in [1 .. n -> E] : q \in Seq(E) /\ Len(q) = n
  <2> HIDE DEF E
  <2> QED OBVIOUS
<1>5. \A i \in 1 .. Len(s) : Do(f, s)[i] = [step |-> s[i], fd |-> f]
  BY <1>1 DEF Do
<1> QED BY <1>1, <1>3, <1>4, <1>5

(* The first of the steps and the rest. *)
LEMMA DoNext ==
    ASSUME NEW f \in Fd, NEW s \in Seq(Steps), s # <<>>
    PROVE  /\ Do(f, s) # <<>>
           /\ Head(Do(f, s)) = [step |-> Head(s), fd |-> f]
           /\ Tail(Do(f, s)) = Do(f, Tail(s))
           /\ Tail(s) \in Seq(Steps)
<1> DEFINE E == [step : Steps, fd : Fd]
           d == Do(f, s)
           t == Do(f, Tail(s))
<1>1. /\ d \in Seq(E) /\ Len(d) = Len(s)
      /\ \A i \in 1 .. Len(s) : d[i] = [step |-> s[i], fd |-> f]
  BY DoShape
<1>2. /\ Tail(s) \in Seq(Steps) /\ Len(Tail(s)) = Len(s) - 1 /\ Len(s) \in Nat /\ Len(s) # 0
      /\ Head(s) = s[1]
      /\ \A i \in 1 .. Len(s) - 1 : Tail(s)[i] = s[i + 1]
  BY HeadTailProperties, LenProperties, EmptySeq
<1>3. /\ t \in Seq(E) /\ Len(t) = Len(s) - 1
      /\ \A i \in 1 .. Len(s) - 1 : t[i] = [step |-> Tail(s)[i], fd |-> f]
  BY <1>2, DoShape
<1> HIDE DEF d, t, E
<1>4. d # <<>> /\ Head(d) = d[1] /\ Tail(d) \in Seq(E) /\ Len(Tail(d)) = Len(s) - 1
      /\ \A i \in 1 .. Len(s) - 1 : Tail(d)[i] = d[i + 1]
  BY <1>1, <1>2, HeadTailProperties, EmptySeq
<1>5. ASSUME NEW i \in 1 .. Len(s) - 1
      PROVE  Tail(d)[i] = t[i]
  <2>1. i + 1 \in 1 .. Len(s)
    BY <1>2
  <2> QED BY <2>1, <1>1, <1>2, <1>3, <1>4
<1>6. Tail(d) = t
  BY <1>3, <1>4, <1>5, SeqEqual
<1>7. d[1] = [step |-> s[1], fd |-> f]
  BY <1>1, <1>2
<1> QED BY <1>2, <1>4, <1>6, <1>7 DEF d, t

(* A call with no steps left. *)
LEMMA DoEmpty ==
    ASSUME NEW f \in Fd
    PROVE  Do(f, <<>>) = <<>>
<1>1. <<>> \in Seq(Steps) /\ Len(<<>>) = 0
  OBVIOUS
<1>2. Do(f, <<>>) \in Seq([step : Steps, fd : Fd]) /\ Len(Do(f, <<>>)) = 0
  BY <1>1, DoShape
<1> QED BY <1>2, EmptySeq

(* One list of steps after the other. *)
LEMMA DoThen ==
    ASSUME NEW f \in Fd, NEW s \in Seq(Steps), NEW t \in Seq(Steps)
    PROVE  Do(f, s) \o Do(f, t) = Do(f, s \o t)
<1> DEFINE E == [step : Steps, fd : Fd]
           u == Do(f, s)
           v == Do(f, t)
           st == s \o t
           w == Do(f, st)
<1>1. /\ u \in Seq(E) /\ Len(u) = Len(s)
      /\ \A i \in 1 .. Len(s) : u[i] = [step |-> s[i], fd |-> f]
  BY DoShape
<1>2. /\ v \in Seq(E) /\ Len(v) = Len(t)
      /\ \A i \in 1 .. Len(t) : v[i] = [step |-> t[i], fd |-> f]
  BY DoShape
<1>3. /\ st \in Seq(Steps) /\ Len(st) = Len(s) + Len(t) /\ Len(s) \in Nat /\ Len(t) \in Nat
      /\ \A i \in 1 .. Len(s) + Len(t) : st[i] = IF i <= Len(s) THEN s[i] ELSE t[i - Len(s)]
  BY ConcatProperties, LenProperties
<1> HIDE DEF st
<1>4. /\ w \in Seq(E) /\ Len(w) = Len(s) + Len(t)
      /\ \A i \in 1 .. Len(s) + Len(t) : w[i] = [step |-> st[i], fd |-> f]
  <2>1. st \in Seq(Steps)
    BY <1>3
  <2>2. /\ w \in Seq(E) /\ Len(w) = Len(st)
        /\ \A i \in 1 .. Len(st) : w[i] = [step |-> st[i], fd |-> f]
    BY <2>1, DoShape
  <2> QED BY <2>2, <1>3
<1> HIDE DEF u, v, w, E
<1>a. u \in Seq(E) /\ v \in Seq(E)
  BY <1>1, <1>2
<1>5. /\ u \o v \in Seq(E) /\ Len(u \o v) = Len(u) + Len(v)
      /\ \A i \in 1 .. Len(u) + Len(v) : (u \o v)[i] = IF i <= Len(u) THEN u[i] ELSE v[i - Len(u)]
  BY <1>a, ConcatProperties
<1>6. ASSUME NEW i \in 1 .. Len(s) + Len(t)
      PROVE  (u \o v)[i] = w[i]
  <2>1. CASE i <= Len(s)
    BY <2>1, <1>1, <1>2, <1>3, <1>4, <1>5
  <2>2. CASE ~(i <= Len(s))
    <3>1. i - Len(s) \in 1 .. Len(t)
      BY <2>2, <1>3
    <3> QED BY <3>1, <2>2, <1>1, <1>2, <1>3, <1>4, <1>5
  <2> QED BY <2>1, <2>2
<1>7. u \o v = w
  BY <1>1, <1>2, <1>4, <1>5, <1>6, SeqEqual
<1> QED BY <1>7 DEF u, v, w, st

(* Every plan is a list of steps that is not empty. *)
LEMMA PlanType == Plans \subseteq Seq(Steps) /\ <<>> \notin Plans
<1>1. /\ <<"off?", "read", "on?">> \in Seq(Steps)
      /\ <<"read", "on?">> \in Seq(Steps) /\ <<"on?">> \in Seq(Steps)
      /\ <<"set", "count", "FIOASYNC on">> \in Seq(Steps)
      /\ <<"count", "FIOASYNC on">> \in Seq(Steps) /\ <<"FIOASYNC on">> \in Seq(Steps)
  BY DEF Steps
<1>2. /\ <<"clear", "uncount", "FIOASYNC off", "read", "on?">> \in Seq(Steps)
      /\ <<"uncount", "FIOASYNC off", "read", "on?">> \in Seq(Steps)
      /\ <<"FIOASYNC off", "read", "on?">> \in Seq(Steps)
  BY DEF Steps
<1>3. Enabling \subseteq Seq(Steps)
  BY DEF Steps, Enabling
<1>4. Disabling \subseteq Seq(Steps)
  BY DEF Steps, Disabling
<1>5. <<>> \notin Plans
  BY DEF Plans, Reading, Enabling, Disabling
<1> QED BY <1>1, <1>2, <1>3, <1>4, <1>5 DEF Plans, Reading

(* The next step of every plan of sysread. *)
LEMMA ReadingHeads ==
    /\ Head(<<"off?", "read", "on?">>) = "off?"
    /\ Head(<<"clear", "uncount", "FIOASYNC off", "read", "on?">>) = "clear"
    /\ Head(<<"uncount", "FIOASYNC off", "read", "on?">>) = "uncount"
    /\ Head(<<"FIOASYNC off", "read", "on?">>) = "FIOASYNC off"
    /\ Head(<<"read", "on?">>) = "read"
    /\ Head(<<"on?">>) = "on?"
    /\ Head(<<"set", "count", "FIOASYNC on">>) = "set"
    /\ Head(<<"count", "FIOASYNC on">>) = "count"
    /\ Head(<<"FIOASYNC on">>) = "FIOASYNC on"
OBVIOUS

(* The next step of every plan of switching on. *)
LEMMA EnablingHeads ==
    /\ Head(<<"add", "enable?">>) = "add"
    /\ Head(<<"enable?">>) = "enable?"
    /\ Head(<<"set", "count", "select">>) = "set"
    /\ Head(<<"count", "select">>) = "count"
    /\ Head(<<"select">>) = "select"
    /\ Head(<<"FIOASYNC on", "poll">>) = "FIOASYNC on"
    /\ Head(<<"poll">>) = "poll"
OBVIOUS

(* The next step of every plan of switching off. *)
LEMMA DisablingHeads ==
    /\ Head(<<"off?", "remove">>) = "off?"
    /\ Head(<<"clear", "uncount", "FIOASYNC off", "remove">>) = "clear"
    /\ Head(<<"uncount", "FIOASYNC off", "remove">>) = "uncount"
    /\ Head(<<"FIOASYNC off", "remove">>) = "FIOASYNC off"
    /\ Head(<<"remove">>) = "remove"
OBVIOUS

(* Which plans have a given next step. *)
LEMMA PlanHeads ==
    ASSUME NEW s \in Plans
    PROVE  /\ Head(s) = "off?" => s = <<"off?", "read", "on?">> \/ s = <<"off?", "remove">>
           /\ Head(s) = "on?" => s = <<"on?">>
           /\ Head(s) = "enable?" => s = <<"enable?">>
           /\ Head(s) = "add" => s = <<"add", "enable?">>
           /\ Head(s) = "remove" => s = <<"remove">>
           /\ Head(s) = "read" => s = <<"read", "on?">>
           /\ Head(s) = "select" => s = <<"select">>
           /\ Head(s) = "poll" => s = <<"poll">>
           /\ Head(s) = "set" => \/ s = <<"set", "count", "FIOASYNC on">>
                                 \/ s = <<"set", "count", "select">>
           /\ Head(s) = "count" => s = <<"count", "FIOASYNC on">> \/ s = <<"count", "select">>
           /\ Head(s) = "clear" =>
                \/ s = <<"clear", "uncount", "FIOASYNC off", "read", "on?">>
                \/ s = <<"clear", "uncount", "FIOASYNC off", "remove">>
           /\ Head(s) = "uncount" => \/ s = <<"uncount", "FIOASYNC off", "read", "on?">>
                                     \/ s = <<"uncount", "FIOASYNC off", "remove">>
           /\ Head(s) = "FIOASYNC off" => \/ s = <<"FIOASYNC off", "read", "on?">>
                                          \/ s = <<"FIOASYNC off", "remove">>
           /\ Head(s) = "FIOASYNC on" => s = <<"FIOASYNC on">> \/ s = <<"FIOASYNC on", "poll">>
           /\ Head(s) \in Steps
<1>1. CASE s \in Reading
  BY <1>1, ReadingHeads DEF Reading, Steps
<1>2. CASE s \in Enabling
  BY <1>2, EnablingHeads DEF Enabling, Steps
<1>3. CASE s \in Disabling
  BY <1>3, DisablingHeads DEF Disabling, Steps
<1> QED BY <1>1, <1>2, <1>3 DEF Plans

(* What follows the first element, written out. *)
LEMMA TailOfTuple ==
    ASSUME NEW a, NEW b, NEW c, NEW d, NEW e
    PROVE  /\ Tail(<<a>>) = <<>>
           /\ Tail(<<a, b>>) = <<b>>
           /\ Tail(<<a, b, c>>) = <<b, c>>
           /\ Tail(<<a, b, c, d>>) = <<b, c, d>>
           /\ Tail(<<a, b, c, d, e>>) = <<b, c, d, e>>
OBVIOUS

(* What every plan leaves after its next step. *)
LEMMA PlanTails ==
    /\ Tail(<<"off?", "read", "on?">>) = <<"read", "on?">>
    /\ Tail(<<"clear", "uncount", "FIOASYNC off", "read", "on?">>) = <<"uncount", "FIOASYNC off", "read", "on?">>
    /\ Tail(<<"uncount", "FIOASYNC off", "read", "on?">>) = <<"FIOASYNC off", "read", "on?">>
    /\ Tail(<<"FIOASYNC off", "read", "on?">>) = <<"read", "on?">>
    /\ Tail(<<"read", "on?">>) = <<"on?">>
    /\ Tail(<<"on?">>) = <<>>
    /\ Tail(<<"set", "count", "FIOASYNC on">>) = <<"count", "FIOASYNC on">>
    /\ Tail(<<"count", "FIOASYNC on">>) = <<"FIOASYNC on">>
    /\ Tail(<<"FIOASYNC on">>) = <<>>
    /\ Tail(<<"add", "enable?">>) = <<"enable?">>
    /\ Tail(<<"enable?">>) = <<>>
    /\ Tail(<<"set", "count", "select">>) = <<"count", "select">>
    /\ Tail(<<"count", "select">>) = <<"select">>
    /\ Tail(<<"select">>) = <<>>
    /\ Tail(<<"FIOASYNC on", "poll">>) = <<"poll">>
    /\ Tail(<<"poll">>) = <<>>
    /\ Tail(<<"off?", "remove">>) = <<"remove">>
    /\ Tail(<<"clear", "uncount", "FIOASYNC off", "remove">>) = <<"uncount", "FIOASYNC off", "remove">>
    /\ Tail(<<"uncount", "FIOASYNC off", "remove">>) = <<"FIOASYNC off", "remove">>
    /\ Tail(<<"FIOASYNC off", "remove">>) = <<"remove">>
    /\ Tail(<<"remove">>) = <<>>
<1>1. \A a : Tail(<<a>>) = <<>>
  BY TailOfTuple
<1>2. /\ Tail(<<"on?">>) = <<>>
      /\ Tail(<<"FIOASYNC on">>) = <<>>
      /\ Tail(<<"enable?">>) = <<>>
      /\ Tail(<<"select">>) = <<>>
      /\ Tail(<<"poll">>) = <<>>
      /\ Tail(<<"remove">>) = <<>>
  BY <1>1, Zenon
<1>3. \A a, b : Tail(<<a, b>>) = <<b>>
  BY TailOfTuple
<1>4. /\ Tail(<<"read", "on?">>) = <<"on?">>
      /\ Tail(<<"count", "FIOASYNC on">>) = <<"FIOASYNC on">>
      /\ Tail(<<"add", "enable?">>) = <<"enable?">>
      /\ Tail(<<"count", "select">>) = <<"select">>
      /\ Tail(<<"FIOASYNC on", "poll">>) = <<"poll">>
      /\ Tail(<<"off?", "remove">>) = <<"remove">>
      /\ Tail(<<"FIOASYNC off", "remove">>) = <<"remove">>
  BY <1>3, Zenon
<1>5. \A a, b, c : Tail(<<a, b, c>>) = <<b, c>>
  BY TailOfTuple
<1>6. /\ Tail(<<"off?", "read", "on?">>) = <<"read", "on?">>
      /\ Tail(<<"FIOASYNC off", "read", "on?">>) = <<"read", "on?">>
      /\ Tail(<<"set", "count", "FIOASYNC on">>) = <<"count", "FIOASYNC on">>
      /\ Tail(<<"set", "count", "select">>) = <<"count", "select">>
      /\ Tail(<<"uncount", "FIOASYNC off", "remove">>) = <<"FIOASYNC off", "remove">>
  BY <1>5, Zenon
<1>7. \A a, b, c, d : Tail(<<a, b, c, d>>) = <<b, c, d>>
  BY TailOfTuple
<1>8. /\ Tail(<<"uncount", "FIOASYNC off", "read", "on?">>) = <<"FIOASYNC off", "read", "on?">>
      /\ Tail(<<"clear", "uncount", "FIOASYNC off", "remove">>) = <<"uncount", "FIOASYNC off", "remove">>
  BY <1>7, ZenonT(60)
<1>9. \A a, b, c, d, e : Tail(<<a, b, c, d, e>>) = <<b, c, d, e>>
  <2> TAKE a, b, c, d, e
  <2> QED OBVIOUS
<1>10. /\ Tail(<<"clear", "uncount", "FIOASYNC off", "read", "on?">>) = <<"uncount", "FIOASYNC off", "read", "on?">>
  <2> DEFINE a == "clear"  b == "uncount"  c == "FIOASYNC off"  d == "read"  e == "on?"
  <2> HIDE DEF a, b, c, d, e
  <2>1. Tail(<<a, b, c, d, e>>) = <<b, c, d, e>>
    BY <1>9
  <2> QED BY <2>1 DEF a, b, c, d, e
<1> QED BY <1>2, <1>4, <1>6, <1>8, <1>10

(* Three elements and two, or one, concatenated. *)
LEMMA ThreeAndTwo ==
    ASSUME NEW a, NEW b, NEW c, NEW d, NEW e
    PROVE  /\ <<a, b, c>> \o <<d, e>> = <<a, b, c, d, e>>
           /\ <<a, b, c>> \o <<d>> = <<a, b, c, d>>
<1> DEFINE S == {a, b, c, d, e}
           s == <<a, b, c>>
           t == <<d, e>>
           u == <<d>>
           st == <<a, b, c, d, e>>
           su == <<a, b, c, d>>
<1>1. s \in Seq(S) /\ Len(s) = 3 /\ s[1] = a /\ s[2] = b /\ s[3] = c
  OBVIOUS
<1>2. t \in Seq(S) /\ Len(t) = 2 /\ t[1] = d /\ t[2] = e
  OBVIOUS
<1>3. u \in Seq(S) /\ Len(u) = 1 /\ u[1] = d
  OBVIOUS
<1>4. /\ st \in Seq(S) /\ Len(st) = 5
      /\ st[1] = a /\ st[2] = b /\ st[3] = c /\ st[4] = d /\ st[5] = e
  OBVIOUS
<1>5. /\ su \in Seq(S) /\ Len(su) = 4
      /\ su[1] = a /\ su[2] = b /\ su[3] = c /\ su[4] = d
  OBVIOUS
<1> HIDE DEF s, t, u, st, su, S
<1>6. s \o t = st
  <2>1. /\ s \o t \in Seq(S) /\ Len(s \o t) = Len(s) + Len(t)
        /\ \A i \in 1 .. Len(s) + Len(t) : (s \o t)[i] = IF i <= Len(s) THEN s[i] ELSE t[i - Len(s)]
    BY <1>1, <1>2, ConcatProperties
  <2>2. \A i \in 1 .. 5 : (s \o t)[i] = st[i]
    BY <2>1, <1>1, <1>2, <1>4
  <2> QED BY <2>1, <2>2, <1>1, <1>2, <1>4, SeqEqual
<1>7. s \o u = su
  <2>1. /\ s \o u \in Seq(S) /\ Len(s \o u) = Len(s) + Len(u)
        /\ \A i \in 1 .. Len(s) + Len(u) : (s \o u)[i] = IF i <= Len(s) THEN s[i] ELSE u[i - Len(s)]
    BY <1>1, <1>3, ConcatProperties
  <2>2. \A i \in 1 .. 4 : (s \o u)[i] = su[i]
    BY <2>1, <1>1, <1>3, <1>5
  <2> QED BY <2>1, <2>2, <1>1, <1>3, <1>5, SeqEqual, SMTT(40)
<1> QED BY <1>6, <1>7 DEF s, t, u, st, su

(* The next step of a call and what follows it, in the terms of its plan. *)
LEMMA Current ==
    ASSUME NEW f \in Fd, NEW s \in Plans, todo = Do(f, s)
    PROVE  /\ todo # <<>>
           /\ Next1.step = Head(s) /\ Next1.fd = f
           /\ \A x : At(x) <=> Head(s) = x
           /\ Tail(s) \in Seq(Steps)
           /\ Tail(todo) = Do(f, Tail(s))
           /\ \A t \in Seq(Steps) : Goto(f, t) = Do(f, t \o Tail(s))
<1>1. s \in Seq(Steps) /\ s # <<>>
  BY PlanType
<1>2. /\ todo # <<>> /\ Head(todo) = [step |-> Head(s), fd |-> f]
      /\ Tail(todo) = Do(f, Tail(s)) /\ Tail(s) \in Seq(Steps)
  BY <1>1, DoNext
<1>3. ASSUME NEW t \in Seq(Steps)
      PROVE  Goto(f, t) = Do(f, t \o Tail(s))
  BY <1>2, DoThen DEF Goto
<1> QED BY <1>2, <1>3 DEF Next1, At

-----------------------------------------------------------------------------
(* A step that changes none of what it speaks of leaves a device as it was. *)
LEMMA KeptFrame ==
    ASSUME NEW g, UNCHANGED <<waiting, async_fds, async_on_fds, devasts, trap, read>>
    PROVE  Kept(g)' <=> Kept(g)
BY DEF Kept, Told

(* With no call under way all devices are kept. *)
LEMMA NoCall ==
    ASSUME CallKept, todo = <<>>
    PROVE  \A g \in Fd : Kept(g)
<1>1. ASSUME NEW f \in Fd, NEW s \in Plans, Underway(f, s)
      PROVE  FALSE
  BY <1>1, Current DEF Underway
<1> QED BY <1>1 DEF CallKept

(* What does not change the course of the call, and keeps all devices, *)
(* keeps the invariant.                                                *)
LEMMA Meanwhile ==
    ASSUME CallKept, InputTyped', todo' = todo, \A g \in Fd : Kept(g) => Kept(g)'
    PROVE  InputInv'
<1>1. CASE todo = <<>>
  <2>1. todo' = <<>> /\ \A g \in Fd : Kept(g)'
    BY <1>1, NoCall
  <2> QED BY <2>1 DEF InputInv, CallKept
<1>2. ASSUME NEW f \in Fd, NEW s \in Plans, Underway(f, s)
      PROVE  InputInv'
  <2>1. /\ todo' = Do(f, s)
        /\ \A g \in Fd \ {f} : Kept(g)'
        /\ Marked(s) => Kept(f)'
    BY <1>2 DEF Underway
  <2>2. Do(f, s)' = Do(f, s) /\ (Marked(s)' <=> Marked(s))
    BY DEF Do, Marked
  <2>3. Underway(f, s)'
    BY <2>1, <2>2 DEF Underway
  <2> QED BY <2>3 DEF InputInv, CallKept
<1> QED BY <1>1, <1>2 DEF CallKept

(* Nor does a step of a call that leaves the others alone, and its own     *)
(* device kept, or checked, if its bit is set or it is done.               *)
LEMMA CallGoesOn ==
    ASSUME NEW f \in Fd, NEW s \in Plans, Underway(f, s), InputTyped',
           NEW t \in Plans \cup {<<>>}, todo' = Do(f, t),
           \A g \in Fd \ {f} : Kept(g) => Kept(g)',
           t = <<>> \/ Marked(t) => Kept(f)'
    PROVE  InputInv'
<1>1. \A g \in Fd \ {f} : Kept(g)'
  BY DEF Underway
<1>2. CASE t = <<>>
  <2>1. todo' = <<>>
    BY <1>2, DoEmpty
  <2>2. \A g \in Fd : Kept(g)'
    BY <1>1, <1>2
  <2> QED BY <2>1, <2>2 DEF InputInv, CallKept
<1>3. CASE t # <<>>
  <2>1. Do(f, t)' = Do(f, t) /\ (Marked(t)' <=> Marked(t))
    BY DEF Do, Marked
  <2>2. Underway(f, t)'
    BY <2>1, <1>1 DEF Underway
  <2> QED BY <2>2, <1>3 DEF InputInv, CallKept
<1> QED BY <1>2, <1>3

(* Steps with no effect on what a device is told of. *)
LEMMA OtherStatement ==
    ASSUME NEW f \in Fd, NEW s \in Plans, Underway(f, s), InputTyped,
           UNCHANGED <<waiting, async_fds, async_on_fds, devasts, trap, read>>,
           NEW t \in Plans \cup {<<>>}, todo' = Do(f, t),
           t = <<>> \/ Marked(t) => Kept(f)
    PROVE  InputInv'
<1>1. \A g \in Fd : Kept(g)' <=> Kept(g)
  BY KeptFrame
<1>2. InputTyped'
  BY DEF InputTyped
<1> QED BY <1>1, <1>2, CallGoesOn

-----------------------------------------------------------------------------
(* Each statement of a call. *)

(* The test whether a device is to be switched off. *)
LEMMA TestOffKeeps ==
    ASSUME InputTyped, NEW f \in Fd, NEW s \in Plans, Underway(f, s), TestOff
    PROVE  InputInv'
<1> DEFINE on == f \in async_fds /\ f \in async_on_fds
<1>1. /\ Head(s) = "off?" /\ Next1.fd = f /\ Tail(todo) = Do(f, Tail(s))
      /\ \A t \in Seq(Steps) : Goto(f, t) = Do(f, t \o Tail(s))
  BY Current DEF Underway, TestOff, TestFor
<1>2. /\ todo' = IF on THEN Goto(f, <<"clear", "uncount", "FIOASYNC off">>) ELSE Do(f, Tail(s))
      /\ UNCHANGED <<waiting, async_fds, async_on_fds, devasts, trap, read>>
  BY <1>1 DEF TestOff, TestFor, IsAsync, IsOn, kernelvars, sets, user
<1>3. <<"clear", "uncount", "FIOASYNC off">> \in Seq(Steps)
  BY DEF Steps
<1>4. ASSUME NEW t \in Plans, todo' = Do(f, t), Head(t) \in {"clear", "read", "remove"}
      PROVE  InputInv'
  <2>1. t # <<>> /\ ~Marked(t)
    BY <1>4, PlanType DEF Marked
  <2> QED BY <2>1, <1>2, <1>4, OtherStatement
<1>5. CASE s = <<"off?", "read", "on?">>
  <2>1. CASE on
    <3> DEFINE t == <<"clear", "uncount", "FIOASYNC off", "read", "on?">>
    <3>1. Tail(s) = <<"read", "on?">>
      BY <1>5, PlanTails
    <3>2. <<"clear", "uncount", "FIOASYNC off">> \o <<"read", "on?">> = t
      BY ThreeAndTwo
    <3>3. todo' = Do(f, t)
      BY <1>1, <1>2, <1>3, <2>1, <3>1, <3>2
    <3>4. t \in Plans /\ Head(t) = "clear"
      BY ReadingHeads DEF Plans, Reading
    <3> QED BY <3>3, <3>4, <1>4
  <2>2. CASE ~on
    <3>1. todo' = Do(f, <<"read", "on?">>)
      BY <1>2, <1>5, <2>2, PlanTails
    <3>2. <<"read", "on?">> \in Plans /\ Head(<<"read", "on?">>) = "read"
      BY ReadingHeads DEF Plans, Reading
    <3> QED BY <3>1, <3>2, <1>4
  <2> QED BY <2>1, <2>2
<1>6. CASE s = <<"off?", "remove">>
  <2>1. CASE on
    <3> DEFINE t == <<"clear", "uncount", "FIOASYNC off", "remove">>
    <3>1. Tail(s) = <<"remove">>
      BY <1>6, PlanTails
    <3>2. <<"clear", "uncount", "FIOASYNC off">> \o <<"remove">> = t
      BY ThreeAndTwo
    <3>3. todo' = Do(f, t)
      BY <1>1, <1>2, <1>3, <2>1, <3>1, <3>2
    <3>4. t \in Plans /\ Head(t) = "clear"
      BY DisablingHeads DEF Plans, Disabling
    <3> QED BY <3>3, <3>4, <1>4
  <2>2. CASE ~on
    <3>1. todo' = Do(f, <<"remove">>)
      BY <1>2, <1>6, <2>2, PlanTails
    <3>2. <<"remove">> \in Plans /\ Head(<<"remove">>) = "remove"
      BY DisablingHeads DEF Plans, Disabling
    <3> QED BY <3>1, <3>2, <1>4
  <2> QED BY <2>1, <2>2
<1> QED BY <1>1, <1>5, <1>6, PlanHeads

(* The test whether it is to be switched on: a device that is not stays     *)
(* unchecked only if it has no asynchronous input any more.                 *)
LEMMA TestOnKeeps ==
    ASSUME InputTyped, NEW f \in Fd, NEW s \in Plans, Underway(f, s), TestOn \/ TestEnable
    PROVE  InputInv'
<1>1. PICK t \in Plans :
        /\ s = <<Head(s)>> /\ Tail(s) = <<>> /\ Head(t) = "set"
        /\ todo' = IF f \in async_fds /\ f \notin async_on_fds THEN Goto(f, t) ELSE Tail(todo)
        /\ UNCHANGED <<waiting, async_fds, async_on_fds, devasts, trap, read>>
  <2>1. \A x : At(x) <=> Head(s) = x
    BY Current DEF Underway
  <2>2. Next1.fd = f
    BY Current DEF Underway
  <2>3. CASE TestOn
    <3> DEFINE t == <<"set", "count", "FIOASYNC on">>
    <3>1. Head(s) = "on?"
      BY <2>1, <2>3 DEF TestOn, TestFor
    <3>2. s = <<"on?">> /\ Tail(s) = <<>>
      BY <3>1, PlanHeads, PlanTails
    <3>3. t \in Plans /\ Head(t) = "set"
      BY ReadingHeads DEF Plans, Reading
    <3> QED BY <2>2, <2>3, <3>1, <3>2, <3>3
            DEF TestOn, TestFor, IsAsync, IsOn, kernelvars, sets, user
  <2>4. CASE TestEnable
    <3> DEFINE t == <<"set", "count", "select">>
    <3>1. Head(s) = "enable?"
      BY <2>1, <2>4 DEF TestEnable, TestFor
    <3>2. s = <<"enable?">> /\ Tail(s) = <<>>
      BY <3>1, PlanHeads, PlanTails
    <3>3. t \in Plans /\ Head(t) = "set"
      BY EnablingHeads DEF Plans, Enabling
    <3> QED BY <2>2, <2>4, <3>1, <3>2, <3>3
            DEF TestEnable, TestFor, IsAsync, IsOn, kernelvars, sets, user
  <2> QED BY <2>3, <2>4
<1>2. t \in Seq(Steps) /\ t # <<>> /\ ~Marked(t)
  BY <1>1, PlanType DEF Marked
<1>3. Goto(f, t) = Do(f, t) /\ Tail(todo) = Do(f, <<>>)
  <2>1. t \o <<>> = t
    BY <1>2, ConcatEmptySeq
  <2> QED BY <1>1, <1>2, <2>1, Current DEF Underway
<1>4. CASE f \in async_fds /\ f \notin async_on_fds
  BY <1>1, <1>2, <1>3, <1>4, OtherStatement
<1>5. CASE ~(f \in async_fds /\ f \notin async_on_fds)
  <2>1. Kept(f)
    BY <1>5 DEF Kept
  <2>2. todo' = Do(f, <<>>)
    BY <1>1, <1>3, <1>5
  <2> QED BY <1>1, <2>1, <2>2, OtherStatement
<1> QED BY <1>4, <1>5

(* The steps after which there is just one more plan left. *)
LEMMA OneMore ==
    ASSUME NEW s \in Plans, Head(s) \notin {"off?", "on?", "enable?", "select"}
    PROVE  /\ Tail(s) \in Plans \cup {<<>>}
           /\ Head(s) = "set" => Tail(s) # <<>>
           /\ Head(s) \in {"clear", "uncount", "FIOASYNC off", "read", "add"}
                => Tail(s) # <<>> /\ ~Marked(Tail(s))
<1>1. Head(s) = "set" => Tail(s) = <<"count", "FIOASYNC on">> \/ Tail(s) = <<"count", "select">>
  BY PlanHeads, PlanTails
<1>2. Head(s) = "count" => Tail(s) = <<"FIOASYNC on">> \/ Tail(s) = <<"select">>
  BY PlanHeads, PlanTails
<1>3. Head(s) = "FIOASYNC on" => Tail(s) = <<>> \/ Tail(s) = <<"poll">>
  BY PlanHeads, PlanTails
<1>4. Head(s) = "poll" \/ Head(s) = "remove" => Tail(s) = <<>>
  BY PlanHeads, PlanTails
<1>5. Head(s) = "clear" => \/ Tail(s) = <<"uncount", "FIOASYNC off", "read", "on?">>
                          \/ Tail(s) = <<"uncount", "FIOASYNC off", "remove">>
  BY PlanHeads, PlanTails
<1>6. Head(s) = "uncount" => \/ Tail(s) = <<"FIOASYNC off", "read", "on?">>
                            \/ Tail(s) = <<"FIOASYNC off", "remove">>
  BY PlanHeads, PlanTails
<1>7. Head(s) = "FIOASYNC off" => Tail(s) = <<"read", "on?">> \/ Tail(s) = <<"remove">>
  BY PlanHeads, PlanTails
<1>8. Head(s) = "read" => Tail(s) = <<"on?">>
  BY PlanHeads, PlanTails
<1>9. Head(s) = "add" => Tail(s) = <<"enable?">>
  BY PlanHeads, PlanTails
<1>10. Head(s) \in {"set", "count", "FIOASYNC on", "poll", "remove", "clear", "uncount",
                    "FIOASYNC off", "read", "add"}
  BY PlanHeads DEF Steps
<1>11. /\ <<"count", "FIOASYNC on">> \in Plans /\ <<"count", "select">> \in Plans
       /\ <<"FIOASYNC on">> \in Plans /\ <<"select">> \in Plans /\ <<"poll">> \in Plans
  BY DEF Plans, Reading, Enabling
<1>12. /\ <<"uncount", "FIOASYNC off", "read", "on?">> \in Plans
       /\ <<"FIOASYNC off", "read", "on?">> \in Plans
       /\ <<"read", "on?">> \in Plans /\ <<"on?">> \in Plans
  BY DEF Plans, Reading
<1>13. /\ <<"uncount", "FIOASYNC off", "remove">> \in Plans
       /\ <<"FIOASYNC off", "remove">> \in Plans
       /\ <<"remove">> \in Plans /\ <<"enable?">> \in Plans
  BY DEF Plans, Disabling, Enabling
<1>14. /\ ~Marked(<<"uncount", "FIOASYNC off", "read", "on?">>)
       /\ ~Marked(<<"FIOASYNC off", "read", "on?">>)
       /\ ~Marked(<<"read", "on?">>) /\ ~Marked(<<"on?">>)
  BY ReadingHeads DEF Marked
<1>15. /\ ~Marked(<<"uncount", "FIOASYNC off", "remove">>)
       /\ ~Marked(<<"FIOASYNC off", "remove">>)
       /\ ~Marked(<<"remove">>) /\ ~Marked(<<"enable?">>)
  BY DisablingHeads, EnablingHeads DEF Marked
<1>16. \A t \in Plans : t # <<>>
  BY PlanType
<1>17. CASE Head(s) \in {"set", "count", "FIOASYNC on", "poll", "remove"}
  BY ONLY <1>1, <1>2, <1>3, <1>4, <1>11, <1>16, <1>17
<1>18. CASE Head(s) = "clear"
  BY ONLY <1>5, <1>12, <1>13, <1>14, <1>15, <1>16, <1>18
<1>19. CASE Head(s) = "uncount"
  BY ONLY <1>6, <1>12, <1>13, <1>14, <1>15, <1>16, <1>19
<1>20. CASE Head(s) = "FIOASYNC off"
  BY ONLY <1>7, <1>12, <1>13, <1>14, <1>15, <1>16, <1>20
<1>21. CASE Head(s) = "read"
  BY ONLY <1>8, <1>12, <1>14, <1>16, <1>21
<1>22. CASE Head(s) = "add"
  BY ONLY <1>9, <1>13, <1>15, <1>16, <1>22
<1> QED BY <1>10, <1>17, <1>18, <1>19, <1>20, <1>21, <1>22

(* Adding to, or taking from, the set of descriptors that are checked. *)
LEMMA MarkKeeps ==
    ASSUME InputTyped, NEW f \in Fd, NEW s \in Plans, Underway(f, s), Mark
    PROVE  InputInv'
<1>1. PICK t : t = Tail(s)
  OBVIOUS
<1>2. /\ Head(s) = "set" \/ Head(s) = "clear"
      /\ At("set") <=> Head(s) = "set"
      /\ todo' = Do(f, t) /\ Next1.fd = f
  BY <1>1, Current DEF Underway, Mark
<1>3. t \in Plans \cup {<<>>} /\ (Head(s) = "clear" => t # <<>> /\ ~Marked(t))
  BY <1>1, <1>2, OneMore
<1>4. /\ UNCHANGED <<waiting, async_fds, devasts, trap, read>>
      /\ async_on_fds' = IF Head(s) = "set" THEN async_on_fds \cup {f} ELSE async_on_fds \ {f}
  BY <1>2 DEF Mark, kernelvars, user
<1>5. InputTyped'
  BY <1>4 DEF InputTyped
<1>6. \A g \in Fd \ {f} : Kept(g) => Kept(g)'
  BY <1>4 DEF Kept, Told
<1>7. t = <<>> \/ Marked(t) => Kept(f)'
  BY <1>2, <1>3, <1>4 DEF Kept
<1> QED BY <1>2, <1>3, <1>5, <1>6, <1>7, CallGoesOn

(* Counting, and the kernel's flag. *)
LEMMA CountKeeps ==
    ASSUME InputTyped, NEW f \in Fd, NEW s \in Plans, Underway(f, s), Count \/ Fioasync
    PROVE  InputInv'
<1>1. PICK t : t = Tail(s)
  OBVIOUS
<1>2. /\ Head(s) \in {"count", "uncount", "FIOASYNC on", "FIOASYNC off"}
      /\ todo' = Do(f, t)
  BY <1>1, Current DEF Underway, Count, Fioasync
<1>3. /\ t \in Plans \cup {<<>>}
      /\ Head(s) \in {"uncount", "FIOASYNC off"} => t # <<>> /\ ~Marked(t)
  BY <1>1, <1>2, OneMore
<1>4. t = <<>> \/ Marked(t) => Kept(f)
  BY <1>2, <1>3 DEF Underway, Marked
<1>5. UNCHANGED <<waiting, async_fds, async_on_fds, devasts, trap, read>>
  BY DEF Count, Fioasync, kernelvars, sets, user
<1> QED BY <1>2, <1>3, <1>4, <1>5, OtherStatement

(* Asking select whether there is input already. *)
LEMMA SelectKeeps ==
    ASSUME InputTyped, NEW f \in Fd, NEW s \in Plans, Underway(f, s), Select
    PROVE  InputInv'
<1>1. /\ Head(s) = "select" /\ Next1.fd = f
      /\ \A u \in Seq(Steps) : Goto(f, u) = Do(f, u \o Tail(s))
  BY Current DEF Underway, Select
<1>2. s = <<"select">> /\ Tail(s) = <<>>
  BY <1>1, PlanHeads, PlanTails
<1>3. PICK t \in Plans :
        t = IF f \in waiting THEN <<"FIOASYNC on", "poll">> ELSE <<"FIOASYNC on">>
  BY DEF Plans, Enabling, Reading
<1>4. t \in Seq(Steps)
  BY PlanType
<1>5. Goto(f, t) = Do(f, t)
  <2>1. t \o <<>> = t
    BY <1>4, ConcatEmptySeq
  <2> QED BY <1>1, <1>2, <1>4, <2>1
<1>6. todo' = Do(f, t) /\ UNCHANGED <<waiting, async_fds, async_on_fds, devasts, trap, read>>
  BY <1>1, <1>3, <1>5 DEF Select, kernelvars, sets, user
<1>7. Kept(f)
  BY <1>1 DEF Underway, Marked
<1> QED BY <1>6, <1>7, OtherStatement

(* Adding to, or taking from, the set of those with asynchronous input. *)
LEMMA MemberKeeps ==
    ASSUME InputTyped, NEW f \in Fd, NEW s \in Plans, Underway(f, s), Member
    PROVE  InputInv'
<1>1. PICK t : t = Tail(s)
  OBVIOUS
<1>2. /\ Head(s) = "add" \/ Head(s) = "remove"
      /\ At("add") <=> Head(s) = "add"
      /\ todo' = Do(f, t) /\ Next1.fd = f
  BY <1>1, Current DEF Underway, Member
<1>3. t \in Plans \cup {<<>>} /\ (Head(s) = "add" => t # <<>> /\ ~Marked(t))
  BY <1>1, <1>2, OneMore
<1>4. /\ UNCHANGED <<waiting, async_on_fds, devasts, trap, read>>
      /\ async_fds' = IF Head(s) = "add" THEN async_fds \cup {f} ELSE async_fds \ {f}
  BY <1>2 DEF Member, kernelvars, user
<1>5. InputTyped'
  BY <1>4 DEF InputTyped
<1>6. \A g \in Fd \ {f} : Kept(g) => Kept(g)'
  BY <1>4 DEF Kept, Told
<1>7. t = <<>> \/ Marked(t) => Kept(f)'
  BY <1>2, <1>3, <1>4 DEF Kept
<1> QED BY <1>2, <1>3, <1>5, <1>6, <1>7, CallGoesOn

(* Reading. *)
LEMMA ReadKeeps ==
    ASSUME InputTyped, NEW f \in Fd, NEW s \in Plans, Underway(f, s), Read
    PROVE  InputInv'
<1>1. PICK t : t = Tail(s)
  OBVIOUS
<1>2. Head(s) = "read" /\ todo' = Do(f, t) /\ Next1.fd = f
  BY <1>1, Current DEF Underway, Read
<1>3. t \in Plans \cup {<<>>} /\ t # <<>> /\ ~Marked(t)
  BY <1>1, <1>2, OneMore
<1>4. /\ waiting' = waiting \ {f} /\ read' = (read \/ trap = f)
      /\ UNCHANGED <<async_fds, async_on_fds, devasts, trap>>
  BY <1>2 DEF Read, sets
<1>5. InputTyped'
  BY <1>4 DEF InputTyped
<1>6. \A g \in Fd \ {f} : Kept(g) => Kept(g)'
  BY <1>4 DEF Kept, Told
<1> QED BY <1>2, <1>3, <1>5, <1>6, CallGoesOn

-----------------------------------------------------------------------------
(* The handler, the kernel and the program. *)

(* Polling the descriptors takes off those it tells of. *)
LEMMA PollTells ==
    ASSUME InputTyped, Poll, UNCHANGED <<waiting, async_fds, trap, read>>
    PROVE  InputTyped' /\ \A g \in Fd : Kept(g) => Kept(g)'
<1> DEFINE ready == IF async_ctr = 0 THEN {} ELSE async_on_fds \cap waiting
<1>1. devasts' = devasts \o SetToSeq(ready) /\ async_on_fds' = async_on_fds \ ready
  BY DEF Poll
<1>2. ready \subseteq async_on_fds \cap waiting
  OBVIOUS
<1> HIDE DEF ready
<1>3. IsFiniteSet(ready) /\ ready \subseteq Fd
  BY <1>2, AsyncIoAssumption, FS_Subset DEF InputTyped
<1>4. SetToSeq(ready) \in Seq(Fd) /\ ToSet(SetToSeq(ready)) = ready
  BY <1>3, SetToSeqRange
<1>5. devasts' \in Seq(Fd) /\ ToSet(devasts') = ToSet(devasts) \cup ready
  BY <1>1, <1>4, ConcatRange DEF InputTyped
<1>6. InputTyped'
  BY <1>1, <1>5 DEF InputTyped
<1>7. ASSUME NEW g \in Fd, Kept(g), g \in async_fds' \ async_on_fds'
      PROVE  Told(g)'
  <2>1. CASE g \in ready
    BY <2>1, <1>2, <1>5 DEF Told
  <2>2. CASE g \notin ready
    <3>1. Told(g)
      BY <2>2, <1>1, <1>7 DEF Kept
    <3> QED BY <3>1, <1>5 DEF Told
  <2> QED BY <2>1, <2>2
<1> QED BY <1>6, <1>7 DEF Kept

(* The signal handler, at any point of a call. *)
LEMMA SigioKeeps ==
    ASSUME InputInv, Sigio
    PROVE  InputInv'
<1>1. InputTyped /\ CallKept /\ Poll /\ todo' = todo /\ UNCHANGED <<waiting, async_fds, trap, read>>
  BY DEF InputInv, Sigio, user
<1> QED BY <1>1, PollTells, Meanwhile

(* Polling for a device that was switched on. *)
LEMMA PollNowKeeps ==
    ASSUME InputTyped, NEW f \in Fd, NEW s \in Plans, Underway(f, s), PollNow
    PROVE  InputInv'
<1>1. Head(s) = "poll" /\ todo' = Do(f, Tail(s))
  BY Current DEF Underway, PollNow
<1>2. Tail(s) = <<>>
  BY <1>1, PlanHeads, PlanTails
<1>3. Poll /\ UNCHANGED <<waiting, async_fds, trap, read>>
  BY DEF PollNow, user
<1>4. InputTyped' /\ \A g \in Fd : Kept(g) => Kept(g)'
  BY <1>3, PollTells
<1>5. Kept(f)
  BY <1>1 DEF Underway, Marked
<1> QED BY <1>1, <1>2, <1>4, <1>5, CallGoesOn

(* Input, at any point of a call. *)
LEMMA ArriveKeeps ==
    ASSUME InputInv, NEW f \in Fd, Arrive(f)
    PROVE  InputInv'
<1>1. /\ InputTyped /\ CallKept /\ todo' = todo /\ waiting' = waiting \cup {f}
      /\ UNCHANGED <<async_fds, async_on_fds, devasts, trap, read>>
  BY DEF InputInv, Arrive, sets, user
<1>2. InputTyped'
  BY <1>1 DEF InputTyped
<1>3. \A g \in Fd : Kept(g) => Kept(g)'
  BY <1>1 DEF Kept, Told
<1> QED BY <1>1, <1>2, <1>3, Meanwhile

(* Taking an ast off the ring runs the trap of the device or, if it has no *)
(* asynchronous input any more, drops it.                                  *)
LEMMA TakeAstKeeps ==
    ASSUME InputInv, TakeAst
    PROVE  InputInv'
<1>1. InputTyped /\ CallKept /\ todo' = todo /\ trap = NoFd
      /\ UNCHANGED <<waiting, async_fds, async_on_fds>>
  BY DEF InputInv, TakeAst, kernelvars, sets
<1>2. /\ devasts' \in Seq(Fd) /\ Head(devasts) \in Fd
      /\ ToSet(devasts) \subseteq {Head(devasts)} \cup ToSet(devasts')
  BY HeadAndTail DEF InputInv, InputTyped, TakeAst
<1>3. InputTyped'
  BY <1>1, <1>2 DEF InputTyped
<1>4. ASSUME NEW g \in Fd, Kept(g)
      PROVE  Kept(g)'
  <2>1. g # trap
    BY <1>1, AsyncIoAssumption
  <2>2. g \in async_fds /\ g \in ToSet(devasts) => g \in ToSet(devasts') \/ (g = trap' /\ ~read')
    BY <1>2 DEF TakeAst
  <2> QED BY <1>1, <1>4, <2>1, <2>2 DEF Kept, Told
<1> QED BY <1>1, <1>3, <1>4, Meanwhile

(* The return from a trap, which has read or has nothing to read. *)
LEMMA TrapReturnsKeeps ==
    ASSUME InputInv, TrapReturns
    PROVE  InputInv'
<1>1. InputTyped /\ CallKept /\ todo' = todo /\ (trap \in waiting => read)
      /\ UNCHANGED <<waiting, async_fds, async_on_fds, devasts>>
  BY DEF InputInv, TrapReturns, kernelvars, sets
<1>2. InputTyped'
  BY <1>1 DEF InputTyped
<1>3. \A g \in Fd : Kept(g) => Kept(g)'
  BY <1>1 DEF Kept, Told
<1> QED BY <1>1, <1>2, <1>3, Meanwhile

(* A fork. *)
LEMMA ForkKeeps ==
    ASSUME InputInv, PopFork
    PROVE  InputInv'
<1>1. /\ InputTyped /\ CallKept /\ todo' = todo
      /\ UNCHANGED <<waiting, async_fds, async_on_fds, devasts, trap, read>>
  BY DEF InputInv, PopFork, sets, user
<1>2. InputTyped'
  BY <1>1 DEF InputTyped
<1>3. \A g \in Fd : Kept(g) => Kept(g)'
  BY <1>1, KeptFrame
<1> QED BY <1>1, <1>2, <1>3, Meanwhile

(* Starting a call. *)
LEMMA StartKeeps ==
    ASSUME InputInv, todo = <<>>, NEW f \in Fd, NEW t \in Plans, todo' = Do(f, t),
           UNCHANGED <<waiting, async_fds, async_on_fds, devasts, trap, read>>
    PROVE  InputInv'
<1>1. \A g \in Fd : Kept(g)'
  BY NoCall, KeptFrame DEF InputInv
<1>2. InputTyped'
  BY DEF InputInv, InputTyped
<1>3. Do(f, t)' = Do(f, t)
  BY DEF Do
<1>4. Underway(f, t)'
  BY <1>1, <1>3 DEF Underway
<1> QED BY <1>2, <1>4 DEF InputInv, CallKept

(* The calls of the program, in a trap or outside. *)
LEMMA ProgramKeeps ==
    ASSUME InputInv, NEW f \in Fd, Switch(f) \/ MainReads(f) \/ (TrapReads /\ f = trap)
    PROVE  InputInv'
<1>1. todo = <<>> /\ UNCHANGED <<waiting, async_fds, async_on_fds, devasts, trap, read>>
  BY DEF Switch, MainReads, TrapReads, kernelvars, sets, user
<1>2. PICK t \in Plans : todo' = Do(f, t)
  <2>1. CASE Switch(f) /\ f \in async_fds
    <3>1. todo' = Do(f, <<"off?", "remove">>) /\ <<"off?", "remove">> \in Plans
      BY <2>1 DEF Switch, Disable, Plans, Disabling
    <3> QED BY <3>1
  <2>2. CASE Switch(f) /\ f \notin async_fds
    <3>1. todo' = Do(f, <<"add", "enable?">>) /\ <<"add", "enable?">> \in Plans
      BY <2>2 DEF Switch, Enable, Plans, Enabling
    <3> QED BY <3>1
  <2>3. CASE MainReads(f) \/ (TrapReads /\ f = trap)
    <3>1. todo' = Do(f, <<"off?", "read", "on?">>) /\ <<"off?", "read", "on?">> \in Plans
      BY <2>3 DEF MainReads, TrapReads, Sysread, Plans, Reading
    <3> QED BY <3>1
  <2> QED BY <2>1, <2>2, <2>3
<1> QED BY <1>1, <1>2, StartKeeps

(* Every step of a call. *)
LEMMA StepKeeps ==
    ASSUME InputInv, Step
    PROVE  InputInv'
<1>1. todo # <<>>
  BY DEF Step, TestOff, TestOn, TestEnable, TestFor, Mark, Count, Select, Fioasync, PollNow,
         Member, Read, At
<1>2. PICK f \in Fd, s \in Plans : Underway(f, s)
  BY <1>1 DEF InputInv, CallKept
<1>3. InputTyped
  BY DEF InputInv
<1> QED
  BY <1>2, <1>3, TestOffKeeps, TestOnKeeps, MarkKeeps, CountKeeps, SelectKeeps, PollNowKeeps,
     MemberKeeps, ReadKeeps DEF Step

(* The invariant holds at the start ... *)
LEMMA InputStarts == InputInit => InputInv
<1> SUFFICES ASSUME InputInit
             PROVE  InputInv
  OBVIOUS
<1>1. <<>> \in Seq(Fd)
  OBVIOUS
<1>2. InputTyped
  BY <1>1 DEF InputTyped, InputInit
<1>3. todo = <<>> /\ \A g \in Fd : Kept(g)
  BY DEF InputInit, Kept
<1> QED BY <1>2, <1>3 DEF InputInv, CallKept

(* ... and after every step. *)
LEMMA InputStep ==
    ASSUME InputInv, [InputNext]_inputvars
    PROVE  InputInv'
<1>1. CASE InputNext
  <2>1. CASE \E f \in Fd : Arrive(f)
    BY <2>1, ArriveKeeps
  <2>2. CASE Sigio
    BY <2>2, SigioKeeps
  <2>3. CASE Step
    BY <2>3, StepKeeps
  <2>4. CASE TakeAst
    BY <2>4, TakeAstKeeps
  <2>5. CASE TrapReads
    <3>1. trap \in Fd
      BY <2>5 DEF TrapReads, InputInv, InputTyped
    <3> QED BY <2>5, <3>1, ProgramKeeps
  <2>6. CASE TrapReturns
    BY <2>6, TrapReturnsKeeps
  <2>7. CASE \E f \in Fd : Switch(f) \/ MainReads(f)
    BY <2>7, ProgramKeeps
  <2>8. CASE PopFork
    BY <2>8, ForkKeeps
  <2> QED BY <1>1, <2>1, <2>2, <2>3, <2>4, <2>5, <2>6, <2>7, <2>8 DEF InputNext, Program
<1>2. CASE UNCHANGED inputvars
  <2>1. /\ InputTyped /\ CallKept /\ todo' = todo
        /\ UNCHANGED <<waiting, async_fds, async_on_fds, devasts, trap, read>>
    BY <1>2 DEF InputInv, inputvars
  <2>2. InputTyped'
    BY <2>1 DEF InputTyped
  <2>3. \A g \in Fd : Kept(g) => Kept(g)'
    BY <2>1, KeptFrame
  <2> QED BY <2>1, <2>2, <2>3, Meanwhile
<1> QED BY <1>1, <1>2

(* A device that has asynchronous input but is not checked has input, and  *)
(* an ast on its way or a trap that has yet to read it, however the signal *)
(* handler and the input interleave with the statements of the calls that  *)
(* switch checking off and on.                                             *)
THEOREM UncheckedIsAnnounced == InputSpec => []UncheckedAnnounced
<1>1. InputInv /\ [InputNext]_inputvars => InputInv'
  BY InputStep
<1>2. InputInv => UncheckedAnnounced
  <2> SUFFICES ASSUME InputInv, todo = <<>>, NEW g \in async_fds \ async_on_fds
               PROVE  Told(g)
    BY DEF UncheckedAnnounced
  <2>1. g \in Fd /\ Kept(g)
    BY NoCall DEF InputInv, InputTyped
  <2> QED BY <2>1 DEF Kept
<1> QED BY InputStarts, <1>1, <1>2, PTL DEF InputSpec

=============================================================================
