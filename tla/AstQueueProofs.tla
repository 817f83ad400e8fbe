--------------------------- MODULE AstQueueProofs ---------------------------
(***************************************************************************)
(* Proofs about the dispatch of asts of AstQueue, for a queue and a stack  *)
(* of any depth.                                                           *)
(*                                                                         *)
(* No handler is entered inside itself, and no signal stays masked after   *)
(* its handler. Both are about the stack of activations, so the invariant  *)
(* says of each activation what it may be, and each action is proved to    *)
(* change the stack only by activations that are no part of running a      *)
(* handler, or in one of the few ways of starting, leaving and unwinding   *)
(* handlers.                                                               *)
(*                                                                         *)
(* Then, for programs that keep to Tame: the pointers into the queue and   *)
(* _ignore_ast_queue are sound (DispatchInv relates every scan on the      *)
(* stack to what it has passed on the queue, and every queued ast to what  *)
(* will have it looked at again), nothing is left on the queue that could  *)
(* run, and the raises of an ast are handled in order (FollowInv).         *)
(*                                                                         *)
(* At the end, the ring of AstRing that the asts come from: for a ring of  *)
(* any size, it is a bounded queue that loses its oldest ast.              *)
(***************************************************************************)
EXTENDS AstQueue, AstRing, SequenceLemmas

(* Handlers that do not enable signals, and programs that do not set the   *)
(* flags of signals at all. *)
HandlersEnableNone == "enable" \notin HandlerOps
FlagsLeftAlone == {"enable", "disable"} \cap (MainOps \cup HandlerOps) = {}

(* A sequence of anything: the proofs need no type of activations. *)
IsSequence(st) == \E S : st \in Seq(S)

(* Activations that are no part of running a handler, nor of a setpop that *)
(* has unwound the stack. *)
Neutral(a) ==
    /\ "fn" \in DOMAIN a
    /\ a.fn \notin {"handler", "Raise_astp"}
    /\ a.fn = "Clear_ast_queue" => a.then \notin {"reset", "restart"}

(* An activation that is running the handler of x. *)
Handles(a, x) == a.fn = "handler" /\ a.entry.item = x

(* No handler is being entered inside itself. *)
Separate(st) ==
    \A i, j \in 1 .. Len(st) :
        i < j /\ st[i].fn = "handler" /\ st[j].fn \in {"handler", "Raise_astp"}
              /\ st[i].entry.item \in (Recursive \ Never) \cup Sig
            => st[i].entry.item # st[j].entry.item

(* A signal is masked while it is handled, ... *)
HandledMasked(st, flags) ==
    \A i \in 1 .. Len(st), s \in Sig : Handles(st[i], s) => ~flags[s]

(* ... and otherwise only by a program that masks it. *)
Released(st, flags) ==
    \A s \in Sig : ~flags[s] => \E i \in 1 .. Len(st) : Handles(st[i], s)

(* One activation, at position i of the stack. *)
FrameSound(a, i) ==
    /\ "fn" \in DOMAIN a
    /\ a.fn = "Raise_astp" => a = Entering(a.entry) /\ a.entry.item \notin Sig
    /\ a.fn = "Clear_ast_queue" /\ a.then \in {"reset", "restart"} => i = 1

(* The inductive invariant; Released is the part that holds only for       *)
(* programs that leave the flags of signals alone.                         *)
StackSound(st, flags) ==
    /\ IsSequence(st)
    /\ flags \in [Sig -> BOOLEAN]
    /\ \A i \in 1 .. Len(st) : FrameSound(st[i], i)
    /\ Separate(st)
    /\ HandledMasked(st, flags)

(* st2 has no activation beyond those of st but neutral ones. *)
Within(st2, st) ==
    /\ IsSequence(st2)
    /\ \A i \in 1 .. Len(st2) : Neutral(st2[i]) \/ (i \in 1 .. Len(st) /\ st2[i] = st[i])

(* The stacks differ by neutral activations only. *)
Alike(st2, st) == Within(st2, st) /\ Within(st, st2)

(* A stack that adds nothing but neutral activations is as sound as the    *)
(* one it comes from.                                                      *)
LEMMA WithinSound ==
    ASSUME NEW st, NEW st2, NEW flags, StackSound(st, flags), Within(st2, st)
    PROVE  StackSound(st2, flags)
<1>1. \A i \in 1 .. Len(st2) : FrameSound(st2[i], i)
  BY DEF StackSound, Within, Neutral, FrameSound
<1>2. Separate(st2)
  BY DEF StackSound, Within, Neutral, Separate
<1>3. HandledMasked(st2, flags)
  BY DEF StackSound, Within, Neutral, HandledMasked, Handles
<1> QED BY <1>1, <1>2, <1>3 DEF StackSound, Within

(* A masked signal has its handler on any stack that keeps the handlers. *)
LEMMA AlikeReleased ==
    ASSUME NEW st, NEW st2, NEW flags, Released(st, flags), Within(st, st2)
    PROVE  Released(st2, flags)
  BY DEF Released, Within, Neutral, Handles

(* Being alike is transitive. *)
LEMMA AlikeTrans ==
    ASSUME NEW st, NEW st2, NEW st3, Alike(st2, st), Alike(st3, st2)
    PROVE  Alike(st3, st)
  BY DEF Alike, Within

(* Appending to a stack. *)
LEMMA SequenceAppend ==
    ASSUME NEW st, IsSequence(st), NEW a
    PROVE  /\ IsSequence(Append(st, a)) /\ Len(st) \in Nat
           /\ Len(Append(st, a)) = Len(st) + 1
           /\ Append(st, a)[Len(st) + 1] = a
           /\ \A i \in 1 .. Len(st) : Append(st, a)[i] = st[i]
<1>1. PICK S : st \in Seq(S)
  BY DEF IsSequence
<1>2. st \in Seq(S \cup {a})
  BY <1>1
<1>3. Append(st, a) \in Seq(S \cup {a})
  BY <1>2
<1>4. IsSequence(Append(st, a))
  BY <1>3 DEF IsSequence
<1> QED BY <1>2, <1>4, AppendProperties

(* Popping a stack. *)
LEMMA SequenceFront ==
    ASSUME NEW st, IsSequence(st), st # <<>>
    PROVE  /\ IsSequence(Front(st)) /\ Len(st) \in Nat \ {0}
           /\ Len(Front(st)) = Len(st) - 1
           /\ \A i \in 1 .. Len(st) - 1 : Front(st)[i] = st[i]
<1>1. PICK S : st \in Seq(S)
  BY DEF IsSequence
<1>2. Len(st) \in Nat /\ Len(st) # 0
  BY <1>1
<1>3. \A i \in 1 .. Len(st) - 1 : i \in 1 .. Len(st)
  BY <1>2
<1>4. Front(st) \in Seq(S) /\ Len(Front(st)) = Len(st) - 1
      /\ \A i \in 1 .. Len(st) - 1 : Front(st)[i] = st[i]
  <2> DEFINE n == Len(st) - 1
  <2>1. n \in Nat /\ n <= Len(st)
    BY <1>2
  <2>2. \A i \in 1 .. n : i \in 1 .. Len(st)
    BY <1>3
  <2> HIDE DEF n
  <2>3. SubSeq(st, 1, n) \in Seq(S) /\ Len(SubSeq(st, 1, n)) = n
        /\ \A i \in 1 .. n : SubSeq(st, 1, n)[i] = st[i]
    BY <1>1, <2>1, <2>2
  <2> QED BY <2>3 DEF Front, n
<1> QED BY <1>2, <1>4 DEF IsSequence

(* Pushing a neutral activation leaves the stack alike. *)
LEMMA AppendAlike ==
    ASSUME NEW st, IsSequence(st), NEW a, Neutral(a)
    PROVE  Alike(Append(st, a), st)
<1>1. /\ IsSequence(Append(st, a)) /\ Len(st) \in Nat
      /\ Len(Append(st, a)) = Len(st) + 1
      /\ Append(st, a)[Len(st) + 1] = a
      /\ \A i \in 1 .. Len(st) : Append(st, a)[i] = st[i]
  BY SequenceAppend
<1> DEFINE st2 == Append(st, a)
<1> HIDE DEF st2
<1>2. \A i \in 1 .. Len(st2) : i \in 1 .. Len(st) \/ i = Len(st) + 1
  BY <1>1 DEF st2
<1>3. \A i \in 1 .. Len(st) : i \in 1 .. Len(st2)
  BY <1>1 DEF st2
<1> QED BY <1>1, <1>2, <1>3 DEF Alike, Within, st2

(* Popping adds nothing, and leaves the stack alike if the top was         *)
(* neutral.                                                                *)
LEMMA FrontWithin ==
    ASSUME NEW st, IsSequence(st), st # <<>>
    PROVE  Within(Front(st), st) /\ (Neutral(st[Len(st)]) => Alike(Front(st), st))
<1>1. /\ IsSequence(Front(st)) /\ Len(st) \in Nat \ {0}
      /\ Len(Front(st)) = Len(st) - 1
      /\ \A i \in 1 .. Len(st) - 1 : Front(st)[i] = st[i]
  BY SequenceFront
<1>2. \A i \in 1 .. Len(st) - 1 : i \in 1 .. Len(st)
  BY <1>1
<1>3. \A i \in 1 .. Len(st) : i \in 1 .. Len(st) - 1 \/ i = Len(st)
  BY <1>1
<1> QED BY <1>1, <1>2, <1>3 DEF Alike, Within

(* Replacing a neutral top by a neutral activation leaves the stack alike. *)
LEMMA ReplacedAlike ==
    ASSUME NEW st, IsSequence(st), st # <<>>, NEW a, Neutral(st[Len(st)]), Neutral(a)
    PROVE  /\ Alike([st EXCEPT ![Len(st)] = a], st)
           /\ [st EXCEPT ![Len(st)] = a] # <<>>
<1> DEFINE st2 == [st EXCEPT ![Len(st)] = a]
<1>1. PICK S : st \in Seq(S)
  BY DEF IsSequence
<1>2. Len(st) \in Nat /\ Len(st) # 0 /\ DOMAIN st = 1 .. Len(st)
  BY <1>1
<1>3. st \in [1 .. Len(st) -> S \cup {a}]
  BY <1>1
<1>4. st2 \in [1 .. Len(st) -> S \cup {a}]
  BY <1>3
<1>5. st2 \in Seq(S \cup {a}) /\ Len(st2) = Len(st)
  <2> HIDE DEF st2
  <2>1. \A n \in Nat : \A f \in [1 .. n -> S \cup {a}] : f \in Seq(S \cup {a}) /\ Len(f) = n
    OBVIOUS
  <2> QED BY <2>1, <1>2, <1>4
<1>6. \A i \in 1 .. Len(st) : st2[i] = IF i = Len(st) THEN a ELSE st[i]
  BY <1>2
<1> HIDE DEF st2
<1>7. IsSequence(st2) /\ st2 # <<>>
  BY <1>2, <1>5 DEF IsSequence
<1> QED BY <1>5, <1>6, <1>7 DEF Alike, Within, st2

(* A change of field pc, or of others, leaves the procedure as it was. *)
LEMMA GotoNeutral ==
    ASSUME NEW a, Neutral(a), a.fn # "Clear_ast_queue", NEW v, NEW l
    PROVE  Neutral([a EXCEPT !.pc = v]) /\ Neutral([a EXCEPT !.lptr = l, !.pc = v])
  BY DEF Neutral

-----------------------------------------------------------------------------

(* The step keeps the invariant, and the part about programs that leave    *)
(* the flags alone.                                                        *)
Kept ==
    /\ StackSound(stack', sig_flag')
    /\ Released(stack, sig_flag) => Released(stack', sig_flag')

(* A step that leaves the stack alike and the flags as they are keeps the  *)
(* invariant.                                                              *)
LEMMA QuietKept ==
    ASSUME StackSound(stack, sig_flag), Alike(stack', stack), UNCHANGED sig_flag
    PROVE  Kept
<1>1. StackSound(stack', sig_flag)
  BY WithinSound DEF Alike
<1>2. Released(stack, sig_flag) => Released(stack', sig_flag)
  BY AlikeReleased DEF Alike
<1> QED BY <1>1, <1>2 DEF Kept

(* The stack is like itself. *)
LEMMA SameAlike ==
    ASSUME StackSound(stack, sig_flag)
    PROVE  Alike(stack, stack)
  BY DEF StackSound, Alike, Within

(* When the top is none of the three procedures that matter it is neutral, *)
(* and the stack without it alike.                                         *)
LEMMA TopNeutral ==
    ASSUME StackSound(stack, sig_flag), NEW f, In(f), f \notin {"handler", "Raise_astp", "Clear_ast_queue"}
    PROVE  /\ stack # <<>> /\ IsSequence(stack) /\ Neutral(stack[Len(stack)])
           /\ Alike(Popped, stack) /\ IsSequence(Popped)
<1>1. stack # <<>> /\ IsSequence(stack) /\ stack[Len(stack)].fn = f
  BY DEF In, Top, Depth, StackSound
<1>2. Len(stack) \in 1 .. Len(stack)
  <2>1. Len(stack) \in Nat \ {0}
    BY <1>1, SequenceFront
  <2> QED BY <2>1
<1>3. Neutral(stack[Len(stack)])
  BY <1>1, <1>2 DEF StackSound, FrameSound, Neutral
<1>4. Alike(Popped, stack)
  BY <1>1, <1>3, FrontWithin DEF Popped
<1> QED BY <1>1, <1>3, <1>4 DEF Alike, Within

(* Such a top may move from one of its steps to another. *)
LEMMA GotoAlike ==
    ASSUME StackSound(stack, sig_flag), NEW f, In(f),
           f \notin {"handler", "Raise_astp", "Clear_ast_queue"}, NEW pc, NEW lptr
    PROVE  /\ Alike(Goto(pc), stack)
           /\ Alike([stack EXCEPT ![Depth].lptr = lptr, ![Depth].pc = pc], stack)
<1>1. stack # <<>> /\ IsSequence(stack) /\ Neutral(stack[Len(stack)])
      /\ stack[Len(stack)].fn # "Clear_ast_queue"
  BY TopNeutral DEF In, Top, Depth
<1> DEFINE a == [stack[Len(stack)] EXCEPT !.pc = pc]
           b == [stack[Len(stack)] EXCEPT !.lptr = lptr, !.pc = pc]
<1>2. Neutral(a) /\ Neutral(b)
  BY <1>1, GotoNeutral
<1>3. Goto(pc) = [stack EXCEPT ![Len(stack)] = a]
  BY DEF Goto, Depth
<1>4. [stack EXCEPT ![Depth].lptr = lptr, ![Depth].pc = pc] = [stack EXCEPT ![Len(stack)] = b]
  <2>1. PICK S : stack \in Seq(S)
    BY <1>1 DEF IsSequence
  <2>2. Len(stack) \in DOMAIN stack
    BY <2>1, <1>1
  <2> QED BY <2>2 DEF Depth
<1> HIDE DEF a, b
<1> QED BY <1>1, <1>2, <1>3, <1>4, ReplacedAlike

(* A handler is only started where it is not being run already. *)
LEMMA RaiseKept ==
    ASSUME StackSound(stack, sig_flag), NEW st, Alike(st, stack),
           NEW e, NEW queued, MayRun(e.item, queued),
           stack' = Raise(st, e), sig_flag' = RaiseFlags(e)
    PROVE  Kept
<1> DEFINE x == e.item
           a == IF x \in Sig THEN Handler(e) ELSE Entering(e)
           st2 == Append(st, a)
<1>1. StackSound(st, sig_flag) /\ (Released(stack, sig_flag) => Released(st, sig_flag))
  BY WithinSound, AlikeReleased DEF Alike
<1>2. /\ IsSequence(st2) /\ Len(st) \in Nat /\ Len(st2) = Len(st) + 1
      /\ st2[Len(st) + 1] = a /\ \A i \in 1 .. Len(st) : st2[i] = st[i]
  BY <1>1, SequenceAppend DEF StackSound
<1>3. stack' = st2
  BY DEF Raise
<1>4. FrameSound(a, Len(st) + 1) /\ a.entry = e /\ (a.fn = "handler" \/ a.fn = "Raise_astp")
      /\ (a.fn = "handler" <=> x \in Sig)
  BY DEF FrameSound, Handler, Entering
<1>5. ASSUME x \in (Recursive \ Never) \cup Sig
      PROVE  \A i \in 1 .. Len(st) : ~Handles(st[i], x)
  <2>1. CASE x \in Sig
    <3>1. x \notin Never
      BY <2>1, AstQueueAssumption
    <3>2. sig_flag[x]
      BY <2>1, <3>1 DEF MayRun, Blocked
    <3> QED BY <2>1, <3>2, <1>1 DEF StackSound, HandledMasked
  <2>2. CASE x \notin Sig
    <3>1. x \in Recursive /\ x \notin Never
      BY <2>2, <1>5
    <3>2. x \notin Executing
      BY <2>2, <3>1 DEF MayRun, Blocked, RecursionBlocks
    <3>3. \A i \in 1 .. Len(stack) : ~Handles(stack[i], x)
      BY <3>2 DEF Executing, Depth, Handles
    <3> QED BY <3>3 DEF Alike, Within, Neutral, Handles
  <2> QED BY <2>1, <2>2
<1>6. sig_flag' = (IF x \in Sig THEN [sig_flag EXCEPT ![x] = FALSE] ELSE sig_flag)
  BY DEF RaiseFlags
<1> HIDE DEF x, a, st2
<1>7. \A i \in 1 .. Len(st2) : i \in 1 .. Len(st) \/ i = Len(st) + 1
  BY <1>2
<1>8. \A i \in 1 .. Len(st2) : FrameSound(st2[i], i)
  BY <1>1, <1>2, <1>4, <1>7 DEF StackSound
<1>9. Separate(st2)
  <2> SUFFICES ASSUME NEW i \in 1 .. Len(st2), NEW j \in 1 .. Len(st2),
                      i < j, st2[i].fn = "handler", st2[j].fn \in {"handler", "Raise_astp"},
                      st2[i].entry.item \in (Recursive \ Never) \cup Sig,
                      st2[i].entry.item = st2[j].entry.item
               PROVE  FALSE
    BY DEF Separate
  <2>1. i \in 1 .. Len(st) /\ st2[i] = st[i]
    BY <1>2, <1>7
  <2>2. CASE j \in 1 .. Len(st)
    <3>1. st2[j] = st[j]
      BY <2>2, <1>2
    <3> QED BY <2>1, <2>2, <3>1, <1>1 DEF StackSound, Separate
  <2>3. CASE j = Len(st) + 1
    <3>1. st2[j].entry.item = x
      BY <2>3, <1>2, <1>4 DEF x
    <3> QED BY <2>1, <3>1, <1>5 DEF Handles
  <2> QED BY <2>2, <2>3, <1>7
<1>10. sig_flag' \in [Sig -> BOOLEAN] /\ \A s \in Sig : sig_flag'[s] = (sig_flag[s] /\ s # x)
  BY <1>1, <1>6 DEF StackSound
<1>11. HandledMasked(st2, sig_flag')
  <2> SUFFICES ASSUME NEW i \in 1 .. Len(st2), NEW s \in Sig, Handles(st2[i], s), s # x
               PROVE  ~sig_flag[s]
    BY <1>10 DEF HandledMasked
  <2>1. CASE i \in 1 .. Len(st)
    <3>1. Handles(st[i], s)
      BY <2>1, <1>2
    <3> QED BY <2>1, <3>1, <1>1 DEF StackSound, HandledMasked
  <2>2. CASE i = Len(st) + 1
    BY <2>2, <1>2, <1>4 DEF Handles, x
  <2> QED BY <2>1, <2>2, <1>7
<1>12. Released(st, sig_flag) => Released(st2, sig_flag')
  <2> SUFFICES ASSUME Released(st, sig_flag), NEW s \in Sig, ~sig_flag'[s]
               PROVE  \E i \in 1 .. Len(st2) : Handles(st2[i], s)
    BY DEF Released
  <2>1. CASE s = x
    <3>1. Len(st) + 1 \in 1 .. Len(st2)
      BY <1>2
    <3>2. Handles(a, s)
      BY <2>1, <1>4 DEF Handles, x
    <3> QED BY <3>1, <3>2, <1>2
  <2>2. CASE s # x
    <3>1. ~sig_flag[s]
      BY <2>2, <1>10
    <3>2. PICK i \in 1 .. Len(st) : Handles(st[i], s)
      BY <3>1 DEF Released
    <3>3. i \in 1 .. Len(st2)
      BY <1>2
    <3> QED BY <3>2, <3>3, <1>2
  <2> QED BY <2>1, <2>2
<1> QED BY <1>1, <1>2, <1>3, <1>8, <1>9, <1>10, <1>11, <1>12 DEF Kept, StackSound

(* Calling the handler of an item, with its signal masked, keeps the       *)
(* invariant.                                                              *)
LEMMA DispatchKept ==
    ASSUME StackSound(stack, sig_flag), NEW st, Alike(st, stack), NEW x, Dispatch(x, st)
    PROVE  Kept
<1> DEFINE e == [item |-> x, id |-> seen + 1]
<1>1. e.item = x
  OBVIOUS
<1>2. \/ MayRun(x, FALSE) /\ stack' = Raise(st, e) /\ sig_flag' = RaiseFlags(e)
      \/ stack' = Append(st, Adding(e)) /\ sig_flag' = sig_flag
  BY DEF Dispatch
<1> HIDE DEF e
<1>3. CASE MayRun(x, FALSE) /\ stack' = Raise(st, e) /\ sig_flag' = RaiseFlags(e)
  BY <1>1, <1>3, RaiseKept
<1>4. CASE stack' = Append(st, Adding(e)) /\ sig_flag' = sig_flag
  <2>1. Neutral(Adding(e))
    BY DEF Neutral, Adding
  <2>2. Alike(stack', st)
    BY <2>1, <1>4, AppendAlike DEF Alike, Within
  <2>3. Alike(stack', stack)
    BY <2>2, AlikeTrans
  <2> QED BY <2>3, <1>4, QuietKept
<1> QED BY <1>2, <1>3, <1>4

(* Calling the scan of the queue keeps it. *)
LEMMA CallScanKept ==
    ASSUME StackSound(stack, sig_flag), NEW st, Alike(st, stack), NEW a, NEW enabled,
           CallScan(st, a, enabled), UNCHANGED sig_flag
    PROVE  Kept
<1>1. Neutral(Scan(a))
  BY DEF Neutral, Scan
<1>2. Alike(Append(st, Scan(a)), stack)
  <2>1. Alike(Append(st, Scan(a)), st)
    BY <1>1, AppendAlike DEF Alike, Within
  <2> QED BY <2>1, AlikeTrans
<1>3. stack' = Append(st, Scan(a)) \/ stack' = st
  BY DEF CallScan
<1> QED BY <1>2, <1>3, QuietKept

-----------------------------------------------------------------------------

(* A check point that finds asts to dispatch keeps it. *)
LEMMA CheckPointKept ==
    ASSUME StackSound(stack, sig_flag), CheckPoint
    PROVE  Kept
<1> DEFINE st == IF "pc" \in DOMAIN Top THEN Goto("checked") ELSE stack
<1>1. UNCHANGED sig_flag /\ IsSequence(stack)
  BY DEF CheckPoint, switches, StackSound
<1>2. Neutral(Async)
  BY DEF Neutral, Async
<1>3. CASE stack' = Append(stack, Async)
  <2>1. Alike(stack', stack)
    BY <1>1, <1>2, <1>3, AppendAlike
  <2> QED BY <2>1, <1>1, QuietKept
<1>4. CASE CheckInDispatch /\ stack' = Append(st, Async)
  <2>1. CASE In("sys_raise_ast") \/ In("mishap") \/ In("Do_ast_queue") \/ In("Add")
    <3>1. Alike(Goto("checked"), stack)
      <4>1. PICK f \in {"sys_raise_ast", "mishap", "Do_ast_queue", "Add"} : In(f)
        BY <2>1
      <4>2. f \notin {"handler", "Raise_astp", "Clear_ast_queue"}
        BY <4>1
      <4> QED BY <4>1, <4>2, GotoAlike
    <3>2. Alike(st, stack)
      BY <3>1, SameAlike
    <3> HIDE DEF st
    <3>3. Alike(Append(st, Async), st)
      BY <3>2, <1>2, AppendAlike DEF Alike, Within
    <3>4. Alike(stack', stack)
      BY <3>2, <3>3, <1>4, AlikeTrans
    <3> QED BY <3>4, <1>1, QuietKept
  <2>2. CASE In("Raise_astp")
    <3>1. Len(stack) \in 1 .. Len(stack) /\ Top.fn = "Raise_astp"
      <4>1. stack # <<>> /\ Top.fn = "Raise_astp"
        BY <2>2 DEF In
      <4>2. Len(stack) \in Nat \ {0}
        BY <4>1, <1>1, SequenceFront
      <4> QED BY <4>1, <4>2
    <3>2. Top = Entering(Top.entry)
      BY <3>1 DEF StackSound, FrameSound, Top, Depth
    <3>3. DOMAIN Top = {"fn", "entry"}
      BY <3>2 DEF Entering
    <3>4. st = stack
      BY <3>3
    <3>5. Alike(stack', stack)
      BY <1>1, <1>2, <1>4, <3>4, AppendAlike
    <3> QED BY <3>5, <1>1, QuietKept
  <2> QED BY <2>1, <2>2, <1>4 DEF CheckInDispatch
<1> QED BY <1>3, <1>4 DEF CheckPoint

(* The steps of Async_raise_signal keep it. *)
LEMMA AsyncKept ==
    ASSUME StackSound(stack, sig_flag), TakeAst \/ TakeCheck \/ RingEmpty \/ ThenQueue
    PROVE  Kept
<1>1. In("Async_raise_signal")
  BY DEF TakeAst, TakeCheck, RingEmpty, ThenQueue
<1>2. Alike(Goto("handled"), stack) /\ Alike(Goto("loop"), stack) /\ Alike(Popped, stack)
  BY <1>1, GotoAlike, TopNeutral
<1>3. CASE TakeAst
  BY <1>2, <1>3, DispatchKept DEF TakeAst
<1>4. CASE TakeCheck
  BY <1>2, <1>4, QuietKept DEF TakeCheck, switches
<1>5. CASE RingEmpty
  BY <1>2, <1>5, QuietKept DEF RingEmpty, switches
<1>6. CASE ThenQueue
  <2>1. UNCHANGED sig_flag
    BY <1>6 DEF ThenQueue, switches
  <2>2. stack' = Goto("loop") \/ CallScan(Goto("loop"), TRUE, asts_enabled)
    BY <1>6 DEF ThenQueue
  <2>3. CASE stack' = Goto("loop")
    BY <2>1, <2>3, <1>2, QuietKept
  <2>4. CASE CallScan(Goto("loop"), TRUE, asts_enabled)
    BY <2>1, <2>4, <1>2, CallScanKept
  <2> QED BY <2>2, <2>3, <2>4
<1> QED BY <1>3, <1>4, <1>5, <1>6

(* Entering a handler keeps it. *)
LEMMA EnterKept ==
    ASSUME StackSound(stack, sig_flag), Enter
    PROVE  Kept
<1> DEFINE n == Len(stack)  e == Top.entry
<1>1. /\ stack # <<>> /\ Top.fn = "Raise_astp" /\ IsSequence(stack)
      /\ stack' = Append(Popped, Handler(e)) /\ UNCHANGED sig_flag
  BY DEF Enter, In, switches, StackSound
<1>2. /\ IsSequence(Popped) /\ n \in Nat \ {0} /\ Len(Popped) = n - 1
      /\ \A i \in 1 .. n - 1 : Popped[i] = stack[i]
  BY <1>1, SequenceFront DEF Popped
<1>3. /\ IsSequence(stack') /\ Len(stack') = n /\ stack'[n] = Handler(e)
      /\ \A i \in 1 .. n - 1 : stack'[i] = stack[i]
  <2>1. /\ IsSequence(Append(Popped, Handler(e)))
        /\ Len(Append(Popped, Handler(e))) = Len(Popped) + 1
        /\ Append(Popped, Handler(e))[Len(Popped) + 1] = Handler(e)
        /\ \A i \in 1 .. Len(Popped) : Append(Popped, Handler(e))[i] = Popped[i]
    BY <1>2, SequenceAppend
  <2> QED BY <2>1, <1>1, <1>2
<1>4. stack[n].fn = "Raise_astp" /\ stack[n].entry = e /\ e.item \notin Sig /\ n \in 1 .. n
  BY <1>1, <1>2 DEF Top, Depth, StackSound, FrameSound
<1> HIDE DEF n, e
<1>5. Handler(e).fn = "handler" /\ Handler(e).entry = e /\ \A i : FrameSound(Handler(e), i)
  BY DEF Handler, FrameSound
<1>6. \A i \in 1 .. n : i \in 1 .. n - 1 \/ i = n
  BY <1>2
<1>7. \A i \in 1 .. n - 1 : i \in 1 .. n /\ ~(n < i)
  BY <1>2
<1>8. \A i \in 1 .. Len(stack') : FrameSound(stack'[i], i)
  BY <1>3, <1>5, <1>6, <1>7 DEF StackSound, n
<1>9. Separate(stack')
  <2> SUFFICES ASSUME NEW i \in 1 .. Len(stack'), NEW j \in 1 .. Len(stack'),
                      i < j, stack'[i].fn = "handler", stack'[j].fn \in {"handler", "Raise_astp"},
                      stack'[i].entry.item \in (Recursive \ Never) \cup Sig,
                      stack'[i].entry.item = stack'[j].entry.item
               PROVE  FALSE
    BY DEF Separate
  <2>1. i \in 1 .. n - 1 /\ stack'[i] = stack[i]
    BY <1>2, <1>3
  <2>2. stack[j].fn \in {"handler", "Raise_astp"} /\ stack'[j].entry = stack[j].entry
    BY <1>3, <1>4, <1>5, <1>6
  <2> QED BY <2>1, <2>2, <1>3, <1>7 DEF StackSound, Separate, n
<1>10. HandledMasked(stack', sig_flag)
  <2> SUFFICES ASSUME NEW i \in 1 .. Len(stack'), NEW s \in Sig, Handles(stack'[i], s)
               PROVE  ~sig_flag[s]
    BY DEF HandledMasked
  <2>1. i # n
    BY <1>3, <1>4, <1>5 DEF Handles
  <2> QED BY <2>1, <1>3, <1>6, <1>7 DEF StackSound, HandledMasked, n
<1>11. Released(stack, sig_flag) => Released(stack', sig_flag)
  <2>1. \A s \in Sig, i \in 1 .. n : Handles(stack[i], s) => Handles(stack'[i], s)
    BY <1>3, <1>4, <1>6 DEF Handles
  <2> QED BY <2>1, <1>3 DEF Released, n
<1> QED BY <1>1, <1>3, <1>8, <1>9, <1>10, <1>11 DEF Kept, StackSound

(* Returning from a handler, with its signal unmasked, keeps it. *)
LEMMA ReturnKept ==
    ASSUME StackSound(stack, sig_flag), AstpReturns \/ SigReturns
    PROVE  Kept
<1> DEFINE n == Len(stack)  x == Top.entry.item
<1>1. /\ stack # <<>> /\ Top.fn = "handler" /\ IsSequence(stack) /\ stack' = Popped
  BY DEF AstpReturns, SigReturns, In, StackSound
<1>2. /\ IsSequence(Popped) /\ n \in Nat \ {0} /\ Len(Popped) = n - 1
      /\ \A i \in 1 .. n - 1 : Popped[i] = stack[i]
  BY <1>1, SequenceFront DEF Popped
<1>3. Handles(stack[n], x) /\ n \in 1 .. n
  BY <1>1, <1>2 DEF Handles, Top, Depth
<1>4. StackSound(stack', sig_flag)
  BY <1>1, FrontWithin, WithinSound DEF Popped
<1>5. \/ x \in Astp /\ x \notin Sig /\ sig_flag' = sig_flag
      \/ x \in Sig /\ sig_flag' = [sig_flag EXCEPT ![x] = TRUE]
  BY AstQueueAssumption DEF AstpReturns, SigReturns, switches
<1> HIDE DEF n, x
<1>6. /\ sig_flag' \in [Sig -> BOOLEAN]
      /\ \A s \in Sig : sig_flag'[s] = (sig_flag[s] \/ s = x)
  BY <1>5 DEF StackSound
<1>7. \A i \in 1 .. n : i \in 1 .. n - 1 \/ i = n
  BY <1>2
<1>8. HandledMasked(stack', sig_flag')
  <2> SUFFICES ASSUME NEW i \in 1 .. Len(stack'), NEW s \in Sig, Handles(stack'[i], s)
               PROVE  ~sig_flag'[s]
    BY DEF HandledMasked
  <2>1. i \in 1 .. n - 1 /\ Handles(stack[i], s) /\ i \in 1 .. n /\ i < n
    BY <1>1, <1>2
  <2>2. s # x
    BY <2>1, <1>3 DEF StackSound, Separate, Handles, n
  <2> QED BY <2>1, <2>2, <1>6 DEF StackSound, HandledMasked, n
<1>9. Released(stack, sig_flag) => Released(stack', sig_flag')
  <2> SUFFICES ASSUME Released(stack, sig_flag), NEW s \in Sig, ~sig_flag'[s]
               PROVE  \E i \in 1 .. Len(stack') : Handles(stack'[i], s)
    BY DEF Released
  <2>1. PICK i \in 1 .. n : Handles(stack[i], s)
    BY <1>6 DEF Released, n
  <2>2. i # n
    BY <2>1, <1>3, <1>6 DEF Handles
  <2> QED BY <2>1, <2>2, <1>1, <1>2, <1>7
<1> QED BY <1>4, <1>6, <1>8, <1>9 DEF Kept, StackSound

(* The steps of the scan keep it. *)
LEMMA ScanKept ==
    ASSUME StackSound(stack, sig_flag), ScanEnds \/ ScanSkips \/ ScanRuns
    PROVE  Kept
<1>1. In("Do_ast_queue")
  BY DEF ScanEnds, ScanSkips, ScanRuns, Looking
<1>2. Alike(Popped, stack)
  BY <1>1, TopNeutral
<1>3. \A l : Alike([stack EXCEPT ![Depth].lptr = l, ![Depth].pc = "check"], stack)
  BY <1>1, GotoAlike
<1>4. CASE ScanEnds
  BY <1>2, <1>4, QuietKept DEF ScanEnds, switches
<1>5. CASE ScanSkips
  BY <1>3, <1>5, QuietKept DEF ScanSkips, switches
<1>6. CASE ScanRuns
  <2> DEFINE e == queue[Place]
             st == [stack EXCEPT ![Depth].lptr = 0, ![Depth].pc = "check"]
  <2>1. MayRun(e.item, TRUE) /\ stack' = Raise(st, e) /\ sig_flag' = RaiseFlags(e)
    BY <1>6 DEF ScanRuns, Removing
  <2>2. Alike(st, stack)
    BY <1>3
  <2> HIDE DEF e, st
  <2> QED BY <2>1, <2>2, RaiseKept
<1> QED BY <1>4, <1>5, <1>6

(* The returns of the procedures that dispatch keep it, and so does an ast *)
(* that arrives.                                                           *)
LEMMA EndsKept ==
    ASSUME StackSound(stack, sig_flag), RaiseSyncEnds \/ AddAst \/ MishapEnds \/ CallbackReturns
    PROVE  Kept
<1>1. UNCHANGED sig_flag
  BY DEF RaiseSyncEnds, AddAst, MishapEnds, CallbackReturns, switches
<1>2. Alike(Popped, stack)
  <2>1. PICK f \in {"sys_raise_ast", "Add", "mishap", "callback"} : In(f)
    BY DEF RaiseSyncEnds, AddAst, MishapEnds, CallbackReturns
  <2>2. f \notin {"handler", "Raise_astp", "Clear_ast_queue"}
    BY <2>1
  <2> QED BY <2>1, <2>2, TopNeutral
<1>3. stack' = Popped \/ CallScan(Popped, FALSE, asts_enabled)
  BY DEF RaiseSyncEnds, AddAst, MishapEnds, CallbackReturns
<1>4. CASE stack' = Popped
  BY <1>1, <1>2, <1>4, QuietKept
<1>5. CASE CallScan(Popped, FALSE, asts_enabled)
  BY <1>1, <1>2, <1>5, CallScanKept
<1> QED BY <1>3, <1>4, <1>5

-----------------------------------------------------------------------------

(* Two elements concatenated are two appended. *)
LEMMA TwoAppended ==
    ASSUME NEW st, IsSequence(st), NEW a, NEW b
    PROVE  st \o <<a, b>> = Append(Append(st, a), b)
<1>1. PICK S : st \in Seq(S)
  BY DEF IsSequence
<1>2. st \in Seq(S \cup {a, b}) /\ a \in S \cup {a, b} /\ b \in S \cup {a, b}
  BY <1>1
<1> HIDE DEF IsSequence
<1> QED BY <1>2

(* The stack of two activations. *)
LEMMA TwoOnly ==
    ASSUME NEW a, NEW b
    PROVE  /\ IsSequence(<<a, b>>) /\ Len(<<a, b>>) = 2
           /\ <<a, b>>[1] = a /\ <<a, b>>[2] = b
<1>1. <<a, b>> \in Seq({a, b})
  OBVIOUS
<1> QED BY <1>1 DEF IsSequence

(* The empty stack. *)
LEMMA NoFrames == IsSequence(<<>>) /\ Len(<<>>) = 0
<1>1. <<>> \in Seq({})
  OBVIOUS
<1> QED BY <1>1 DEF IsSequence

(* What a program may do at any point, but for setting the flag of a       *)
(* signal, keeps the invariant.                                            *)
LEMMA UserKept ==
    ASSUME StackSound(stack, sig_flag),
           \/ \E x \in Item : RaiseSync(x)
           \/ \E v \in BOOLEAN : SetAstsEnabled(v)
           \/ ClearQueue \/ CallExtern \/ RaiseMishap \/ Setpop
           \/ \E x \in Item : Event(x)
    PROVE  Kept
<1> IsSequence(stack) /\ Alike(stack, stack)
  BY SameAlike DEF StackSound
<1>1. ASSUME NEW x \in Item, RaiseSync(x) PROVE Kept
  <2>1. Alike(Append(stack, Sync), stack)
    BY AppendAlike DEF Sync, Neutral
  <2> QED BY <1>1, <2>1, DispatchKept DEF RaiseSync
<1>2. ASSUME NEW v \in BOOLEAN, SetAstsEnabled(v) PROVE Kept
  <2>1. UNCHANGED sig_flag /\ (stack' = stack \/ CallScan(stack, FALSE, TRUE))
    BY <1>2 DEF SetAstsEnabled
  <2> QED BY <2>1, QuietKept, CallScanKept
<1>3. CASE ClearQueue
  BY <1>3, QuietKept DEF ClearQueue, switches
<1>4. CASE CallExtern
  <2>1. Alike(Append(stack, Callback), stack)
    BY AppendAlike DEF Callback, Neutral
  <2> QED BY <1>4, <2>1, QuietKept DEF CallExtern, switches
<1>5. ASSUME NEW then \in {"mishap", "unwind"}, Clear(then) PROVE Kept
  <2> DEFINE a == Clearing(then, asts_enabled)
  <2>1. stack' = stack \o <<a, Async>> /\ UNCHANGED sig_flag
    BY <1>5 DEF Clear
  <2>2. Neutral(a) /\ Neutral(Async)
    BY DEF Clearing, Async, Neutral
  <2> HIDE DEF a
  <2>3. stack' = Append(Append(stack, a), Async)
    BY <2>1, TwoAppended
  <2>4. Alike(Append(stack, a), stack)
    BY <2>2, AppendAlike
  <2>5. Alike(stack', Append(stack, a))
    BY <2>2, <2>3, <2>4, AppendAlike DEF Alike, Within
  <2>6. Alike(stack', stack)
    BY <2>4, <2>5, AlikeTrans
  <2> QED BY <2>1, <2>6, QuietKept
<1>6. CASE RaiseMishap \/ Setpop
  BY <1>5, <1>6 DEF RaiseMishap, Setpop
<1>7. ASSUME NEW x \in Item, Event(x) PROVE Kept
  BY <1>7, QuietKept DEF Event, switches
<1> QED BY <1>1, <1>2, <1>3, <1>4, <1>6, <1>7

(* Setting the flag of a signal keeps it if handlers enable none. *)
LEMMA SetSigFlagKept ==
    ASSUME StackSound(stack, sig_flag), NEW s \in Sig, NEW v \in BOOLEAN, SetSigFlag(s, v),
           HandlersEnableNone
    PROVE  StackSound(stack', sig_flag')
<1>1. /\ sig_flag' = [sig_flag EXCEPT ![s] = v]
      /\ stack' = stack \/ CallScan(stack, FALSE, asts_enabled)
      /\ v => Does("enable")
  BY DEF SetSigFlag
<1>2. IsSequence(stack) /\ Alike(stack, stack)
  BY SameAlike DEF StackSound
<1>3. Alike(stack', stack)
  <2>1. Alike(Append(stack, Scan(FALSE)), stack)
    BY <1>2, AppendAlike DEF Scan, Neutral
  <2> QED BY <1>1, <1>2, <2>1 DEF CallScan
<1>4. v => stack = <<>>
  BY <1>1 DEF Does, HandlersEnableNone
<1>5. sig_flag' \in [Sig -> BOOLEAN] /\ \A t \in Sig : sig_flag'[t] = IF t = s THEN v ELSE sig_flag[t]
  BY <1>1 DEF StackSound
<1>6. HandledMasked(stack, sig_flag')
  <2>1. CASE v
    <3>1. Len(stack) = 0
      BY <2>1, <1>4
    <3> QED BY <3>1 DEF HandledMasked
  <2>2. CASE ~v
    BY <2>2, <1>5 DEF StackSound, HandledMasked
  <2> QED BY <2>1, <2>2
<1>7. StackSound(stack, sig_flag')
  BY <1>5, <1>6 DEF StackSound
<1> QED BY <1>3, <1>7, WithinSound DEF Alike

(* A stack without handlers is sound, whatever the flags are. *)
LEMMA NoHandlers ==
    ASSUME NEW st, NEW flags \in [Sig -> BOOLEAN], IsSequence(st),
           \A i \in 1 .. Len(st) : FrameSound(st[i], i) /\ st[i].fn # "handler"
    PROVE  StackSound(st, flags)
  BY DEF StackSound, Separate, HandledMasked, Handles

(* Leaving every handler by a non-local exit unmasks every signal that a   *)
(* handler had masked.                                                     *)
LEMMA LeaveReleases ==
    ASSUME StackSound(stack, sig_flag), LeaveHandlers
    PROVE  /\ sig_flag' \in [Sig -> BOOLEAN]
           /\ Released(stack, sig_flag) => \A s \in Sig : sig_flag'[s]
<1>1. sig_flag' \in [Sig -> BOOLEAN]
  <2>1. \A s \in Sig : (sig_flag[s] \/ s \in Unmasked) \in BOOLEAN
    OBVIOUS
  <2> QED BY <2>1 DEF LeaveHandlers
<1>2. ASSUME Released(stack, sig_flag), NEW s \in Sig
      PROVE  sig_flag[s] \/ s \in Unmasked
  BY <1>2 DEF Released, Handles, Unmasked, Executing, Depth
<1>3. ASSUME Released(stack, sig_flag), NEW s \in Sig
      PROVE  sig_flag'[s]
  BY <1>2, <1>3 DEF LeaveHandlers
<1> QED BY <1>1, <1>3

(* A non-local exit out of a handler, and the unwinding of setpop, keep    *)
(* the invariant.                                                          *)
LEMMA LeaveKept ==
    ASSUME StackSound(stack, sig_flag), ExitHandler \/ ClearAndUnwind
    PROVE  Kept
<1>1. LeaveHandlers
  BY DEF ExitHandler, ClearAndUnwind
<1>2. /\ sig_flag' \in [Sig -> BOOLEAN]
      /\ Released(stack, sig_flag) => \A s \in Sig : sig_flag'[s]
  BY <1>1, LeaveReleases
<1>3. CASE stack' = <<>>
  BY <1>2, <1>3, NoFrames, NoHandlers DEF Kept, Released
<1>4. CASE stack' = <<Clearing("reset", Restored), Async>>
  <2> DEFINE a == Clearing("reset", Restored)
  <2>1. \A i : FrameSound(Async, i) /\ Async.fn # "handler"
    BY DEF FrameSound, Async
  <2>2. FrameSound(a, 1) /\ a.fn # "handler"
    BY DEF FrameSound, Clearing
  <2> HIDE DEF a
  <2>3. IsSequence(stack') /\ Len(stack') = 2 /\ stack'[1] = a /\ stack'[2] = Async
    BY <1>4, TwoOnly DEF a
  <2>4. \A i \in 1 .. Len(stack') : FrameSound(stack'[i], i) /\ stack'[i].fn # "handler"
    BY <2>1, <2>2, <2>3
  <2> QED BY <1>2, <2>3, <2>4, NoHandlers DEF Kept, Released
<1> QED BY <1>3, <1>4 DEF ExitHandler, ClearAndUnwind

(* The ends of setpop, which begin a new stack, keep it. *)
LEMMA ResetKept ==
    ASSUME StackSound(stack, sig_flag), ClearAndReset \/ ClearAndRestart
    PROVE  Kept
<1>1. /\ stack # <<>> /\ Top.fn = "Clear_ast_queue" /\ Top.then \in {"reset", "restart"}
      /\ UNCHANGED sig_flag
  BY DEF ClearAndReset, ClearAndRestart, ClearEntries, In, switches
<1>2. Len(stack) = 1 /\ IsSequence(stack)
  <2>1. Len(stack) \in Nat \ {0} /\ IsSequence(stack)
    BY <1>1, SequenceFront DEF StackSound
  <2>2. Len(stack) \in 1 .. Len(stack)
    BY <2>1
  <2> QED BY <2>1, <2>2, <1>1 DEF StackSound, FrameSound, Top, Depth
<1>3. sig_flag \in [Sig -> BOOLEAN] /\ (Released(stack, sig_flag) => \A s \in Sig : sig_flag[s])
  <2>1. \A i \in 1 .. Len(stack), s \in Sig : ~Handles(stack[i], s)
    BY <1>1, <1>2 DEF Handles, Top, Depth
  <2> QED BY <2>1 DEF StackSound, Released
<1>4. CASE stack' = <<>>
  BY <1>1, <1>3, <1>4, NoFrames, NoHandlers DEF Kept, Released
<1>5. CASE stack' = <<Clearing("restart", Top.enabled), Async>>
  <2> DEFINE a == Clearing("restart", Top.enabled)
  <2>1. \A i : FrameSound(Async, i) /\ Async.fn # "handler"
    BY DEF FrameSound, Async
  <2>2. FrameSound(a, 1) /\ a.fn # "handler"
    BY DEF FrameSound, Clearing
  <2> HIDE DEF a
  <2>3. IsSequence(stack') /\ Len(stack') = 2 /\ stack'[1] = a /\ stack'[2] = Async
    BY <1>5, TwoOnly DEF a
  <2>4. \A i \in 1 .. Len(stack') : FrameSound(stack'[i], i) /\ stack'[i].fn # "handler"
    BY <2>1, <2>2, <2>3
  <2> QED BY <1>1, <1>3, <2>3, <2>4, NoHandlers DEF Kept, Released
<1> QED BY <1>4, <1>5 DEF ClearAndReset, ClearAndRestart

(* The clearing of the queue by a mishap keeps it. *)
LEMMA MishapKept ==
    ASSUME StackSound(stack, sig_flag), ClearInMishap
    PROVE  Kept
<1>1. /\ stack # <<>> /\ Top.fn = "Clear_ast_queue" /\ Top.then = "mishap" /\ IsSequence(stack)
      /\ UNCHANGED sig_flag /\ stack' = Append(Popped, Mishap)
  BY DEF ClearInMishap, ClearEntries, In, StackSound
<1>2. Neutral(stack[Len(stack)])
  <2>1. Len(stack) \in Nat \ {0}
    BY <1>1, SequenceFront
  <2>2. Len(stack) \in 1 .. Len(stack)
    BY <2>1
  <2> QED BY <2>2, <1>1 DEF StackSound, FrameSound, Neutral, Top, Depth
<1>3. Alike(Popped, stack)
  BY <1>1, <1>2, FrontWithin DEF Popped
<1>4. Alike(Append(Popped, Mishap), Popped)
  BY <1>3, AppendAlike DEF Alike, Within, Mishap, Neutral
<1>5. Alike(stack', stack)
  BY <1>1, <1>3, <1>4, AlikeTrans
<1> QED BY <1>1, <1>5, QuietKept

-----------------------------------------------------------------------------
(* Every step but the setting of a signal's flag. *)
LEMMA NextKept ==
    ASSUME StackSound(stack, sig_flag), [Next]_vars
    PROVE  Kept \/ \E s \in Sig, v \in BOOLEAN : SetSigFlag(s, v)
<1>1. CASE Dispatching
  <2>1. CASE CheckPoint
    BY <2>1, CheckPointKept
  <2>2. CASE TakeAst \/ TakeCheck \/ RingEmpty \/ ThenQueue
    BY <2>2, AsyncKept
  <2>3. CASE Enter
    BY <2>3, EnterKept
  <2>4. CASE AstpReturns \/ SigReturns
    BY <2>4, ReturnKept
  <2>5. CASE ScanEnds \/ ScanSkips \/ ScanRuns
    BY <2>5, ScanKept
  <2>6. CASE RaiseSyncEnds \/ AddAst \/ MishapEnds \/ CallbackReturns
    BY <2>6, EndsKept
  <2>7. CASE ClearInMishap
    BY <2>7, MishapKept
  <2>8. CASE ClearAndUnwind
    BY <2>8, LeaveKept
  <2>9. CASE ClearAndReset \/ ClearAndRestart
    BY <2>9, ResetKept
  <2> QED BY <1>1, <2>1, <2>2, <2>3, <2>4, <2>5, <2>6, <2>7, <2>8, <2>9 DEF Dispatching
<1>2. CASE UserSteps
  <2>1. CASE ExitHandler
    BY <2>1, LeaveKept
  <2>2. CASE \E s \in Sig, v \in BOOLEAN : SetSigFlag(s, v)
    BY <2>2
  <2>3. CASE \/ \E x \in Item : RaiseSync(x)
             \/ \E v \in BOOLEAN : SetAstsEnabled(v)
             \/ ClearQueue \/ CallExtern \/ RaiseMishap \/ Setpop
    BY <2>3, UserKept
  <2> QED BY <1>2, <2>1, <2>2, <2>3 DEF UserSteps
<1>3. CASE \E x \in Item : Event(x)
  BY <1>3, UserKept
<1>4. CASE UNCHANGED vars
  BY <1>4, SameAlike, QuietKept DEF vars, switches
<1> QED BY <1>1, <1>2, <1>3, <1>4 DEF Next

(* The invariant holds at the start. *)
LEMMA InitStack == Init => StackSound(stack, sig_flag) /\ Released(stack, sig_flag)
<1> SUFFICES ASSUME Init
             PROVE  StackSound(stack, sig_flag) /\ Released(stack, sig_flag)
  OBVIOUS
<1>1. stack = <<>> /\ sig_flag \in [Sig -> BOOLEAN] /\ \A s \in Sig : sig_flag[s]
  BY DEF Init
<1> QED BY <1>1, NoFrames, NoHandlers DEF Released

(* The invariant says that no handler is inside itself. *)
LEMMA StackSoundNoReentry ==
    ASSUME StackSound(stack, sig_flag)
    PROVE  NoReentry
<1>1. DOMAIN stack = 1 .. Len(stack)
  BY DEF StackSound, IsSequence
<1> QED BY <1>1 DEF StackSound, Separate, NoReentry

(* An ast procedure that blocks recursion, and the handler of a signal, is *)
(* never started inside itself, at whatever depth of dispatching: the      *)
(* masking of Raise_sig and the list of active astps are enough, for every *)
(* program whose handlers do not enable signals themselves                 *)
(* (AstQueueLptr.cfg shows why).                                         *)
THEOREM NeverReentered == HandlersEnableNone => (Spec => []NoReentry)
<1> SUFFICES ASSUME HandlersEnableNone
             PROVE  Spec => []NoReentry
  OBVIOUS
<1>1. StackSound(stack, sig_flag) /\ [Next]_vars => StackSound(stack, sig_flag)'
  BY NextKept, SetSigFlagKept DEF Kept
<1> QED BY <1>1, InitStack, StackSoundNoReentry, PTL DEF Spec

(* However handlers are left, by return, by a non-local exit or by setpop, *)
(* a signal is disabled exactly while its handler is active, for every     *)
(* program that does not set the flags itself.                             *)
THEOREM NeverMaskedForGood == FlagsLeftAlone => (Spec => []MaskedWhileHandled)
<1> SUFFICES ASSUME FlagsLeftAlone
             PROVE  Spec => []MaskedWhileHandled
  OBVIOUS
<1> DEFINE I == StackSound(stack, sig_flag) /\ Released(stack, sig_flag)
<1>1. I /\ [Next]_vars => I'
  <2> SUFFICES ASSUME I, [Next]_vars
               PROVE  I'
    OBVIOUS
  <2>1. \A s \in Sig, v \in BOOLEAN : ~SetSigFlag(s, v)
    BY DEF SetSigFlag, Does, FlagsLeftAlone
  <2> QED BY <2>1, NextKept DEF Kept
<1>2. I => MaskedWhileHandled
  <2> SUFFICES ASSUME I, NEW s \in Sig
               PROVE  sig_flag[s] = (s \notin Executing)
    BY DEF MaskedWhileHandled
  <2>1. s \in Executing <=> \E i \in 1 .. Len(stack) : Handles(stack[i], s)
    BY DEF Executing, Handles, Depth
  <2>2. sig_flag[s] \in BOOLEAN
    BY DEF StackSound
  <2> QED BY <2>1, <2>2 DEF StackSound, HandledMasked, Released
<1> QED BY <1>1, <1>2, InitStack, PTL DEF Spec

-----------------------------------------------------------------------------
(* What the dispatch is proved sound for: the pairs that it allocates cause *)
(* no collection in its midst (`AstQueueGC.cfg`); handlers do not enable    *)
(* signals (`AstQueueLptr.cfg`), catch no mishaps and are left by returning *)
(* or by setpop; and no program switches asts off (`AstQueueOrder.cfg`) or  *)
(* clears their queue.                                                      *)
Tame ==
    /\ ~GcInDispatch
    /\ {"enable", "asts", "clear", "exit", "mishap"} \cap HandlerOps = {}
    /\ {"asts", "clear"} \cap MainOps = {}

IsScan(a) == a.fn = "Do_ast_queue"
IsClear(a) == a.fn = "Clear_ast_queue"

(* An activation that is running the handler of x, or about to. *)
Runs(a, x) == a.fn \in {"handler", "Raise_astp"} /\ a.entry.item = x

(* x is blocked for as long as the activation at k lasts, by what is below  *)
(* it on the stack, or by a flag that nothing above it will set.            *)
Below(x, k, st, flags) ==
    /\ x \notin Never
    /\ \A j \in k + 1 .. Len(st) : ~Runs(st[j], x)
    /\ IF x \in Sig THEN ~flags[x]
       ELSE \/ x \in External /\ \E j \in 1 .. k - 1 : st[j] = Callback
            \/ x \in Recursive /\ \E j \in 1 .. k - 1 : Handles(st[j], x)

(* x is blocked, and what unblocks it will have the queue looked at.        *)
Accounted(x) ==
    IF x \in Sig THEN ~sig_flag[x]
    ELSE \/ x \in External /\ "QC_CALLBACK" \in queue_flags /\ InCallback
         \/ x \in Recursive /\ "QC_RECURSIVE" \in queue_flags /\ x \in Executing
         \/ x \in External /\ \E i \in 1 .. Len(ring) : ring[i] = QueueCheck

(* The scan at k has passed the first entries of the queue, which stay for  *)
(* as long as it lasts.                                                     *)
ScanAt(k) ==
    \E l \in 1 .. Len(queue) :
        /\ queue[l].id = stack[k].lptr
        /\ \A i \in 1 .. l : Below(queue[i].item, k, stack, sig_flag)

(* The pair that a scan goes on from is on the queue, and what it has       *)
(* passed is still blocked from below it.                                   *)
ScansSound == \A k \in 1 .. Len(stack) : IsScan(stack[k]) /\ stack[k].lptr # 0 => ScanAt(k)

(* Each ast is on the queue once, none that never waits is, and the end of  *)
(* the queue is its last pair.                                              *)
QueueSound ==
    /\ \A i, j \in 1 .. Len(queue) : queue[i].id = queue[j].id => i = j
    /\ \A i \in 1 .. Len(queue) : queue[i].id <= seen /\ queue[i].item \notin Never
    /\ queue_end = IF Len(queue) = 0 THEN 0 ELSE queue[Len(queue)].id

(* Asts are off exactly while the queue is being cleared, and no scan       *)
(* begins meanwhile.                                                        *)
ClearsSound ==
    /\ \A i \in 1 .. Len(stack) : IsClear(stack[i]) =>
          /\ ~asts_enabled
          /\ stack[i].then # "unwind" => i = 1
          /\ \A j \in i + 1 .. Len(stack) : ~IsScan(stack[j])
          /\ stack[i].enabled \/ \E j \in 1 .. i - 1 : IsClear(stack[j])
    /\ asts_enabled \/ \E i \in 1 .. Len(stack) : IsClear(stack[i])

(* _ignore_ast_queue keeps the queue from being looked at.                  *)
Watched == ignore /\ asts_enabled

(* Add links a pair of its own, for an ast that may wait and is blocked if  *)
(* the queue is being ignored.                                              *)
AddsSound ==
    \A i \in 1 .. Len(stack) : stack[i].fn = "Add" =>
        /\ i = Len(stack)
        /\ stack[i].entry.id <= seen
        /\ \A j \in 1 .. Len(queue) : queue[j].id # stack[i].entry.id
        /\ stack[i].entry.item \notin Never
        /\ Watched => Accounted(stack[i].entry.item)

(* An ignored queue holds only what is blocked, or will be looked at after  *)
(* the external call that has set QC_CALLBACK.                              *)
IgnoreAccounted == Watched => \A i \in 1 .. Len(queue) : Accounted(queue[i].item)

(* Async_raise_signal is about to scan the queue. *)
ScanDue == ~ignore /\ stack # <<>> /\ Top = [fn |-> "Async_raise_signal", pc |-> "handled"]

Innermost(k) == IsScan(stack[k]) /\ \A j \in k + 1 .. Len(stack) : ~IsScan(stack[j])

(* A scan that finds nothing may set _ignore_ast_queue: all that the        *)
(* innermost one has passed is accounted for.                               *)
Looked ==
    asts_enabled =>
       \/ ScanDue
       \/ \A k \in 1 .. Len(stack), l \in 1 .. Len(queue) :
             Innermost(k) /\ queue[l].id = stack[k].lptr
                => \A i \in 1 .. l : Accounted(queue[i].item)

(* What an activation may still put in the ring: AST_QUEUE_CHECK, once when *)
(* an external call or a mishap ends, three times when setpop unwinds.      *)
FrameWeight ==
    [a \in Activation |->
        IF a.fn = "callback" THEN 1
        ELSE IF a.fn # "Clear_ast_queue" THEN 0
        ELSE IF a.then = "unwind" THEN 3 ELSE IF a.then = "reset" THEN 2 ELSE 1]

(* The asts that Pop has not dealt with, of those in the ring.              *)
AstWeight == [x \in Item \cup {QueueCheck} |-> IF x = QueueCheck THEN 0 ELSE 1]

(* The ring has room, and an ast there has been for each that Pop numbers.  *)
CountSound ==
    \E asts, frames :
        /\ Total(AstWeight, ring, asts) /\ seen + asts <= raised
        /\ Total(FrameWeight, stack, frames)
        /\ Len(ring) + seen + frames <= raised + 3 * ops

(* st2 is st, cut down to n activations, with those in F on top, which      *)
(* weigh d more than what was cut off.                                      *)
Moved(st2, n, st, F, d) ==
    /\ st2 \in Seq(Activation) /\ n \in 0 .. Len(st) /\ n <= Len(st2)
    /\ \A i \in 1 .. n : st2[i] = st[i]
    /\ \A i \in n + 1 .. Len(st2) : st2[i] \in F
    /\ \A t : Total(FrameWeight, st, t) => Total(FrameWeight, st2, t + d)

(* What there is in an activation of each procedure.                        *)
LEMMA FrameFields ==
    ASSUME NEW a \in Activation
    PROVE  /\ a.fn \in {"Add", "Raise_astp", "handler"} =>
                 a.entry \in Entry /\ a = [fn |-> a.fn, entry |-> a.entry]
           /\ a.fn = "Do_ast_queue" =>
                 /\ a.lptr \in 0 .. MaxRaise /\ a.pc \in {"check", "checked"}
                 /\ a.async \in BOOLEAN
                 /\ a = [fn |-> a.fn, pc |-> a.pc, async |-> a.async, lptr |-> a.lptr]
           /\ a.fn \in {"sys_raise_ast", "mishap"} =>
                 a.pc \in {"check", "checked"} /\ a = [fn |-> a.fn, pc |-> a.pc]
           /\ a.fn = "Async_raise_signal" =>
                 a.pc \in {"loop", "handled"} /\ a = [fn |-> a.fn, pc |-> a.pc]
           /\ a.fn = "Clear_ast_queue" =>
                 /\ a.then \in {"mishap", "unwind", "reset", "restart"}
                 /\ a.enabled \in BOOLEAN
           /\ a.fn = "callback" => a = Callback
  BY DEF Activation, Callback

(* Each activation that the dispatch pushes is one, with its weight.        *)
LEMMA FrameKinds ==
    /\ \A pc \in {"loop", "handled"} : [fn |-> "Async_raise_signal", pc |-> pc] \in Activation
    /\ \A f \in {"sys_raise_ast", "mishap"}, pc \in {"check", "checked"} :
          [fn |-> f, pc |-> pc] \in Activation
    /\ \A a \in BOOLEAN, pc \in {"check", "checked"}, l \in 0 .. MaxRaise :
          [fn |-> "Do_ast_queue", pc |-> pc, async |-> a, lptr |-> l] \in Activation
    /\ Callback \in Activation
    /\ \A e \in Entry : Adding(e) \in Activation /\ Entering(e) \in Activation /\ Handler(e) \in Activation
    /\ \A then \in {"mishap", "unwind", "reset", "restart"}, en \in BOOLEAN :
          Clearing(then, en) \in Activation
<1>1. \A a \in BOOLEAN, pc \in {"check", "checked"}, l \in 0 .. MaxRaise :
          [fn |-> "Do_ast_queue", pc |-> pc, async |-> a, lptr |-> l] \in Activation
  BY DEF Activation
<1>2. \A e \in Entry : Adding(e) \in Activation /\ Entering(e) \in Activation /\ Handler(e) \in Activation
  BY DEF Activation, Adding, Entering, Handler
<1>3. \A then \in {"mishap", "unwind", "reset", "restart"}, en \in BOOLEAN :
          Clearing(then, en) \in Activation
  BY DEF Activation, Clearing
<1>4. Callback \in Activation
  BY DEF Activation, Callback
<1>5. \A pc \in {"loop", "handled"} : [fn |-> "Async_raise_signal", pc |-> pc] \in Activation
  BY DEF Activation
<1>6. \A f \in {"sys_raise_ast", "mishap"}, pc \in {"check", "checked"} :
          [fn |-> f, pc |-> pc] \in Activation
  BY DEF Activation
<1> QED BY <1>1, <1>2, <1>3, <1>4, <1>5, <1>6

(* Weights are natural numbers, ...                                         *)
LEMMA FrameWeights ==
    /\ FrameWeight \in [Activation -> Nat]
    /\ \A a \in Activation :
          /\ a.fn \notin {"callback", "Clear_ast_queue"} => FrameWeight[a] = 0
          /\ a.fn = "callback" => FrameWeight[a] = 1
          /\ a.fn = "Clear_ast_queue" =>
                FrameWeight[a] = IF a.then = "unwind" THEN 3 ELSE IF a.then = "reset" THEN 2 ELSE 1
  BY DEF FrameWeight

(* Only real asts count.                                                    *)
LEMMA AstWeights ==
    /\ AstWeight \in [Item \cup {QueueCheck} -> Nat]
    /\ AstWeight[QueueCheck] = 0
    /\ \A x \in Item : AstWeight[x] = 1
<1>1. \A x \in Item : x # QueueCheck
  BY AstQueueAssumption DEF Item
<1> QED BY <1>1 DEF AstWeight

-----------------------------------------------------------------------------
(* The ways in which a stack moves. *)

(* A stack that stays, ...                                                  *)
LEMMA MovedNot ==
    ASSUME NEW st \in Seq(Activation)
    PROVE  Moved(st, Len(st), st, {}, 0)
<1>1. Len(st) \in Nat
  BY LenProperties
<1>2. \A t : Total(FrameWeight, st, t) => Total(FrameWeight, st, t + 0)
  <2>1. ASSUME NEW t, Total(FrameWeight, st, t) PROVE t + 0 = t
    BY <2>1, TotalNat, FrameWeights
  <2> QED BY <2>1
<1>3. \A i \in Len(st) + 1 .. Len(st) : FALSE
  BY <1>1
<1> QED BY <1>1, <1>2, <1>3 DEF Moved

(* ... that gets one more activation, ...                                   *)
LEMMA MovedPush ==
    ASSUME NEW st \in Seq(Activation), NEW st1 \in Seq(Activation), NEW n, NEW F, NEW d \in Int,
           Moved(st1, n, st, F, d), NEW a \in Activation
    PROVE  /\ Moved(Append(st1, a), n, st, F \cup {a}, d + FrameWeight[a])
           /\ Append(st1, a) \in Seq(Activation)
           /\ Len(Append(st1, a)) = Len(st1) + 1 /\ Append(st1, a)[Len(st1) + 1] = a
           /\ \A i \in 1 .. Len(st1) : Append(st1, a)[i] = st1[i]
<1> DEFINE u == Append(st1, a)
<1>1. /\ u \in Seq(Activation) /\ Len(st1) \in Nat /\ Len(u) = Len(st1) + 1
      /\ u[Len(st1) + 1] = a /\ \A i \in 1 .. Len(st1) : u[i] = st1[i]
  BY AppendProperties, LenProperties
<1>2. \A t : Total(FrameWeight, st, t) => Total(FrameWeight, u, t + (d + FrameWeight[a]))
  <2> SUFFICES ASSUME NEW t, Total(FrameWeight, st, t)
               PROVE  Total(FrameWeight, u, t + (d + FrameWeight[a]))
    OBVIOUS
  <2>1. Total(FrameWeight, u, (t + d) + FrameWeight[a])
    BY TotalAppend, FrameWeights DEF Moved
  <2>2. t \in Nat /\ FrameWeight[a] \in Nat
    BY TotalNat, FrameWeights
  <2>3. (t + d) + FrameWeight[a] = t + (d + FrameWeight[a])
    BY <2>2
  <2> QED BY <2>1, <2>3
<1> HIDE DEF u
<1>3. /\ n \in Nat /\ n <= Len(st1) /\ n \in 0 .. Len(st) /\ \A i \in 1 .. n : i \in 1 .. Len(st1)
      /\ \A i \in n + 1 .. Len(u) : (i \in n + 1 .. Len(st1) /\ i \in 1 .. Len(st1)) \/ i = Len(st1) + 1
  BY <1>1 DEF Moved
<1>4. \A i \in n + 1 .. Len(u) : u[i] \in F \cup {a}
  BY <1>1, <1>3 DEF Moved
<1>5. Moved(u, n, st, F \cup {a}, d + FrameWeight[a])
  BY <1>1, <1>2, <1>3, <1>4 DEF Moved
<1> QED BY <1>1, <1>5 DEF u

(* ... or loses its top, has moved.                                         *)
LEMMA MovedPop ==
    ASSUME NEW st \in Seq(Activation), st # <<>>
    PROVE  /\ Moved(Front(st), Len(st) - 1, st, {}, 0 - FrameWeight[st[Len(st)]])
           /\ Front(st) \in Seq(Activation) /\ Len(Front(st)) = Len(st) - 1
           /\ Len(st) \in Nat \ {0} /\ st[Len(st)] \in Activation
<1> DEFINE u == Front(st)
<1>1. /\ IsSequence(u) /\ Len(st) \in Nat \ {0} /\ Len(u) = Len(st) - 1
      /\ \A i \in 1 .. Len(st) - 1 : u[i] = st[i]
  BY SequenceFront DEF IsSequence
<1>2. u \in Seq(Activation)
  <2>1. \A i \in 1 .. Len(u) : u[i] \in Activation
    BY <1>1, ElementOfSeq
  <2> HIDE DEF u
  <2>2. u = [i \in 1 .. Len(u) |-> u[i]]
    BY <1>1 DEF IsSequence
  <2> QED BY <1>1, <2>1, <2>2
<1>3. st[Len(st)] \in Activation
  BY <1>1, ElementOfSeq
<1>4. \A t : Total(FrameWeight, st, t) => Total(FrameWeight, u, t + (0 - FrameWeight[st[Len(st)]]))
  <2> SUFFICES ASSUME NEW t, Total(FrameWeight, st, t)
               PROVE  Total(FrameWeight, u, t + (0 - FrameWeight[st[Len(st)]]))
    OBVIOUS
  <2>1. Total(FrameWeight, u, t - FrameWeight[st[Len(st)]])
    BY TotalFront, FrameWeights
  <2>2. t \in Nat /\ FrameWeight[st[Len(st)]] \in Nat
    BY <1>3, TotalNat, FrameWeights
  <2>3. t - FrameWeight[st[Len(st)]] = t + (0 - FrameWeight[st[Len(st)]])
    BY <2>2
  <2> QED BY <2>1, <2>3
<1> HIDE DEF u
<1>5. \A i \in (Len(st) - 1) + 1 .. Len(u) : FALSE
  BY <1>1
<1> QED BY <1>1, <1>2, <1>3, <1>4, <1>5 DEF Moved, u

(* A stack with another activation in place of the top.                     *)
LEMMA TopReplaced ==
    ASSUME NEW st \in Seq(Activation), st # <<>>, NEW a \in Activation
    PROVE  [st EXCEPT ![Len(st)] = a] = Append(Front(st), a)
<1> DEFINE u == [st EXCEPT ![Len(st)] = a]  v == Append(Front(st), a)
<1>1. /\ Front(st) \in Seq(Activation) /\ Len(Front(st)) = Len(st) - 1
      /\ Len(st) \in Nat \ {0} /\ \A i \in 1 .. Len(st) - 1 : Front(st)[i] = st[i]
  BY MovedPop DEF Moved
<1>2. /\ v \in Seq(Activation) /\ Len(v) = Len(st) /\ v[Len(st)] = a
      /\ \A i \in 1 .. Len(st) - 1 : v[i] = st[i]
  <2> DEFINE w == Front(st)
  <2>1. w \in Seq(Activation) /\ Len(w) = Len(st) - 1
    BY <1>1
  <2> HIDE DEF w
  <2>2. /\ Append(w, a) \in Seq(Activation) /\ Len(Append(w, a)) = Len(w) + 1
        /\ Append(w, a)[Len(w) + 1] = a /\ \A i \in 1 .. Len(w) : Append(w, a)[i] = w[i]
    BY <2>1, AppendProperties
  <2> QED BY <1>1, <2>1, <2>2 DEF w
<1>3. u \in Seq(Activation) /\ Len(u) = Len(st)
      /\ \A i \in 1 .. Len(st) : u[i] = IF i = Len(st) THEN a ELSE st[i]
  BY <1>1, ExceptSeq
<1> HIDE DEF u, v
<1>4. \A i \in 1 .. Len(u) : u[i] = v[i]
  BY <1>1, <1>2, <1>3
<1>5. u = v
  BY <1>2, <1>3, <1>4, SeqEqual
<1> QED BY <1>5 DEF u, v

-----------------------------------------------------------------------------
(* The top of the stack, and the stack without it.                          *)
LEMMA TopTyped ==
    ASSUME TypeOK, stack # <<>>
    PROVE  /\ stack \in Seq(Activation) /\ Depth \in Nat \ {0} /\ Depth = Len(stack)
           /\ Top \in Activation /\ Top = stack[Len(stack)]
           /\ Popped \in Seq(Activation) /\ Len(Popped) = Depth - 1
           /\ FrameWeight[Top] \in Nat
           /\ Moved(Popped, Depth - 1, stack, {}, 0 - FrameWeight[Top])
  BY MovedPop, FrameWeights DEF TypeOK, Depth, Top, Popped

(* Another activation in place of the top.                                  *)
LEMMA TopBecomes ==
    ASSUME TypeOK, stack # <<>>, NEW a \in Activation
    PROVE  /\ [stack EXCEPT ![Depth] = a] = Append(Popped, a)
           /\ Append(Popped, a) \in Seq(Activation)
           /\ Len(Append(Popped, a)) = Depth /\ Append(Popped, a)[Depth] = a
           /\ FrameWeight[a] \in Nat
           /\ Moved(Append(Popped, a), Depth - 1, stack, {a}, FrameWeight[a] - FrameWeight[Top])
<1>1. /\ stack \in Seq(Activation) /\ Depth \in Nat \ {0} /\ Depth = Len(stack)
      /\ Popped \in Seq(Activation) /\ Len(Popped) = Depth - 1
      /\ FrameWeight[Top] \in Nat
      /\ Moved(Popped, Depth - 1, stack, {}, 0 - FrameWeight[Top])
  BY TopTyped
<1>2. [stack EXCEPT ![Len(stack)] = a] = Append(Front(stack), a)
  BY <1>1, TopReplaced
<1>3. FrameWeight[a] \in Nat
  BY FrameWeights
<1> DEFINE d == 0 - FrameWeight[Top]
<1>4. d \in Int /\ d + FrameWeight[a] = FrameWeight[a] - FrameWeight[Top]
  BY <1>1, <1>3
<1>5. Moved(Popped, Depth - 1, stack, {}, d)
  BY <1>1
<1> HIDE DEF d
<1> DEFINE n == Depth - 1  F == {}
<1> HIDE DEF n, F
<1>6. /\ Moved(Append(Popped, a), n, stack, F \cup {a}, d + FrameWeight[a])
      /\ Append(Popped, a) \in Seq(Activation)
      /\ Len(Append(Popped, a)) = Len(Popped) + 1 /\ Append(Popped, a)[Len(Popped) + 1] = a
  <2>1. Moved(Popped, n, stack, F, d)
    BY <1>5 DEF n, F
  <2>2. stack \in Seq(Activation) /\ Popped \in Seq(Activation) /\ d \in Int
    BY <1>1, <1>4
  <2>3. Moved(Append(Popped, a), n, stack, F \cup {a}, d + FrameWeight[a])
    BY <2>1, <2>2, MovedPush
  <2>4. /\ Append(Popped, a) \in Seq(Activation)
        /\ Len(Append(Popped, a)) = Len(Popped) + 1 /\ Append(Popped, a)[Len(Popped) + 1] = a
    BY <2>2, AppendProperties
  <2> QED BY <2>3, <2>4
<1>7. F \cup {a} = {a} /\ (Depth - 1) + 1 = Depth
  BY <1>1 DEF F
<1> QED BY <1>1, <1>2, <1>3, <1>4, <1>6, <1>7 DEF Popped, Depth, n

(* The steps of the procedures that have more than one.                     *)
LEMMA AsyncGoto ==
    ASSUME TypeOK, In("Async_raise_signal"), NEW pc \in {"loop", "handled"}
    PROVE  /\ Goto(pc) = Append(Popped, [fn |-> "Async_raise_signal", pc |-> pc])
           /\ [fn |-> "Async_raise_signal", pc |-> pc] \in Activation
<1>1. Top \in Activation /\ Top.fn = "Async_raise_signal" /\ stack # <<>>
  BY TopTyped DEF In
<1>2. Top = [fn |-> "Async_raise_signal", pc |-> Top.pc]
  BY <1>1, FrameFields
<1> DEFINE a == [fn |-> "Async_raise_signal", pc |-> pc]
<1>3. [Top EXCEPT !.pc = pc] = a
  BY <1>2
<1>4. Goto(pc) = [stack EXCEPT ![Depth] = a]
  BY <1>3 DEF Goto, Top
<1>5. a \in Activation
  BY FrameKinds
<1> HIDE DEF a
<1> QED BY <1>1, <1>4, <1>5, TopBecomes DEF a

(* ... of a procedure that makes one check on its way, ...                  *)
LEMMA CheckGoto ==
    ASSUME TypeOK, NEW f \in {"sys_raise_ast", "mishap"}, In(f)
    PROVE  /\ "pc" \in DOMAIN Top
           /\ Goto("checked") = Append(Popped, [fn |-> f, pc |-> "checked"])
           /\ [fn |-> f, pc |-> "checked"] \in Activation
<1>1. Top \in Activation /\ Top.fn = f /\ stack # <<>>
  BY TopTyped DEF In
<1>2. Top = [fn |-> f, pc |-> Top.pc]
  BY <1>1, FrameFields
<1> DEFINE a == [fn |-> f, pc |-> "checked"]
<1>3. [Top EXCEPT !.pc = "checked"] = a /\ "pc" \in DOMAIN Top
  BY <1>2
<1>4. Goto("checked") = [stack EXCEPT ![Depth] = a]
  BY <1>3 DEF Goto, Top
<1>5. a \in Activation
  BY FrameKinds
<1> HIDE DEF a
<1> QED BY <1>1, <1>3, <1>4, <1>5, TopBecomes DEF a

(* ... and of a scan, which also notes its place.                           *)
LEMMA ScanGoto ==
    ASSUME TypeOK, In("Do_ast_queue")
    PROVE  /\ "pc" \in DOMAIN Top /\ Top.lptr \in 0 .. MaxRaise /\ Top.async \in BOOLEAN
           /\ LET a == [fn |-> "Do_ast_queue", pc |-> "checked", async |-> Top.async, lptr |-> Top.lptr]
              IN  Goto("checked") = Append(Popped, a) /\ a \in Activation
           /\ \A l \in 0 .. MaxRaise :
                LET a == [fn |-> "Do_ast_queue", pc |-> "check", async |-> Top.async, lptr |-> l]
                IN  /\ [stack EXCEPT ![Depth].lptr = l, ![Depth].pc = "check"] = Append(Popped, a)
                    /\ a \in Activation
<1>1. /\ Top \in Activation /\ Top.fn = "Do_ast_queue" /\ stack # <<>> /\ Depth \in Nat \ {0}
      /\ stack \in Seq(Activation) /\ Depth = Len(stack) /\ Top = stack[Depth]
  BY TopTyped DEF In
<1>2. /\ Top = [fn |-> "Do_ast_queue", pc |-> Top.pc, async |-> Top.async, lptr |-> Top.lptr]
      /\ Top.lptr \in 0 .. MaxRaise /\ Top.async \in BOOLEAN
  BY <1>1, FrameFields
<1> DEFINE a == [fn |-> "Do_ast_queue", pc |-> "checked", async |-> Top.async, lptr |-> Top.lptr]
<1>3. [Top EXCEPT !.pc = "checked"] = a /\ "pc" \in DOMAIN Top
  BY <1>2
<1>4. Goto("checked") = [stack EXCEPT ![Depth] = a]
  BY <1>3 DEF Goto, Top
<1>5. a \in Activation
  BY <1>2, FrameKinds
<1>6. Goto("checked") = Append(Popped, a) /\ a \in Activation
  <2> HIDE DEF a
  <2> QED BY <1>1, <1>4, <1>5, TopBecomes
<1>7. ASSUME NEW l \in 0 .. MaxRaise
      PROVE  LET b == [fn |-> "Do_ast_queue", pc |-> "check", async |-> Top.async, lptr |-> l]
             IN  /\ [stack EXCEPT ![Depth].lptr = l, ![Depth].pc = "check"] = Append(Popped, b)
                 /\ b \in Activation
  <2> DEFINE b == [fn |-> "Do_ast_queue", pc |-> "check", async |-> Top.async, lptr |-> l]
             c == [Top EXCEPT !.lptr = l, !.pc = "check"]
  <2>1. c = b
    <3> DEFINE e == [Top EXCEPT !.lptr = l]
    <3>1. e = [fn |-> "Do_ast_queue", pc |-> Top.pc, async |-> Top.async, lptr |-> l]
      BY <1>2
    <3>2. c = [e EXCEPT !.pc = "check"]
      BY <1>2
    <3> HIDE DEF e
    <3>3. [e EXCEPT !.pc = "check"] = b
      BY <3>1
    <3> HIDE DEF b, c
    <3> QED BY <3>2, <3>3
  <2>2. b \in Activation
    BY <1>2, FrameKinds
  <2>3. Depth \in DOMAIN stack
    BY <1>1
  <2>4. [stack EXCEPT ![Depth].lptr = l, ![Depth].pc = "check"] = [stack EXCEPT ![Depth] = c]
    BY <2>3 DEF Top
  <2> HIDE DEF b, c
  <2>5. [stack EXCEPT ![Depth].lptr = l, ![Depth].pc = "check"] = Append(Popped, b)
    BY <1>1, <2>1, <2>2, <2>4, TopBecomes
  <2> QED BY <2>2, <2>5 DEF b
<1> HIDE DEF a
<1> QED BY <1>2, <1>3, <1>6, <1>7 DEF a

-----------------------------------------------------------------------------
(* The counts. *)

(* The bound on what there is to come leaves the ring room for an ast that  *)
(* arrives, or that something on the stack may still send.                  *)
LEMMA RingHasRoom ==
    ASSUME TypeOK, CountSound,
           raised < MaxRaise \/ (stack # <<>> /\ FrameWeight[Top] >= 1),
           NEW a, Ring!Arrive(a)
    PROVE  ring' = Append(ring, a)
<1>1. PICK asts, frames :
         /\ Total(AstWeight, ring, asts) /\ seen + asts <= raised
         /\ Total(FrameWeight, stack, frames)
         /\ Len(ring) + seen + frames <= raised + 3 * ops
  BY DEF CountSound
<1>2. frames \in Nat
  BY <1>1, TotalNat, FrameWeights DEF TypeOK
<1>3. stack # <<>> => frames - FrameWeight[Top] \in Nat /\ FrameWeight[Top] \in Nat
  <2> SUFFICES ASSUME stack # <<>>
               PROVE  frames - FrameWeight[Top] \in Nat /\ FrameWeight[Top] \in Nat
    OBVIOUS
  <2>1. stack \in Seq(Activation) /\ Popped \in Seq(Activation) /\ FrameWeight[Top] \in Nat
    BY TopTyped
  <2>2. Total(FrameWeight, Popped, frames - FrameWeight[Top])
    BY <1>1, <2>1, TotalFront, FrameWeights DEF Top, Depth, Popped
  <2> QED BY <2>1, <2>2, TotalNat, FrameWeights
<1>4. Len(ring) \in Nat /\ seen \in Nat /\ raised \in Nat /\ raised <= MaxRaise /\ ops \in Nat /\ ops <= MaxOp
      /\ MaxRaise \in Nat /\ MaxOp \in Nat
  BY AstQueueAssumption, LenProperties DEF TypeOK
<1>5. Len(ring) < MaxRaise + 3 * MaxOp
  BY <1>1, <1>2, <1>3, <1>4
<1>6. ring' = Append(IF Len(ring) = MaxRaise + 3 * MaxOp THEN Tail(ring) ELSE ring, a)
  BY DEF Ring!Arrive
<1> QED BY <1>4, <1>5, <1>6

(* How the counts may change while the stack gets d heavier.                *)
Counted(d) ==
    \/ /\ UNCHANGED <<ring, seen, raised>>
       /\ \/ ops' = ops /\ d <= 0
          \/ ops' = ops + 1 /\ d <= 3
    \/ UNCHANGED <<ring, ops>> /\ seen' = seen + 1 /\ raised' = raised + 1 /\ d <= 0
    \/ /\ \E x \in Item : ring' = Append(ring, x)
       /\ raised' = raised + 1 /\ UNCHANGED <<seen, ops>> /\ d <= 0
    \/ ring' = Append(ring, QueueCheck) /\ UNCHANGED <<seen, raised, ops>> /\ d <= -1
    \/ /\ ring # <<>> /\ ring' = Tail(ring)
       /\ seen' = seen + AstWeight[Head(ring)] /\ UNCHANGED <<raised, ops>> /\ d <= 0

(* A step that counts so keeps room in the ring.                            *)
LEMMA CountKept ==
    ASSUME TypeOK, CountSound, NEW n, NEW F, NEW d \in Int,
           Moved(stack', n, stack, F, d), Counted(d)
    PROVE  CountSound' /\ ring' \in Seq(Item \cup {QueueCheck}) /\ seen' \in 0 .. raised'
<1> DEFINE A == Item \cup {QueueCheck}
<1>1. PICK asts, frames :
         /\ Total(AstWeight, ring, asts) /\ seen + asts <= raised
         /\ Total(FrameWeight, stack, frames)
         /\ Len(ring) + seen + frames <= raised + 3 * ops
  BY DEF CountSound
<1>2. Total(FrameWeight, stack', frames + d)
  BY <1>1 DEF Moved
<1>3. ring \in Seq(A) /\ AstWeight \in [A -> Nat] /\ Len(ring) \in Nat
  BY AstWeights, LenProperties DEF TypeOK
<1> HIDE DEF A
<1>4. asts \in Nat /\ frames \in Nat
  BY <1>1, <1>3, TotalNat, FrameWeights DEF TypeOK
<1>5. seen \in Nat /\ raised \in Nat /\ ops \in Nat
  BY DEF TypeOK
<1>6. ASSUME NEW dr \in Int, NEW da \in Int, NEW ds \in Nat, NEW dn \in Nat, NEW do \in Nat,
             ring' \in Seq(A), Len(ring') = Len(ring) + dr,
             Total(AstWeight, ring', asts + da),
             seen' = seen + ds, raised' = raised + dn, ops' = ops + do,
             ds + da <= dn, dr + ds + d <= dn + 3 * do
      PROVE  CountSound' /\ ring' \in Seq(Item \cup {QueueCheck}) /\ seen' \in 0 .. raised'
  <2>1. asts + da \in Nat
    BY <1>3, <1>6, TotalNat
  <2>2. seen' + (asts + da) <= raised'
    <3>1. \A s, r \in Nat : s + asts <= r => (s + ds) + (asts + da) <= r + dn
      BY <1>4, <1>6
    <3> QED BY <3>1, <1>1, <1>5, <1>6
  <2>3. Len(ring') + seen' + (frames + d) <= raised' + 3 * ops'
    <3>1. \A l, s, r, o \in Nat :
             l + s + frames <= r + 3 * o
                => (l + dr) + (s + ds) + (frames + d) <= (r + dn) + 3 * (o + do)
      BY <1>4, <1>6
    <3> QED BY <3>1, <1>1, <1>3, <1>5, <1>6
  <2>4. CountSound'
    BY <1>2, <1>6, <2>2, <2>3 DEF CountSound
  <2>5. seen' \in Nat /\ raised' \in Nat /\ seen' <= raised'
    <3>1. \A s, r, x \in Nat : s + x <= r => s <= r
      OBVIOUS
    <3> QED BY <3>1, <1>5, <1>6, <2>1, <2>2
  <2> QED BY <1>6, <2>4, <2>5 DEF A
<1> DEFINE z == 0
<1>z. z = 0 /\ z \in Int /\ z \in Nat /\ \A m \in Int : m + z = m
  OBVIOUS
<1> HIDE DEF z
<1>7. CASE UNCHANGED <<ring, seen, raised>> /\ ((ops' = ops /\ d <= 0) \/ (ops' = ops + 1 /\ d <= 3))
  <2>1. ring' \in Seq(A) /\ Len(ring') = Len(ring) + z /\ Total(AstWeight, ring', asts + z)
        /\ seen' = seen + z /\ raised' = raised + z /\ z + z <= z
    BY <1>1, <1>3, <1>4, <1>5, <1>7, <1>z
  <2>2. CASE ops' = ops /\ d <= 0
    <3>1. ops' = ops + z /\ z + z + d <= z + 3 * z
      BY <1>5, <2>2, <1>z
    <3> QED BY <2>1, <3>1, <1>6, <1>z
  <2>3. CASE ops' = ops + 1 /\ d <= 3
    <3>1. z + z + d <= z + 3 * 1
      BY <2>3, <1>z
    <3> QED BY <2>1, <2>3, <3>1, <1>6, <1>z
  <2> QED BY <1>7, <2>2, <2>3
<1>8. CASE UNCHANGED <<ring, ops>> /\ seen' = seen + 1 /\ raised' = raised + 1 /\ d <= 0
  <2>1. ring' \in Seq(A) /\ Len(ring') = Len(ring) + z /\ Total(AstWeight, ring', asts + z)
        /\ ops' = ops + z /\ 1 + z <= 1 /\ z + 1 + d <= 1 + 3 * z
    BY <1>1, <1>3, <1>4, <1>5, <1>8, <1>z
  <2> QED BY <1>8, <2>1, <1>6, <1>z
<1>9. ASSUME NEW x \in Item, ring' = Append(ring, x), raised' = raised + 1, UNCHANGED <<seen, ops>>, d <= 0
      PROVE  CountSound' /\ ring' \in Seq(Item \cup {QueueCheck}) /\ seen' \in 0 .. raised'
  <2>1. x \in A /\ AstWeight[x] = 1
    BY AstWeights DEF A
  <2>2. ring' \in Seq(A) /\ Len(ring') = Len(ring) + 1 /\ Total(AstWeight, ring', asts + 1)
    BY <1>1, <1>3, <1>9, <2>1, AppendProperties, TotalAppend
  <2>3. seen' = seen + z /\ ops' = ops + z /\ z + 1 <= 1 /\ 1 + z + d <= 1 + 3 * z
    BY <1>5, <1>9, <1>z
  <2>4. raised' = raised + 1
    BY <1>9
  <2>5. CountSound' /\ ring' \in Seq(A) /\ seen' \in 0 .. raised'
    BY <1>6, <1>z, <2>2, <2>3, <2>4
  <2> QED BY <2>5 DEF A
<1>10. CASE ring' = Append(ring, QueueCheck) /\ UNCHANGED <<seen, raised, ops>> /\ d <= -1
  <2>1. QueueCheck \in A /\ AstWeight[QueueCheck] = 0
    BY AstWeights DEF A
  <2>2. ring' \in Seq(A) /\ Len(ring') = Len(ring) + 1 /\ Total(AstWeight, ring', asts + 0)
    BY <1>1, <1>3, <1>10, <2>1, AppendProperties, TotalAppend
  <2>3. seen' = seen + 0 /\ raised' = raised + 0 /\ ops' = ops + 0 /\ 0 + 0 <= 0 /\ 1 + 0 + d <= 0 + 3 * 0
    BY <1>5, <1>10
  <2> QED BY <2>2, <2>3, <1>6
<1>11. CASE /\ ring # <<>> /\ ring' = Tail(ring)
            /\ seen' = seen + AstWeight[Head(ring)] /\ UNCHANGED <<raised, ops>> /\ d <= 0
  <2>1. Head(ring) \in A /\ ring' \in Seq(A) /\ Len(ring') = Len(ring) + (-1)
    BY <1>3, <1>11, HeadTailProperties
  <2> DEFINE k == AstWeight[Head(ring)]
  <2>2. k \in {0, 1}
    BY <2>1, AstWeights DEF A
  <2>3. Total(AstWeight, ring', asts - k)
    BY <1>1, <1>3, <1>11, TotalTail
  <2>4. seen' = seen + k
    BY <1>11
  <2> HIDE DEF k
  <2>5. k \in Nat /\ 0 - k \in Int /\ -1 \in Int /\ asts - k = asts + (0 - k)
        /\ k + (0 - k) <= 0 /\ (-1) + k + d <= 0 + 3 * 0
    BY <1>4, <1>11, <2>2
  <2>6. raised' = raised + 0 /\ ops' = ops + 0
    BY <1>5, <1>11
  <2>7. Total(AstWeight, ring', asts + (0 - k))
    BY <2>3, <2>5
  <2> QED BY <2>1, <2>4, <2>5, <2>6, <2>7, <1>6
<1> QED BY <1>7, <1>8, <1>9, <1>10, <1>11 DEF Counted

-----------------------------------------------------------------------------
(* The entries of a queue.                                                  *)
LEMMA EntryFields ==
    ASSUME NEW q \in Seq(Entry)
    PROVE  /\ Len(q) \in Nat
           /\ \A i \in 1 .. Len(q) :
                 /\ q[i] \in Entry /\ q[i].item \in Item
                 /\ q[i].id \in Nat \ {0} /\ q[i].id # 0 /\ q[i].id <= MaxRaise
<1>1. Len(q) \in Nat /\ \A i \in 1 .. Len(q) : q[i] \in Entry
  BY LenProperties, ElementOfSeq
<1>2. \A e \in Entry : e.item \in Item /\ e.id \in Nat \ {0} /\ e.id # 0 /\ e.id <= MaxRaise
  BY AstQueueAssumption DEF Entry
<1> QED BY <1>1, <1>2

(* What blocks x below the activation at k stays when the stack above k     *)
(* changes, as long as no handler of x is put there.                        *)
LEMMA BelowKept ==
    ASSUME NEW st, NEW st2, NEW n, NEW F, NEW d, Moved(st2, n, st, F, d), Len(st) \in Nat,
           NEW fl, NEW fl2, NEW k \in 1 .. n, NEW x, Below(x, k, st, fl),
           x \in Sig => ~fl2[x], \A a \in F : ~Runs(a, x)
    PROVE  Below(x, k, st2, fl2)
<1>1. /\ n \in Nat /\ n <= Len(st) /\ st2 \in Seq(Activation)
      /\ \A i \in 1 .. n : st2[i] = st[i]
      /\ \A i \in n + 1 .. Len(st2) : st2[i] \in F
  BY DEF Moved
<1>2. Len(st2) \in Nat
  BY <1>1, LenProperties
<1>3. \A j \in 1 .. k - 1 : j \in 1 .. n
  BY <1>1
<1>4. \A j \in k + 1 .. Len(st2) : (j \in 1 .. n /\ j \in k + 1 .. Len(st)) \/ j \in n + 1 .. Len(st2)
  BY <1>1, <1>2
<1>5. \A j \in k + 1 .. Len(st2) : ~Runs(st2[j], x)
  BY <1>1, <1>4 DEF Below
<1>6. \A j \in 1 .. k - 1 : st2[j] = st[j]
  BY <1>1, <1>3
<1> QED BY <1>5, <1>6 DEF Below

(* What a step does not have to do for the scans below it to find the       *)
(* queue as they left it.                                                   *)
LEMMA ScansKept ==
    ASSUME TypeOK, ScansSound, NEW n, NEW F, NEW d, Moved(stack', n, stack, F, d),
           Len(queue') \in Nat,
           \A k \in 1 .. n, x \in Item :
              IsScan(stack[k]) /\ Below(x, k, stack, sig_flag)
                 => (x \in Sig => ~sig_flag'[x]) /\ \A a \in F : ~Runs(a, x),
           \A k \in 1 .. n, l \in 1 .. Len(queue) :
              IsScan(stack[k]) /\ (\A i \in 1 .. l : Below(queue[i].item, k, stack, sig_flag))
                 => l \in 1 .. Len(queue') /\ \A i \in 1 .. l : queue'[i] = queue[i],
           \A k \in n + 1 .. Len(stack') :
              IsScan(stack'[k]) /\ stack'[k].lptr # 0 => ScanAt(k)'
    PROVE  ScansSound'
<1> SUFFICES ASSUME NEW k \in 1 .. Len(stack'), IsScan(stack'[k]), stack'[k].lptr # 0
             PROVE  ScanAt(k)'
  BY DEF ScansSound
<1>1. /\ n \in Nat /\ n <= Len(stack) /\ stack' \in Seq(Activation)
      /\ \A i \in 1 .. n : stack'[i] = stack[i]
  BY DEF Moved
<1>2. Len(stack) \in Nat /\ Len(stack') \in Nat /\ Len(queue) \in Nat /\ queue \in Seq(Entry)
  BY <1>1, LenProperties DEF TypeOK
<1>3. CASE k \in n + 1 .. Len(stack')
  BY <1>3
<1>4. CASE k \in 1 .. n
  <2>1. k \in 1 .. Len(stack) /\ stack'[k] = stack[k]
    BY <1>1, <1>2, <1>4
  <2>2. PICK l \in 1 .. Len(queue) :
           /\ queue[l].id = stack[k].lptr
           /\ \A i \in 1 .. l : Below(queue[i].item, k, stack, sig_flag)
    BY <2>1 DEF ScansSound, ScanAt
  <2>3. l \in 1 .. Len(queue') /\ \A i \in 1 .. l : queue'[i] = queue[i]
    BY <1>4, <2>1, <2>2
  <2>4. l \in 1 .. l /\ \A i \in 1 .. l : i \in 1 .. Len(queue)
    BY <1>2
  <2>5. ASSUME NEW i \in 1 .. l
        PROVE  Below(queue'[i].item, k, stack', sig_flag')
    <3> DEFINE x == queue[i].item
    <3>1. x \in Item
      BY <1>2, <2>4, <2>5, EntryFields
    <3>2. Below(x, k, stack, sig_flag)
      BY <2>2
    <3> HIDE DEF x
    <3>3. (x \in Sig => ~sig_flag'[x]) /\ \A a \in F : ~Runs(a, x)
      BY <1>4, <2>1, <3>1, <3>2
    <3>4. Below(x, k, stack', sig_flag')
      BY <1>2, <1>4, <3>2, <3>3, BelowKept
    <3> QED BY <2>3, <3>4 DEF x
  <2>6. queue'[l].id = stack'[k].lptr
    BY <2>1, <2>2, <2>3, <2>4
  <2> QED BY <2>3, <2>5, <2>6 DEF ScanAt
<1> QED BY <1>1, <1>2, <1>3, <1>4

(* A stack that starts again holds no scan and no pair on its way.          *)
LEMMA Restarted ==
    ASSUME \A k \in 1 .. Len(stack') : stack'[k].fn \notin {"Do_ast_queue", "Add"}
    PROVE  ScansSound' /\ AddsSound' /\ Looked'
<1>1. ScansSound'
  BY DEF ScansSound, IsScan
<1>2. AddsSound'
  BY DEF AddsSound
<1>3. Looked'
  BY DEF Looked, Innermost, IsScan
<1> QED BY <1>1, <1>2, <1>3

(* The parts of a stack that has moved.                                     *)
LEMMA MovedParts ==
    ASSUME TypeOK, NEW n, NEW F, NEW d, Moved(stack', n, stack, F, d)
    PROVE  /\ n \in Nat /\ n <= Len(stack) /\ n <= Len(stack')
           /\ Len(stack') \in Nat /\ Len(stack) \in Nat /\ Len(queue) \in Nat
           /\ queue \in Seq(Entry) /\ stack \in Seq(Activation) /\ stack' \in Seq(Activation)
           /\ \A i \in 1 .. n : stack'[i] = stack[i] /\ i \in 1 .. Len(stack) /\ i \in 1 .. Len(stack')
           /\ \A i \in n + 1 .. Len(stack') : stack'[i] \in F
           /\ \A i \in 1 .. Len(stack) : i \in 1 .. n \/ i \in n + 1 .. Len(stack)
           /\ \A i \in 1 .. Len(stack') : i \in 1 .. n \/ i \in n + 1 .. Len(stack')
<1>1. queue \in Seq(Entry) /\ stack \in Seq(Activation) /\ stack' \in Seq(Activation)
  BY DEF Moved, TypeOK
<1>2. Len(stack') \in Nat /\ Len(stack) \in Nat /\ Len(queue) \in Nat
  BY <1>1, LenProperties
<1> QED BY <1>1, <1>2 DEF Moved

(* The calls of Clear_ast_queue stay as they are under a step that neither  *)
(* makes nor ends one.                                                      *)
LEMMA ClearsKept ==
    ASSUME TypeOK, ClearsSound, NEW n, NEW F, NEW d, Moved(stack', n, stack, F, d),
           \A i \in n + 1 .. Len(stack) : ~IsClear(stack[i]),
           \A a \in F : ~IsClear(a) /\ (IsScan(a) => asts_enabled),
           asts_enabled' = asts_enabled
    PROVE  ClearsSound'
<1>1. /\ n \in Nat /\ n <= Len(stack) /\ n <= Len(stack')
      /\ Len(stack') \in Nat /\ Len(stack) \in Nat
      /\ \A i \in 1 .. n : stack'[i] = stack[i] /\ i \in 1 .. Len(stack) /\ i \in 1 .. Len(stack')
      /\ \A i \in n + 1 .. Len(stack') : stack'[i] \in F
      /\ \A i \in 1 .. Len(stack) : i \in 1 .. n \/ i \in n + 1 .. Len(stack)
      /\ \A i \in 1 .. Len(stack') : i \in 1 .. n \/ i \in n + 1 .. Len(stack')
  BY MovedParts
<1>2. ASSUME NEW i \in 1 .. Len(stack'), IsClear(stack'[i])
      PROVE  /\ i \in 1 .. n /\ i \in 1 .. Len(stack) /\ stack'[i] = stack[i] /\ IsClear(stack[i])
             /\ ~asts_enabled
  <2>1. i \in 1 .. n
    BY <1>1, <1>2
  <2> QED BY <1>1, <1>2, <2>1 DEF ClearsSound
<1>3. ASSUME NEW i \in 1 .. Len(stack'), IsClear(stack'[i]),
             NEW j \in i + 1 .. Len(stack'), IsScan(stack'[j])
      PROVE  FALSE
  <2>1. i \in 1 .. n /\ IsClear(stack[i]) /\ ~asts_enabled
    BY <1>2, <1>3
  <2>2. j \in 1 .. n
    <3>1. j \in 1 .. n \/ j \in n + 1 .. Len(stack')
      BY <1>1
    <3> QED BY <1>1, <1>3, <2>1, <3>1
  <2>3. j \in i + 1 .. Len(stack) /\ IsScan(stack[j])
    BY <1>1, <1>3, <2>2
  <2> QED BY <1>1, <2>1, <2>3 DEF ClearsSound
<1>4. ASSUME NEW i \in 1 .. Len(stack'), IsClear(stack'[i])
      PROVE  /\ stack'[i].then # "unwind" => i = 1
             /\ stack'[i].enabled \/ \E j \in 1 .. i - 1 : IsClear(stack'[j])
  <2>1. i \in 1 .. n /\ IsClear(stack[i]) /\ stack'[i] = stack[i] /\ i \in 1 .. Len(stack)
    BY <1>2, <1>4
  <2>2. \A j \in 1 .. i - 1 : stack'[j] = stack[j]
    BY <1>1, <2>1
  <2> QED BY <2>1, <2>2 DEF ClearsSound
<1>5. asts_enabled' \/ \E i \in 1 .. Len(stack') : IsClear(stack'[i])
  <2> SUFFICES ASSUME ~asts_enabled
               PROVE  \E i \in 1 .. Len(stack') : IsClear(stack'[i])
    OBVIOUS
  <2>1. PICK i \in 1 .. Len(stack) : IsClear(stack[i])
    BY DEF ClearsSound
  <2> QED BY <1>1, <2>1
<1> QED BY <1>2, <1>3, <1>4, <1>5 DEF ClearsSound

(* The queue is sound while nobody changes it.                              *)
LEMMA QueueStays ==
    ASSUME TypeOK, QueueSound, UNCHANGED <<queue, queue_end>>, seen' \in Nat, seen <= seen'
    PROVE  QueueSound'
<1>1. \A i \in 1 .. Len(queue) : queue[i].id \in Nat
  BY EntryFields DEF TypeOK
<1>2. \A i \in 1 .. Len(queue) : queue[i].id <= seen'
  BY <1>1 DEF QueueSound, TypeOK
<1> QED BY <1>2 DEF QueueSound

-----------------------------------------------------------------------------
(* What accounts for a blocked ast stays, ...                               *)
FlagsMasked == \A s \in Sig : ~sig_flag[s] => ~sig_flag'[s]
NotesKept == queue_flags \subseteq queue_flags'
CheckStays == (\E i \in 1 .. Len(ring) : ring[i] = QueueCheck)
                  => \E i \in 1 .. Len(ring') : ring'[i] = QueueCheck

(* ... if no handler and no external call returns.                          *)
LEMMA ContextStays ==
    ASSUME TypeOK, NEW n, NEW F, NEW d, Moved(stack', n, stack, F, d),
           \A i \in n + 1 .. Len(stack) : stack[i].fn \notin {"handler", "callback"}
    PROVE  (InCallback => InCallback') /\ Executing \subseteq Executing'
<1>1. /\ \A i \in 1 .. n : stack'[i] = stack[i] /\ i \in 1 .. Len(stack')
      /\ \A i \in 1 .. Len(stack) : i \in 1 .. n \/ i \in n + 1 .. Len(stack)
  BY MovedParts
<1>2. InCallback => InCallback'
  BY <1>1 DEF InCallback, Callback, Depth
<1>3. ASSUME NEW x, x \in Executing
      PROVE  x \in Executing'
  <2>1. PICK i \in 1 .. Len(stack) : stack[i].fn = "handler" /\ stack[i].entry.item = x
    BY <1>3 DEF Executing, Depth
  <2>2. i \in 1 .. Len(stack') /\ stack'[i].fn = "handler" /\ stack'[i].entry.item = x
    BY <1>1, <2>1
  <2> QED BY <2>2 DEF Executing, Depth
<1> QED BY <1>2, <1>3

(* What accounts for a blocked ast lasts while its context does.            *)
LEMMA StaysAccounted ==
    ASSUME TypeOK, NEW n, NEW F, NEW d, Moved(stack', n, stack, F, d),
           \A i \in n + 1 .. Len(stack) : stack[i].fn \notin {"handler", "callback"},
           FlagsMasked, NotesKept, CheckStays
    PROVE  \A x \in Item : Accounted(x) => Accounted(x)'
<1>1. (InCallback => InCallback') /\ Executing \subseteq Executing'
  BY ContextStays
<1> QED BY <1>1 DEF Accounted, FlagsMasked, NotesKept, CheckStays

(* What is on the queue stays accounted for.                                *)
LEMMA IgnoreKept ==
    ASSUME TypeOK, IgnoreAccounted, queue' = queue, Watched' => Watched,
           \A x \in Item : Accounted(x) => Accounted(x)'
    PROVE  IgnoreAccounted'
<1>1. \A i \in 1 .. Len(queue) : queue[i].item \in Item
  BY EntryFields DEF TypeOK
<1> SUFFICES ASSUME Watched', NEW i \in 1 .. Len(queue)
             PROVE  Accounted(queue[i].item)'
  BY DEF IgnoreAccounted
<1>2. Accounted(queue[i].item)
  BY DEF IgnoreAccounted
<1>3. PICK x \in Item : x = queue[i].item
  BY <1>1
<1> QED BY <1>2, <1>3

(* So does what the innermost scan has passed.                              *)
LEMMA LookedKept ==
    ASSUME TypeOK, ScansSound, Looked, QueueSound', queue' \in Seq(Entry), ~ScanDue,
           NEW n, NEW F, NEW d, Moved(stack', n, stack, F, d),
           \A i \in n + 1 .. Len(stack) : ~IsScan(stack[i]),
           \A a \in F : IsScan(a) => a.lptr = 0,
           \A k \in 1 .. n, l \in 1 .. Len(queue) :
              IsScan(stack[k]) /\ (\A i \in 1 .. l : Below(queue[i].item, k, stack, sig_flag))
                 => l \in 1 .. Len(queue') /\ \A i \in 1 .. l : queue'[i] = queue[i],
           \A k \in 1 .. n, x \in Item :
              IsScan(stack[k]) /\ Below(x, k, stack, sig_flag) /\ Accounted(x) => Accounted(x)',
           asts_enabled' => asts_enabled
    PROVE  Looked'
<1>1. /\ n \in Nat /\ n <= Len(stack) /\ n <= Len(stack') /\ queue \in Seq(Entry)
      /\ Len(stack') \in Nat /\ Len(stack) \in Nat /\ Len(queue) \in Nat
      /\ \A i \in 1 .. n : stack'[i] = stack[i] /\ i \in 1 .. Len(stack) /\ i \in 1 .. Len(stack')
      /\ \A i \in n + 1 .. Len(stack') : stack'[i] \in F
      /\ \A i \in 1 .. Len(stack) : i \in 1 .. n \/ i \in n + 1 .. Len(stack)
      /\ \A i \in 1 .. Len(stack') : i \in 1 .. n \/ i \in n + 1 .. Len(stack')
  BY MovedParts
<1> SUFFICES ASSUME asts_enabled, NEW k \in 1 .. Len(stack'), NEW l \in 1 .. Len(queue'),
                    Innermost(k)', queue'[l].id = stack'[k].lptr, NEW i \in 1 .. l
             PROVE  Accounted(queue[i].item)'
  BY DEF Looked
<1>2. k \in 1 .. n
  <2>1. queue'[l].id # 0
    BY EntryFields
  <2> QED BY <1>1, <2>1 DEF Innermost
<1>3. Innermost(k)
  <2> SUFFICES ASSUME NEW j \in k + 1 .. Len(stack), IsScan(stack[j])
               PROVE  FALSE
    BY <1>1, <1>2 DEF Innermost
  <2>1. j \in 1 .. n
    <3>1. j \in 1 .. n \/ j \in n + 1 .. Len(stack)
      BY <1>1
    <3> QED BY <3>1
  <2>2. j \in k + 1 .. Len(stack') /\ stack'[j] = stack[j]
    BY <1>1, <2>1
  <2> QED BY <2>2 DEF Innermost
<1>4. k \in 1 .. Len(stack) /\ IsScan(stack[k]) /\ stack'[k] = stack[k] /\ stack[k].lptr # 0
  <2>1. queue'[l].id # 0
    BY EntryFields
  <2> QED BY <1>1, <1>2, <1>3, <2>1 DEF Innermost
<1>5. PICK m \in 1 .. Len(queue) :
         /\ queue[m].id = stack[k].lptr
         /\ \A j \in 1 .. m : Below(queue[j].item, k, stack, sig_flag)
  BY <1>4 DEF ScansSound, ScanAt
<1>6. m \in 1 .. Len(queue') /\ m \in 1 .. m /\ \A j \in 1 .. m : queue'[j] = queue[j]
  BY <1>1, <1>2, <1>4, <1>5
<1>7. m = l
  BY <1>4, <1>5, <1>6 DEF QueueSound
<1>8. i \in 1 .. m /\ i \in 1 .. Len(queue)
  BY <1>1, <1>7
<1>9. Accounted(queue[i].item)
  BY <1>3, <1>4, <1>5, <1>8 DEF Looked
<1>10. PICK x \in Item : x = queue[i].item
  BY <1>1, <1>8, EntryFields
<1>11. Accounted(x)'
  BY <1>2, <1>4, <1>5, <1>8, <1>9, <1>10
<1> QED BY <1>6, <1>8, <1>10, <1>11

(* A pair on its way is on top of the stack; ...                            *)
LEMMA AddOnTop ==
    ASSUME TypeOK, AddsSound, NEW i \in 1 .. Len(stack), stack[i].fn = "Add"
    PROVE  In("Add") /\ i = Len(stack)
<1>1. i = Len(stack) /\ Len(stack) \in Nat /\ stack # <<>>
  BY LenProperties, EmptySeq DEF AddsSound, TypeOK
<1> QED BY <1>1 DEF In, Top, Depth

(* ... a step that starts from anywhere else leaves none.                   *)
LEMMA NoAdds ==
    ASSUME TypeOK, AddsSound, NEW n, NEW F, NEW d, Moved(stack', n, stack, F, d),
           n < Len(stack) \/ ~In("Add"), \A a \in F : a.fn # "Add"
    PROVE  AddsSound'
<1>1. /\ n \in Nat /\ Len(stack) \in Nat
      /\ \A i \in 1 .. n : stack'[i] = stack[i] /\ i \in 1 .. Len(stack)
      /\ \A i \in n + 1 .. Len(stack') : stack'[i] \in F
      /\ \A i \in 1 .. Len(stack') : i \in 1 .. n \/ i \in n + 1 .. Len(stack')
  BY MovedParts
<1>2. ASSUME NEW i \in 1 .. Len(stack'), stack'[i].fn = "Add"
      PROVE  FALSE
  <2>1. i \in 1 .. n /\ i \in 1 .. Len(stack) /\ stack[i].fn = "Add"
    BY <1>1, <1>2
  <2>2. In("Add") /\ i = Len(stack)
    BY <2>1, AddOnTop
  <2> QED BY <1>1, <2>1, <2>2
<1> QED BY <1>2 DEF AddsSound

-----------------------------------------------------------------------------
(* Steps that start, leave and unwind no handler, and leave the queue       *)
(* alone.                                                                   *)
Quiet(n, F, d) ==
    /\ Moved(stack', n, stack, F, d)
    /\ \A i \in n + 1 .. Len(stack) :
          stack[i].fn \notin {"handler", "callback", "Clear_ast_queue", "Do_ast_queue", "Add"}
    /\ \A a \in F :
          /\ a.fn \notin {"handler", "Raise_astp", "Clear_ast_queue", "Add"}
          /\ a.fn = "Do_ast_queue" => a.lptr = 0 /\ asts_enabled
    /\ stack' = stack \/ ~In("Add")
    /\ UNCHANGED <<queue, queue_end, asts_enabled>>

(* They keep the pointers into the queue, ...                               *)
LEMMA QuietSound ==
    ASSUME TypeOK, QueueSound, ClearsSound, ScansSound, NEW n, NEW F, NEW d, Quiet(n, F, d),
           seen' \in Nat, seen <= seen', n = 0 \/ FlagsMasked
    PROVE  QueueSound' /\ ClearsSound' /\ ScansSound'
<1>1. /\ Moved(stack', n, stack, F, d) /\ Len(queue') \in Nat
      /\ \A i \in n + 1 .. Len(stack') : stack'[i] \in F
  BY MovedParts DEF Quiet
<1>2. QueueSound'
  BY QueueStays DEF Quiet
<1>3. ClearsSound'
  <2>1. \A i \in n + 1 .. Len(stack) : ~IsClear(stack[i])
    BY DEF Quiet, IsClear
  <2>2. \A a \in F : ~IsClear(a) /\ (IsScan(a) => asts_enabled)
    BY DEF Quiet, IsClear, IsScan
  <2> QED BY <1>1, <2>1, <2>2, ClearsKept DEF Quiet
<1>4. ScansSound'
  <2>1. \A k \in 1 .. n, x \in Item :
           IsScan(stack[k]) /\ Below(x, k, stack, sig_flag)
              => (x \in Sig => ~sig_flag'[x]) /\ \A a \in F : ~Runs(a, x)
    BY DEF Quiet, Below, Runs, FlagsMasked
  <2>2. \A k \in n + 1 .. Len(stack') :
           IsScan(stack'[k]) /\ stack'[k].lptr # 0 => ScanAt(k)'
    BY <1>1 DEF Quiet, IsScan
  <2>3. \A k \in 1 .. n, l \in 1 .. Len(queue) :
           IsScan(stack[k]) /\ (\A i \in 1 .. l : Below(queue[i].item, k, stack, sig_flag))
              => l \in 1 .. Len(queue') /\ \A i \in 1 .. l : queue'[i] = queue[i]
    BY DEF Quiet
  <2> QED BY <1>1, <2>1, <2>2, <2>3, ScansKept
<1> QED BY <1>2, <1>3, <1>4

(* A pair on its way stays accounted for.                                   *)
LEMMA QuietAdds ==
    ASSUME TypeOK, AddsSound, NEW n, NEW F, NEW d, Quiet(n, F, d), seen' \in Nat, seen <= seen',
           Watched' => Watched /\ \A x \in Item : Accounted(x) => Accounted(x)'
    PROVE  AddsSound'
<1>0. Moved(stack', n, stack, F, d) /\ \A a \in F : a.fn # "Add"
  BY DEF Quiet
<1>1. CASE ~In("Add")
  BY <1>0, <1>1, NoAdds
<1>2. CASE In("Add")
  <2> SUFFICES ASSUME NEW i \in 1 .. Len(stack), stack[i].fn = "Add"
               PROVE  /\ i = Len(stack)
                      /\ stack[i].entry.id <= seen'
                      /\ \A j \in 1 .. Len(queue) : queue[j].id # stack[i].entry.id
                      /\ stack[i].entry.item \notin Never
                      /\ Watched' => Accounted(stack[i].entry.item)'
    BY <1>2 DEF AddsSound, Quiet
  <2>1. stack[i].entry \in Entry
    BY ElementOfSeq, FrameFields DEF TypeOK
  <2>2. stack[i].entry.id \in Nat /\ stack[i].entry.item \in Item
    BY <2>1 DEF Entry
  <2>3. stack[i].entry.id <= seen'
    <3>1. stack[i].entry.id <= seen /\ seen \in Nat
      BY DEF AddsSound, TypeOK
    <3> QED BY <3>1, <2>2
  <2>4. Watched' => Accounted(stack[i].entry.item)'
    <3>1. PICK x \in Item : x = stack[i].entry.item
      BY <2>2
    <3>2. Watched' => Accounted(x)
      BY <3>1 DEF AddsSound
    <3>3. Watched' => Accounted(x)'
      BY <3>2
    <3>4. stack' = stack
      BY <1>2 DEF Quiet
    <3> QED BY <3>1, <3>3, <3>4
  <2> QED BY <2>3, <2>4 DEF AddsSound
<1> QED BY <1>1, <1>2

(* A quiet step that makes nothing more of the queue worth looking at.      *)
LEMMA QuietWatched ==
    ASSUME TypeOK, AddsSound, IgnoreAccounted, Looked, ScansSound, QueueSound',
           NEW n, NEW F, NEW d, Quiet(n, F, d), seen' \in Nat, seen <= seen',
           FlagsMasked, NotesKept, CheckStays, ignore' => ignore,
           ~ScanDue \/ (stack' = stack /\ ignore' = ignore)
    PROVE  AddsSound' /\ IgnoreAccounted' /\ Looked'
<1>1. /\ Moved(stack', n, stack, F, d) /\ queue' = queue /\ asts_enabled' = asts_enabled
      /\ queue' \in Seq(Entry)
  BY DEF Quiet, TypeOK
<1>2. \A x \in Item : Accounted(x) => Accounted(x)'
  BY <1>1, StaysAccounted DEF Quiet
<1>3. Watched' => Watched
  BY <1>1 DEF Watched
<1>4. IgnoreAccounted'
  BY <1>1, <1>2, <1>3, IgnoreKept
<1>5. AddsSound'
  BY <1>2, <1>3, QuietAdds
<1>6. Looked'
  <2>1. CASE ScanDue
    BY <2>1 DEF Looked, ScanDue, Top, Depth
  <2>2. CASE ~ScanDue
    <3>1. \A i \in n + 1 .. Len(stack) : ~IsScan(stack[i])
      BY DEF Quiet, IsScan
    <3>2. \A a \in F : IsScan(a) => a.lptr = 0
      BY DEF Quiet, IsScan
    <3>3. \A k \in 1 .. n, l \in 1 .. Len(queue) :
             IsScan(stack[k]) /\ (\A i \in 1 .. l : Below(queue[i].item, k, stack, sig_flag))
                => l \in 1 .. Len(queue') /\ \A i \in 1 .. l : queue'[i] = queue[i]
      BY <1>1
    <3>4. \A k \in 1 .. n, x \in Item :
             IsScan(stack[k]) /\ Below(x, k, stack, sig_flag) /\ Accounted(x) => Accounted(x)'
      BY <1>2
    <3> QED BY <1>1, <2>2, <3>1, <3>2, <3>3, <3>4, LookedKept
  <2> QED BY <2>1, <2>2
<1> QED BY <1>4, <1>5, <1>6

(* A scan is about to look at the whole queue.                              *)
ScanBegins == stack # <<>> /\ IsScan(Top) /\ Top.lptr = 0

(* A scan that begins has passed no entry.                                  *)
LEMMA LookedAtStart ==
    ASSUME ScanBegins', stack' \in Seq(Activation), queue' \in Seq(Entry)
    PROVE  Looked'
<1>1. Len(stack') \in Nat \ {0} /\ stack' # <<>> /\ IsScan(Top)' /\ Top.lptr' = 0
  BY LenProperties, EmptySeq DEF ScanBegins
<1>2. ASSUME NEW k \in 1 .. Len(stack'), Innermost(k)'
      PROVE  stack'[k].lptr = 0
  <2>1. CASE k = Len(stack')
    BY <1>1, <2>1 DEF Top, Depth
  <2>2. CASE k # Len(stack')
    <3>1. Len(stack') \in k + 1 .. Len(stack')
      BY <1>1, <2>2
    <3> QED BY <1>1, <1>2, <3>1 DEF Innermost, Top, Depth
  <2> QED BY <2>1, <2>2
<1>3. \A l \in 1 .. Len(queue') : queue'[l].id # 0
  BY EntryFields
<1> QED BY <1>2, <1>3 DEF Looked

(* A quiet step after which the queue will be looked at, or asts are        *)
(* disabled.                                                                *)
LEMMA QuietLooked ==
    ASSUME TypeOK, AddsSound, NEW n, NEW F, NEW d, Quiet(n, F, d),
           seen' \in Nat, seen <= seen', ~ignore',
           ~asts_enabled \/ ScanDue' \/ ScanBegins'
    PROVE  AddsSound' /\ IgnoreAccounted' /\ Looked'
<1>1. /\ queue' \in Seq(Entry) /\ stack' \in Seq(Activation) /\ asts_enabled' = asts_enabled
  BY DEF Moved, TypeOK, Quiet
<1>2. ~Watched'
  BY DEF Watched
<1>3. IgnoreAccounted'
  BY <1>2 DEF IgnoreAccounted
<1>4. AddsSound'
  BY <1>2, QuietAdds
<1>5. Looked'
  <2>1. CASE ~asts_enabled \/ ScanDue'
    BY <2>1, <1>1 DEF Looked
  <2>2. CASE ScanBegins'
    BY <1>1, <2>2, LookedAtStart
  <2> QED BY <2>1, <2>2
<1> QED BY <1>3, <1>4, <1>5

-----------------------------------------------------------------------------
(* Activations pushed on the stack, or put in place of its top.             *)
LEMMA Pushed ==
    ASSUME TypeOK, NEW a \in Activation, NEW b \in Activation
    PROVE  /\ Moved(Append(stack, a), Len(stack), stack, {a}, FrameWeight[a])
           /\ Moved(Append(Append(stack, a), b), Len(stack), stack, {a, b}, FrameWeight[a] + FrameWeight[b])
           /\ Len(stack) \in Nat
           /\ Len(Append(stack, a)) = Len(stack) + 1 /\ Append(stack, a)[Len(stack) + 1] = a
           /\ Append(stack, a) # <<>>
           /\ Len(Append(Append(stack, a), b)) = Len(stack) + 2
           /\ Append(Append(stack, a), b)[Len(stack) + 1] = a
           /\ Append(Append(stack, a), b)[Len(stack) + 2] = b
<1> DEFINE s1 == Append(stack, a)  E == {}  n == Len(stack)  z == 0
<1>1. stack \in Seq(Activation) /\ n \in Nat
  BY LenProperties DEF TypeOK
<1>2. FrameWeight[a] \in Nat /\ FrameWeight[b] \in Nat
  BY FrameWeights
<1>3. Moved(stack, n, stack, E, z) /\ z \in Int /\ z + FrameWeight[a] = FrameWeight[a]
  BY <1>1, <1>2, MovedNot
<1>4. E \cup {a} = {a} /\ {a} \cup {b} = {a, b}
  OBVIOUS
<1> HIDE DEF E, n, z
<1>5. /\ Moved(s1, n, stack, E \cup {a}, z + FrameWeight[a]) /\ s1 \in Seq(Activation)
      /\ Len(s1) = Len(stack) + 1 /\ s1[Len(stack) + 1] = a
  <2>1. Moved(stack, n, stack, E, z)
    BY <1>3
  <2>2. stack \in Seq(Activation) /\ z \in Int
    BY <1>1, <1>3
  <2>3. Moved(s1, n, stack, E \cup {a}, z + FrameWeight[a])
    BY <2>1, <2>2, MovedPush DEF s1
  <2>4. s1 \in Seq(Activation) /\ Len(s1) = Len(stack) + 1 /\ s1[Len(stack) + 1] = a
    BY <2>2, AppendProperties DEF s1
  <2> QED BY <2>3, <2>4
<1>6. Moved(s1, n, stack, {a}, FrameWeight[a])
  BY <1>3, <1>4, <1>5
<1> HIDE DEF s1
<1> DEFINE F == {a}  s2 == Append(s1, b)
<1>7. Moved(s1, n, stack, F, FrameWeight[a]) /\ FrameWeight[a] \in Int
  BY <1>2, <1>6
<1> HIDE DEF F
<1>a. /\ Len(s2) = Len(s1) + 1 /\ s2[Len(s1) + 1] = b
      /\ \A i \in 1 .. Len(s1) : s2[i] = s1[i]
  BY <1>5, AppendProperties
<1>8. Moved(s2, n, stack, F \cup {b}, FrameWeight[a] + FrameWeight[b])
  <2>1. Moved(s1, n, stack, F, FrameWeight[a])
    BY <1>7
  <2>2. stack \in Seq(Activation) /\ s1 \in Seq(Activation) /\ FrameWeight[a] \in Int
    BY <1>1, <1>5, <1>7
  <2> QED BY <2>1, <2>2, MovedPush
<1>9. Moved(s2, n, stack, {a, b}, FrameWeight[a] + FrameWeight[b])
  BY <1>4, <1>8 DEF F
<1>10. Len(stack) + 1 \in 1 .. Len(s1) /\ Len(s1) + 1 = Len(stack) + 2 /\ Len(stack) \in Nat
  BY <1>1, <1>5 DEF n
<1>11. s2[Len(stack) + 1] = a /\ s2[Len(stack) + 2] = b /\ Len(s2) = Len(stack) + 2
  BY <1>5, <1>a, <1>10
<1>12. s1 # <<>>
  BY <1>5, <1>10
<1> QED BY <1>5, <1>6, <1>9, <1>10, <1>11, <1>12 DEF n, s1, s2

(* The top changed, and an activation pushed onto it.                       *)
LEMMA TopThen ==
    ASSUME TypeOK, stack # <<>>, NEW a \in Activation, NEW b \in Activation
    PROVE  /\ Moved(Append(Append(Popped, a), b), Depth - 1, stack, {a, b},
                    (FrameWeight[a] - FrameWeight[Top]) + FrameWeight[b])
           /\ Depth \in Nat \ {0} /\ Depth = Len(stack)
           /\ Len(Append(Append(Popped, a), b)) = Depth + 1
           /\ Append(Append(Popped, a), b)[Depth] = a
           /\ Append(Append(Popped, a), b)[Depth + 1] = b
<1> DEFINE s1 == Append(Popped, a)  n == Depth - 1  F == {a}  s2 == Append(s1, b)
           d == FrameWeight[a] - FrameWeight[Top]
<1>1. /\ s1 \in Seq(Activation) /\ Len(s1) = Depth /\ s1[Depth] = a
      /\ Moved(s1, n, stack, F, d)
  BY TopBecomes
<1>2. /\ stack \in Seq(Activation) /\ d \in Int /\ F \cup {b} = {a, b}
      /\ Depth \in Nat \ {0} /\ Depth = Len(stack) /\ Depth \in 1 .. Depth
  <2>1. FrameWeight[a] \in Nat /\ FrameWeight[Top] \in Nat
    BY TopTyped, FrameWeights
  <2> QED BY <2>1, TopTyped
<1> HIDE DEF n, F, d, s1
<1>a. /\ Len(s2) = Len(s1) + 1 /\ s2[Len(s1) + 1] = b
      /\ \A i \in 1 .. Len(s1) : s2[i] = s1[i]
  BY <1>1, AppendProperties DEF s1
<1>3. Moved(s2, n, stack, F \cup {b}, d + FrameWeight[b])
  <2>1. Moved(s1, n, stack, F, d)
    BY <1>1 DEF n, F, d, s1
  <2>2. stack \in Seq(Activation) /\ s1 \in Seq(Activation) /\ d \in Int
    BY <1>1, <1>2 DEF s1
  <2> QED BY <2>1, <2>2, MovedPush
<1>4. s2[Depth] = a /\ s2[Depth + 1] = b /\ Len(s2) = Depth + 1
  BY <1>1, <1>2, <1>a DEF s1
<1>5. Moved(s2, n, stack, {a, b}, d + FrameWeight[b])
  BY <1>2, <1>3
<1> QED BY <1>2, <1>4, <1>5 DEF n, d, s1, s2

-----------------------------------------------------------------------------
(* The inductive invariant of the dispatch.                                 *)
DispatchInv ==
    /\ TypeOK /\ CountSound
    /\ QueueSound /\ ClearsSound /\ AddsSound /\ ScansSound
    /\ IgnoreAccounted /\ Looked

(* The types of what the counts, the queue and the stack do not settle.     *)
RestOK ==
    /\ trap \in BOOLEAN /\ ignore \in BOOLEAN
    /\ queue_flags \subseteq {"QC_RECURSIVE", "QC_CALLBACK"}
    /\ asts_enabled \in BOOLEAN /\ disable \in BOOLEAN
    /\ sig_flag \in [Sig -> BOOLEAN]
    /\ raised \in 0 .. MaxRaise /\ ops \in 0 .. MaxOp
    /\ last_run \in [Item -> 0 .. MaxRaise]
    /\ cleared \subseteq 1 .. MaxRaise

(* The counts and the types, when a stack has moved.                        *)
LEMMA TypesKept ==
    ASSUME TypeOK, CountSound, NEW n, NEW F, NEW d \in Int, Moved(stack', n, stack, F, d),
           Counted(d), RestOK', queue' \in Seq(Entry), queue_end' \in 0 .. MaxRaise
    PROVE  TypeOK' /\ CountSound'
<1>1. CountSound' /\ ring' \in Seq(Item \cup {QueueCheck}) /\ seen' \in 0 .. raised'
  BY CountKept
<1>2. stack' \in Seq(Activation)
  BY DEF Moved
<1> QED BY <1>1, <1>2 DEF TypeOK, RestOK

(* The numbers of asts grow.                                                *)
LEMMA SeenGrows ==
    ASSUME TypeOK, NEW d, Counted(d)
    PROVE  seen' \in Nat /\ seen <= seen'
<1>1. seen \in Nat /\ (ring # <<>> => AstWeight[Head(ring)] \in {0, 1})
  <2>1. ring # <<>> => Head(ring) \in Item \cup {QueueCheck}
    BY HeadTailProperties DEF TypeOK
  <2> QED BY <2>1, AstWeights DEF TypeOK
<1> QED BY <1>1 DEF Counted

(* The quiet steps, in the two ways.                                        *)
LEMMA WatchedStep ==
    ASSUME DispatchInv, NEW n, NEW F, NEW d \in Int, Quiet(n, F, d), Counted(d), RestOK',
           FlagsMasked, NotesKept, CheckStays, ignore' => ignore,
           ~ScanDue \/ (stack' = stack /\ ignore' = ignore)
    PROVE  DispatchInv'
<1>1. TypeOK' /\ CountSound'
  BY TypesKept DEF Quiet, DispatchInv, TypeOK
<1>2. seen' \in Nat /\ seen <= seen'
  BY SeenGrows DEF DispatchInv
<1>3. QueueSound' /\ ClearsSound' /\ ScansSound'
  BY <1>2, QuietSound DEF DispatchInv
<1>4. AddsSound' /\ IgnoreAccounted' /\ Looked'
  BY <1>2, <1>3, QuietWatched DEF DispatchInv
<1> QED BY <1>1, <1>3, <1>4 DEF DispatchInv

(* ... and those after which the queue is due to be looked at.              *)
LEMMA LookedStep ==
    ASSUME DispatchInv, NEW n, NEW F, NEW d \in Int, Quiet(n, F, d), Counted(d), RestOK',
           n = 0 \/ FlagsMasked, ~ignore',
           ~asts_enabled \/ ScanDue' \/ ScanBegins'
    PROVE  DispatchInv'
<1>1. TypeOK' /\ CountSound'
  BY TypesKept DEF Quiet, DispatchInv, TypeOK
<1>2. seen' \in Nat /\ seen <= seen'
  BY SeenGrows DEF DispatchInv
<1>3. QueueSound' /\ ClearsSound' /\ ScansSound'
  BY <1>2, QuietSound DEF DispatchInv
<1>4. AddsSound' /\ IgnoreAccounted' /\ Looked'
  BY <1>2, QuietLooked DEF DispatchInv
<1> QED BY <1>1, <1>3, <1>4 DEF DispatchInv

-----------------------------------------------------------------------------
(* Each step keeps the invariant. An ast that arrives does: ...             *)
LEMMA EventStep ==
    ASSUME DispatchInv, NEW x \in Item, Event(x)
    PROVE  DispatchInv'
<1> USE DEF DispatchInv
<1>1. ring' = Append(ring, x)
  BY RingHasRoom DEF Event
<1>2. Moved(stack', Len(stack), stack, {}, 0)
  BY MovedNot DEF TypeOK, Event
<1>3. Len(stack) \in Nat
  BY LenProperties DEF TypeOK
<1>4. Quiet(Len(stack), {}, 0)
  BY <1>2, <1>3 DEF Quiet, Event, pairs, switches
<1>5. Counted(0)
  BY <1>1 DEF Counted, Event
<1>6. RestOK'
  <2>1. raised' \in 0 .. MaxRaise
    BY AstQueueAssumption DEF Event, TypeOK
  <2> QED BY <2>1 DEF RestOK, TypeOK, Event, Ring!Arrive, switches
<1>7. CheckStays
  <2>1. ring \in Seq(Item \cup {QueueCheck}) /\ x \in Item \cup {QueueCheck}
    BY DEF TypeOK
  <2>2. Len(ring) \in Nat /\ Len(ring') = Len(ring) + 1 /\ \A i \in 1 .. Len(ring) : ring'[i] = ring[i]
    BY <1>1, <2>1, AppendProperties, LenProperties
  <2> QED BY <2>2 DEF CheckStays
<1>8. FlagsMasked /\ NotesKept /\ ignore' = ignore /\ stack' = stack
  BY DEF FlagsMasked, NotesKept, Event, switches
<1> HIDE DEF DispatchInv
<1> QED BY <1>4, <1>5, <1>6, <1>7, <1>8, WatchedStep

-----------------------------------------------------------------------------
(* Procedures that are neither handlers nor external calls, nor clear the   *)
(* queue or add to it.                                                      *)
Plain == {"Async_raise_signal", "Do_ast_queue", "sys_raise_ast", "mishap"}

(* The activation a may be pushed by a quiet step.                          *)
Fresh(a) ==
    /\ a \in Activation /\ a.fn \in Plain \cup {"callback"}
    /\ a.fn = "Do_ast_queue" => a.lptr = 0 /\ asts_enabled

(* A plain activation pushed, ...                                           *)
LEMMA QuietPush ==
    ASSUME TypeOK, NEW a, Fresh(a), stack' = Append(stack, a), ~In("Add"),
           UNCHANGED <<queue, queue_end, asts_enabled>>
    PROVE  Quiet(Len(stack), {a}, FrameWeight[a]) /\ stack' # <<>> /\ Top' = a
<1>1. /\ Moved(stack', Len(stack), stack, {a}, FrameWeight[a]) /\ Len(stack) \in Nat
      /\ Len(stack') = Len(stack) + 1 /\ stack'[Len(stack) + 1] = a /\ stack' # <<>>
  BY Pushed DEF Fresh
<1>2. Quiet(Len(stack), {a}, FrameWeight[a])
  BY <1>1 DEF Quiet, Fresh, Plain
<1> QED BY <1>1, <1>2 DEF Top, Depth

(* The only activation that is popped.                                      *)
LEMMA OnlyTop ==
    ASSUME TypeOK, stack # <<>>
    PROVE  \A i \in (Depth - 1) + 1 .. Len(stack) : i = Depth /\ stack[i] = Top
<1>1. Depth \in Nat \ {0} /\ Depth = Len(stack) /\ Top = stack[Len(stack)]
  BY TopTyped
<1> QED BY <1>1

(* ... popped, ...                                                          *)
LEMMA QuietPop ==
    ASSUME TypeOK, stack # <<>>, Top.fn \in Plain \ {"Do_ast_queue"}, stack' = Popped,
           UNCHANGED <<queue, queue_end, asts_enabled>>
    PROVE  Quiet(Depth - 1, {}, 0)
<1>1. Top \in Activation /\ Moved(Popped, Depth - 1, stack, {}, 0 - FrameWeight[Top])
  BY TopTyped
<1>2. FrameWeight[Top] = 0
  BY <1>1, FrameWeights DEF Plain
<1>3. Moved(Popped, Depth - 1, stack, {}, 0)
  BY <1>1, <1>2
<1> QED BY <1>3, OnlyTop DEF Quiet, Plain, In

(* ... changed into another, ...                                            *)
LEMMA QuietTop ==
    ASSUME TypeOK, stack # <<>>, Top.fn \in Plain \ {"Do_ast_queue"}, NEW a, Fresh(a), a.fn \in Plain,
           stack' = Append(Popped, a), UNCHANGED <<queue, queue_end, asts_enabled>>
    PROVE  Quiet(Depth - 1, {a}, 0) /\ stack' # <<>> /\ Top' = a
<1>1. /\ Top \in Activation /\ Depth \in Nat \ {0} /\ a \in Activation
      /\ Len(stack') = Depth /\ stack'[Depth] = a
      /\ Moved(stack', Depth - 1, stack, {a}, FrameWeight[a] - FrameWeight[Top])
      /\ stack' \in Seq(Activation)
  BY TopTyped, TopBecomes DEF Fresh
<1>2. FrameWeight[Top] = 0 /\ FrameWeight[a] = 0
  BY <1>1, FrameWeights DEF Plain
<1>3. Moved(stack', Depth - 1, stack, {a}, 0)
  BY <1>1, <1>2
<1>4. Quiet(Depth - 1, {a}, 0)
  BY <1>3, OnlyTop DEF Quiet, Plain, In, Fresh
<1> QED BY <1>1, <1>4 DEF Top, Depth

(* ... or changed with another pushed, is a quiet step.                     *)
LEMMA QuietTopThen ==
    ASSUME TypeOK, stack # <<>>, Top.fn \in Plain \ {"Do_ast_queue"},
           NEW a, Fresh(a), a.fn \in Plain, NEW b, Fresh(b), b.fn \in Plain,
           stack' = Append(Append(Popped, a), b), UNCHANGED <<queue, queue_end, asts_enabled>>
    PROVE  Quiet(Depth - 1, {a, b}, 0) /\ stack' # <<>> /\ Top' = b
<1>1. /\ Top \in Activation /\ Depth \in Nat \ {0} /\ a \in Activation /\ b \in Activation
      /\ Len(stack') = Depth + 1 /\ stack'[Depth + 1] = b
      /\ Moved(stack', Depth - 1, stack, {a, b}, (FrameWeight[a] - FrameWeight[Top]) + FrameWeight[b])
  <2>1. a \in Activation /\ b \in Activation
    BY DEF Fresh
  <2>2. /\ Len(Append(Append(Popped, a), b)) = Depth + 1 /\ Append(Append(Popped, a), b)[Depth + 1] = b
        /\ Moved(Append(Append(Popped, a), b), Depth - 1, stack, {a, b},
                 (FrameWeight[a] - FrameWeight[Top]) + FrameWeight[b])
    BY <2>1, TopThen
  <2>3. Top \in Activation /\ Depth \in Nat \ {0}
    BY TopTyped
  <2> QED BY <2>1, <2>2, <2>3
<1>2. FrameWeight[Top] = 0 /\ FrameWeight[a] = 0 /\ FrameWeight[b] = 0
  BY <1>1, FrameWeights DEF Plain
<1>3. Moved(stack', Depth - 1, stack, {a, b}, 0)
  BY <1>1, <1>2
<1>4. Quiet(Depth - 1, {a, b}, 0)
  BY <1>3, OnlyTop DEF Quiet, Plain, In, Fresh
<1> QED BY <1>1, <1>4 DEF Top, Depth

(* Activations that the dispatch pushes.                                    *)
LEMMA FreshKinds ==
    /\ Fresh(Async) /\ Async.fn \in Plain
    /\ Fresh([fn |-> "Async_raise_signal", pc |-> "handled"])
    /\ \A f \in {"sys_raise_ast", "mishap"}, pc \in {"check", "checked"} : Fresh([fn |-> f, pc |-> pc])
    /\ Fresh(Callback)
    /\ \A a \in BOOLEAN : asts_enabled => Fresh(Scan(a)) /\ Scan(a).fn \in Plain
<1>1. 0 \in 0 .. MaxRaise
  BY AstQueueAssumption
<1>2. \A a \in BOOLEAN : Scan(a) \in Activation
  BY <1>1, FrameKinds DEF Scan
<1> QED BY <1>2, FrameKinds DEF Fresh, Plain, Async, Callback, Scan

(* ... a check point in user code, or in sys_raise_ast or a mishap, ...     *)
LEMMA CheckPointQuiet ==
    ASSUME Tame, DispatchInv, CheckPoint, ~In("Do_ast_queue")
    PROVE  DispatchInv'
<1>0. TypeOK
  BY DEF DispatchInv
<1>1. UNCHANGED <<queue, queue_end, asts_enabled, ring, seen, raised, ops, sig_flag, queue_flags, ignore>>
      /\ RestOK'
  BY <1>0 DEF CheckPoint, pending, pairs, switches, counts, RestOK, TypeOK
<1>2. Counted(0) /\ FlagsMasked /\ NotesKept /\ CheckStays
  BY <1>1 DEF Counted, FlagsMasked, NotesKept, CheckStays
<1>3. CASE UserCode /\ stack' = Append(stack, Async)
  <2>1. Async \in Activation /\ FrameWeight[Async] = 0
    BY FreshKinds, FrameWeights DEF Fresh, Plain
  <2>2. ~In("Add") /\ ~ScanDue
    BY <1>3 DEF UserCode, In, ScanDue
  <2>3. Quiet(Len(stack), {Async}, 0)
    BY <1>0, <1>1, <1>3, <2>1, <2>2, FreshKinds, QuietPush
  <2> QED BY <1>1, <1>2, <2>2, <2>3, WatchedStep
<1>4. ASSUME NEW f \in {"sys_raise_ast", "mishap"}, In(f),
             stack' = Append(IF "pc" \in DOMAIN Top THEN Goto("checked") ELSE stack, Async)
      PROVE  DispatchInv'
  <2> DEFINE a == [fn |-> f, pc |-> "checked"]
  <2>1. stack' = Append(Append(Popped, a), Async)
    BY <1>0, <1>4, CheckGoto
  <2>2. Fresh(a) /\ a.fn \in Plain /\ Top.fn = f /\ stack # <<>> /\ f \in Plain \ {"Do_ast_queue"}
    BY <1>4, FreshKinds DEF In, Plain
  <2> HIDE DEF a
  <2>3. Quiet(Depth - 1, {a, Async}, 0)
    BY <1>0, <1>1, <2>1, <2>2, FreshKinds, QuietTopThen
  <2>4. ~ScanDue
    BY <1>4 DEF ScanDue, In
  <2> QED BY <1>1, <1>2, <2>3, <2>4, WatchedStep
<1> QED BY <1>3, <1>4 DEF CheckPoint, CheckInDispatch, Tame

(* ... the returns of Async_raise_signal and of a mishap, ...               *)
LEMMA ReturnsQuiet ==
    ASSUME DispatchInv, RingEmpty \/ MishapEnds
    PROVE  DispatchInv'
<1>0. TypeOK
  BY DEF DispatchInv
<1>1. /\ UNCHANGED <<queue, queue_end, asts_enabled, disable, ring, seen, raised, ops, cleared, last_run,
                      sig_flag, queue_flags, ignore>>
      /\ stack' = Popped /\ stack # <<>> /\ Top.fn \in {"Async_raise_signal", "mishap"}
      /\ trap' \in {trap, FALSE} /\ ~ScanDue
  <2>1. CASE RingEmpty
    <3>1. ~ScanDue
      BY <2>1 DEF RingEmpty, ScanDue
    <3>2. stack' = Popped /\ stack # <<>> /\ Top.fn = "Async_raise_signal"
      BY <2>1 DEF RingEmpty, In
    <3>3. ring' = ring /\ trap' = FALSE
      BY <2>1 DEF RingEmpty, Ring!FindEmpty
    <3> QED BY <2>1, <3>1, <3>2, <3>3 DEF RingEmpty, pairs, switches, counts
  <2>2. CASE MishapEnds
    BY <2>2 DEF MishapEnds, pending, pairs, switches, counts, In, ScanDue
  <2> QED BY <2>1, <2>2
<1>a. RestOK'
  BY <1>0, <1>1 DEF RestOK, TypeOK
<1>2. Counted(0) /\ FlagsMasked /\ NotesKept /\ CheckStays
  BY <1>1 DEF Counted, FlagsMasked, NotesKept, CheckStays
<1>3. Quiet(Depth - 1, {}, 0)
  BY <1>0, <1>1, QuietPop DEF Plain
<1> QED BY <1>1, <1>a, <1>2, <1>3, WatchedStep

(* ... AST_QUEUE_CHECK taken from the ring, ...                             *)
LEMMA TakeCheckQuiet ==
    ASSUME DispatchInv, TakeCheck
    PROVE  DispatchInv'
<1>0. TypeOK
  BY DEF DispatchInv
<1> DEFINE a == [fn |-> "Async_raise_signal", pc |-> "handled"]
<1>1. /\ UNCHANGED <<queue, queue_end, asts_enabled, seen, raised, ops, sig_flag, queue_flags>>
      /\ RestOK' /\ stack # <<>> /\ Top.fn = "Async_raise_signal" /\ ~ignore'
      /\ ring # <<>> /\ ring' = Tail(ring) /\ Head(ring) = QueueCheck
  BY <1>0 DEF TakeCheck, Ring!Take, pairs, switches, counts, RestOK, TypeOK, In
<1>2. stack' = Append(Popped, a)
  BY <1>0, AsyncGoto DEF TakeCheck
<1>3. Counted(0)
  <2>1. seen \in Nat /\ AstWeight[QueueCheck] = 0
    BY <1>0, AstWeights DEF TypeOK
  <2> QED BY <1>1, <2>1 DEF Counted
<1>4. Fresh(a) /\ a.fn \in Plain
  BY FreshKinds DEF Plain
<1>5. FlagsMasked
  BY <1>1 DEF FlagsMasked
<1>6. Quiet(Depth - 1, {a}, 0) /\ stack' # <<>> /\ Top' = a
  <2> HIDE DEF a
  <2> QED BY <1>0, <1>1, <1>2, <1>4, QuietTop DEF Plain
<1>7. ScanDue'
  BY <1>1, <1>6 DEF ScanDue
<1> HIDE DEF a
<1> QED BY <1>1, <1>3, <1>5, <1>6, <1>7, LookedStep

(* ... the calls of the scan, ...                                           *)
LEMMA CallsQuiet ==
    ASSUME DispatchInv, ThenQueue \/ RaiseSyncEnds
    PROVE  DispatchInv'
<1>0. TypeOK
  BY DEF DispatchInv
<1>1. /\ UNCHANGED <<queue, queue_end, asts_enabled, ring, seen, raised, ops, sig_flag, ignore>>
      /\ stack # <<>> /\ Top.fn \in {"Async_raise_signal", "sys_raise_ast"}
      /\ queue_flags' \in {queue_flags, {}}
  BY <1>0 DEF ThenQueue, RaiseSyncEnds, CallScan, pending, pairs, switches, counts, TypeOK, In
<1>2. RestOK'
  BY <1>0, <1>1 DEF ThenQueue, RaiseSyncEnds, pending, counts, switches, RestOK, TypeOK
<1>3. Counted(0) /\ FlagsMasked /\ CheckStays
  BY <1>1 DEF Counted, FlagsMasked, CheckStays
<1>4. Top.fn \in Plain \ {"Do_ast_queue"}
  BY <1>1 DEF Plain
<1>5. ThenQueue => In("Async_raise_signal") /\ Goto("loop") = Append(Popped, Async)
  BY <1>0, AsyncGoto DEF ThenQueue, Async
<1>6. CASE ignore
  <2>1. ~ScanDue /\ NotesKept
    BY <1>6 DEF ScanDue, NotesKept, ThenQueue, RaiseSyncEnds
  <2>2. CASE ThenQueue
    <3>1. Quiet(Depth - 1, {Async}, 0)
      BY <1>0, <1>1, <1>4, <1>5, <1>6, <2>2, FreshKinds, QuietTop DEF ThenQueue
    <3> QED BY <1>1, <1>2, <1>3, <2>1, <3>1, WatchedStep
  <2>3. CASE RaiseSyncEnds
    <3>1. Quiet(Depth - 1, {}, 0)
      BY <1>0, <1>1, <1>4, <1>6, <2>3, QuietPop DEF RaiseSyncEnds
    <3> QED BY <1>1, <1>2, <1>3, <2>1, <3>1, WatchedStep
  <2> QED BY <2>2, <2>3
<1>7. CASE ~ignore /\ ~asts_enabled
  <2>1. CASE ThenQueue
    <3>1. stack' = Append(Popped, Async)
      BY <1>5, <1>7, <2>1 DEF ThenQueue, CallScan
    <3>2. Quiet(Depth - 1, {Async}, 0)
      BY <1>0, <1>1, <1>4, <3>1, FreshKinds, QuietTop
    <3> QED BY <1>1, <1>2, <1>3, <1>7, <3>2, LookedStep
  <2>2. CASE RaiseSyncEnds
    <3>1. stack' = Popped
      BY <1>7, <2>2 DEF RaiseSyncEnds, CallScan
    <3>2. Quiet(Depth - 1, {}, 0)
      BY <1>0, <1>1, <1>4, <3>1, QuietPop
    <3> QED BY <1>1, <1>2, <1>3, <1>7, <3>2, LookedStep
  <2> QED BY <2>1, <2>2
<1>8. CASE ~ignore /\ asts_enabled
  <2>0. \A a : IsScan(Scan(a)) /\ Scan(a).lptr = 0
    BY DEF IsScan, Scan
  <2>1. CASE ThenQueue
    <3>1. stack' = Append(Append(Popped, Async), Scan(TRUE))
      BY <1>5, <1>8, <2>1 DEF ThenQueue, CallScan
    <3>2. Fresh(Scan(TRUE)) /\ Scan(TRUE).fn \in Plain
      BY <1>8, FreshKinds
    <3>3. Quiet(Depth - 1, {Async, Scan(TRUE)}, 0) /\ stack' # <<>> /\ Top' = Scan(TRUE)
      BY <1>0, <1>1, <1>4, <3>1, <3>2, FreshKinds, QuietTopThen
    <3>4. ScanBegins'
      BY <2>0, <3>3 DEF ScanBegins
    <3> QED BY <1>1, <1>2, <1>3, <1>8, <3>3, <3>4, LookedStep
  <2>2. CASE RaiseSyncEnds
    <3>1. stack' = Append(Popped, Scan(FALSE))
      BY <1>8, <2>2 DEF RaiseSyncEnds, CallScan
    <3>2. Fresh(Scan(FALSE)) /\ Scan(FALSE).fn \in Plain
      BY <1>8, FreshKinds
    <3>3. Quiet(Depth - 1, {Scan(FALSE)}, 0) /\ stack' # <<>> /\ Top' = Scan(FALSE)
      BY <1>0, <1>1, <1>4, <3>1, <3>2, QuietTop
    <3>4. ScanBegins'
      BY <2>0, <3>3 DEF ScanBegins
    <3> QED BY <1>1, <1>2, <1>3, <1>8, <3>3, <3>4, LookedStep
  <2> QED BY <2>1, <2>2
<1> QED BY <1>6, <1>7, <1>8

(* ... an external call, ...                                                *)
LEMMA CallExternQuiet ==
    ASSUME DispatchInv, CallExtern
    PROVE  DispatchInv'
<1>0. TypeOK
  BY DEF DispatchInv
<1>1. /\ UNCHANGED <<queue, queue_end, asts_enabled, ring, seen, raised, sig_flag, queue_flags, ignore>>
      /\ ops' = ops + 1 /\ RestOK' /\ stack' = Append(stack, Callback)
      /\ ~In("Add") /\ ~ScanDue
  <2>1. ops' \in 0 .. MaxOp
    BY <1>0, AstQueueAssumption DEF CallExtern, TypeOK
  <2> QED BY <1>0, <2>1 DEF CallExtern, Does, UserCode, pending, pairs, switches, RestOK, TypeOK, In, ScanDue
<1>2. Callback \in Activation /\ FrameWeight[Callback] = 1
  BY FreshKinds, FrameWeights DEF Fresh, Callback
<1>3. Counted(1) /\ FlagsMasked /\ NotesKept /\ CheckStays
  BY <1>1 DEF Counted, FlagsMasked, NotesKept, CheckStays
<1>4. Quiet(Len(stack), {Callback}, 1)
  BY <1>0, <1>1, <1>2, FreshKinds, QuietPush
<1> QED BY <1>1, <1>3, <1>4, WatchedStep

(* ... and the setting of the flag of a signal.                             *)
LEMMA SetSigFlagQuiet ==
    ASSUME Tame, DispatchInv, NEW s \in Sig, NEW v \in BOOLEAN, SetSigFlag(s, v)
    PROVE  DispatchInv'
<1>0. TypeOK
  BY DEF DispatchInv
<1>1. /\ UNCHANGED <<queue, queue_end, asts_enabled, ring, seen, raised>>
      /\ ops' = ops + 1 /\ RestOK' /\ ~In("Add") /\ ~ScanDue
      /\ ignore' = (ignore /\ ~v) /\ sig_flag' = [sig_flag EXCEPT ![s] = v]
  <2>1. ops' \in 0 .. MaxOp
    BY <1>0, AstQueueAssumption DEF SetSigFlag, TypeOK
  <2>2. queue_flags' \in {queue_flags, {}}
    BY DEF SetSigFlag, CallScan
  <2>3. sig_flag' \in [Sig -> BOOLEAN]
    BY <1>0 DEF SetSigFlag, TypeOK
  <2>4. ignore \in BOOLEAN /\ ignore' = (ignore /\ ~v)
    BY <1>0 DEF SetSigFlag, TypeOK
  <2> QED BY <1>0, <2>1, <2>2, <2>3, <2>4
          DEF SetSigFlag, Does, UserCode, pending, pairs, RestOK, TypeOK, In, ScanDue
<1>2. v => stack = <<>>
  BY DEF SetSigFlag, Does, Tame
<1>3. v => Len(stack) = 0
  BY <1>2
<1>4. ~v => FlagsMasked
  BY <1>0, <1>1 DEF FlagsMasked, TypeOK
<1>5. Counted(0) /\ CheckStays
  BY <1>1 DEF Counted, CheckStays
<1>6. CASE ignore'
  <2>1. stack' = stack /\ queue_flags' = queue_flags /\ ~v
    BY <1>1, <1>6 DEF SetSigFlag
  <2>2. Quiet(Len(stack), {}, 0)
    <3>1. Moved(stack, Len(stack), stack, {}, 0) /\ Len(stack) \in Nat
      BY <1>0, MovedNot, LenProperties DEF TypeOK
    <3> QED BY <1>1, <2>1, <3>1 DEF Quiet
  <2> QED BY <1>1, <1>4, <1>5, <2>1, <2>2, WatchedStep DEF NotesKept
<1>7. CASE ~ignore' /\ ~asts_enabled
  <2>1. stack' = stack
    BY <1>7 DEF SetSigFlag, CallScan
  <2>2. Quiet(Len(stack), {}, 0)
    <3>1. Moved(stack, Len(stack), stack, {}, 0) /\ Len(stack) \in Nat
      BY <1>0, MovedNot, LenProperties DEF TypeOK
    <3> QED BY <1>1, <2>1, <3>1 DEF Quiet
  <2> QED BY <1>1, <1>3, <1>4, <1>5, <1>7, <2>2, LookedStep
<1>8. CASE ~ignore' /\ asts_enabled
  <2>1. stack' = Append(stack, Scan(FALSE))
    BY <1>8 DEF SetSigFlag, CallScan
  <2>2. Fresh(Scan(FALSE)) /\ IsScan(Scan(FALSE)) /\ Scan(FALSE).lptr = 0 /\ FrameWeight[Scan(FALSE)] = 0
    <3>1. Fresh(Scan(FALSE))
      BY <1>8, FreshKinds
    <3> QED BY <3>1, FrameWeights DEF Fresh, Scan, IsScan
  <2>3. Quiet(Len(stack), {Scan(FALSE)}, 0) /\ stack' # <<>> /\ Top' = Scan(FALSE)
    BY <1>0, <1>1, <2>1, <2>2, QuietPush
  <2>4. ScanBegins'
    BY <2>2, <2>3 DEF ScanBegins
  <2> QED BY <1>1, <1>3, <1>4, <1>5, <1>8, <2>3, <2>4, LookedStep
<1> QED BY <1>6, <1>7, <1>8

-----------------------------------------------------------------------------
(* What is blocked from below a scan is blocked; ...                        *)
LEMMA BelowBlocked ==
    ASSUME TypeOK, NEW k \in 1 .. Len(stack), NEW x, Below(x, k, stack, sig_flag)
    PROVE  x \notin Never /\ Blocked(x)
<1>1. Len(stack) \in Nat /\ Depth = Len(stack)
  BY LenProperties DEF TypeOK, Depth
<1>2. \A j \in 1 .. k - 1 : j \in 1 .. Depth
  BY <1>1
<1>3. (\E j \in 1 .. k - 1 : stack[j] = Callback) => InCallback
  BY <1>2 DEF InCallback
<1>4. (\E j \in 1 .. k - 1 : Handles(stack[j], x)) => x \in Executing
  BY <1>2 DEF Executing, Handles
<1> QED BY <1>3, <1>4 DEF Below, Blocked, CallbackBlocks, RecursionBlocks

(* ... no scan waits below the ast that is run; ...                         *)
LEMMA RunsNotBelow ==
    ASSUME TypeOK, NEW b, NEW x, MayRun(x, b), NEW k \in 1 .. Len(stack)
    PROVE  ~Below(x, k, stack, sig_flag)
  BY BelowBlocked DEF MayRun

(* ... and what is not run is accounted for.                                *)
LEMMA NotedAccounted ==
    ASSUME NEW x, NEW b, asts_enabled, b \/ ignore, ~MayRun(x, b), Noted(x, b) \subseteq queue_flags',
           InCallback => InCallback', Executing \subseteq Executing', FlagsMasked
    PROVE  x \notin Never /\ Blocked(x) /\ Accounted(x)'
<1>1. x \notin Never /\ Blocked(x)
  BY DEF MayRun
<1>2. CASE x \in Sig
  BY <1>1, <1>2 DEF Blocked, Accounted, FlagsMasked
<1>3. CASE x \notin Sig
  BY <1>1, <1>3 DEF Blocked, Accounted, CallbackBlocks, RecursionBlocks, Noted
<1> QED BY <1>1, <1>2, <1>3

(* The activation that an ast is run in.                                    *)
Started(e) == IF e.item \in Sig THEN Handler(e) ELSE Entering(e)

(* What Raise_astp and Raise_sig do to the stack and the flags.             *)
LEMMA RaiseParts ==
    ASSUME TypeOK, NEW e \in Entry
    PROVE  /\ Started(e) \in Activation /\ Started(e).fn \in {"handler", "Raise_astp"}
           /\ FrameWeight[Started(e)] = 0 /\ \A x : Runs(Started(e), x) => x = e.item
           /\ \A st : Raise(st, e) = Append(st, Started(e))
           /\ RaiseFlags(e) \in [Sig -> BOOLEAN]
           /\ \A s \in Sig : ~sig_flag[s] => ~RaiseFlags(e)[s]
           /\ RunsNow(e) \in [Item -> 0 .. MaxRaise]
<1>1. Started(e) \in Activation
  BY FrameKinds DEF Started
<1>2. Started(e).fn \in {"handler", "Raise_astp"} /\ Started(e).entry = e
  BY DEF Started, Handler, Entering
<1>3. FrameWeight[Started(e)] = 0
  BY <1>1, <1>2, FrameWeights
<1>4. \A st : Raise(st, e) = Append(st, Started(e))
  BY DEF Raise, Started
<1>5. /\ RaiseFlags(e) \in [Sig -> BOOLEAN]
      /\ \A s \in Sig : ~sig_flag[s] => ~RaiseFlags(e)[s]
  BY DEF RaiseFlags, TypeOK
<1>6. e.id \in 0 .. MaxRaise /\ e.item \in Item
  BY AstQueueAssumption DEF Entry
<1>7. RunsNow(e) \in [Item -> 0 .. MaxRaise]
  BY <1>6 DEF RunsNow, TypeOK
<1> QED BY <1>1, <1>2, <1>3, <1>4, <1>5, <1>7 DEF Runs

(* A step that leaves the queue alone, and starts and ends no scan.         *)
LEMMA StackStep ==
    ASSUME DispatchInv, NEW n, NEW F, NEW d \in Int, Moved(stack', n, stack, F, d), Counted(d), RestOK',
           UNCHANGED <<queue, queue_end, asts_enabled>>, ~ScanDue, AddsSound',
           \A i \in n + 1 .. Len(stack) : ~IsClear(stack[i]) /\ ~IsScan(stack[i]),
           \A a \in F : ~IsClear(a) /\ ~IsScan(a),
           \A k \in 1 .. n, x \in Item :
              IsScan(stack[k]) /\ Below(x, k, stack, sig_flag)
                 => (x \in Sig => ~sig_flag'[x]) /\ \A a \in F : ~Runs(a, x),
           \A k \in 1 .. n, x \in Item :
              IsScan(stack[k]) /\ Below(x, k, stack, sig_flag) /\ Accounted(x) => Accounted(x)',
           Watched' => Watched /\ \A x \in Item : Accounted(x) => Accounted(x)'
    PROVE  DispatchInv'
<1>0. TypeOK /\ QueueSound /\ ClearsSound /\ ScansSound /\ IgnoreAccounted /\ Looked /\ CountSound
  BY DEF DispatchInv
<1>1. queue' \in Seq(Entry) /\ queue_end' \in 0 .. MaxRaise /\ Len(queue') \in Nat
  BY <1>0, LenProperties DEF TypeOK
<1>2. TypeOK' /\ CountSound'
  BY <1>0, <1>1, TypesKept
<1>3. QueueSound'
  <2>1. seen' \in Nat /\ seen <= seen'
    BY <1>0, SeenGrows
  <2> QED BY <1>0, <2>1, QueueStays
<1>4. ClearsSound'
  BY <1>0, ClearsKept
<1>5. \A k \in 1 .. n, l \in 1 .. Len(queue) :
         IsScan(stack[k]) /\ (\A i \in 1 .. l : Below(queue[i].item, k, stack, sig_flag))
            => l \in 1 .. Len(queue') /\ \A i \in 1 .. l : queue'[i] = queue[i]
  OBVIOUS
<1>6. ScansSound'
  <2>1. \A k \in n + 1 .. Len(stack') : IsScan(stack'[k]) /\ stack'[k].lptr # 0 => ScanAt(k)'
    BY DEF Moved
  <2> QED BY <1>0, <1>1, <1>5, <2>1, ScansKept
<1>7. IgnoreAccounted'
  <2>1. CASE Watched'
    BY <1>0, <2>1, IgnoreKept
  <2>2. CASE ~Watched'
    BY <2>2 DEF IgnoreAccounted
  <2> QED BY <2>1, <2>2
<1>8. Looked'
  <2>1. \A a \in F : IsScan(a) => a.lptr = 0
    OBVIOUS
  <2> QED BY <1>0, <1>1, <1>3, <1>5, <2>1, LookedKept
<1> QED BY <1>2, <1>3, <1>4, <1>6, <1>7, <1>8 DEF DispatchInv

(* An activation that will look at the queue when it goes on.               *)
Starter(a) ==
    \/ IsScan(a) \/ a.fn = "sys_raise_ast"
    \/ a.fn = "Async_raise_signal" /\ a.pc = "handled"

(* The ast x has come, and is dealt with above the activations st.          *)
Dispatched(x, st, n, F) ==
    /\ Moved(st, n, stack, F, 0) /\ Dispatch(x, st)
    /\ \A i \in n + 1 .. Len(stack) : stack[i].fn = "Async_raise_signal"
    /\ \A a \in F : a.fn \in Plain \ {"Do_ast_queue"}
    /\ Len(st) \in Nat \ {0} /\ Starter(st[Len(st)])
    /\ ~ScanDue /\ ~In("Add") /\ ~In("Raise_astp")
    /\ seen + 1 <= MaxRaise /\ Counted(0) /\ raised' \in 0 .. MaxRaise
    /\ CheckStays
    /\ UNCHANGED <<queue, queue_end, ignore, asts_enabled, disable, trap, ops, cleared>>

(* An ast that is run at once, or on its way to the queue.                  *)
LEMMA DispatchStep ==
    ASSUME DispatchInv, NEW x \in Item, NEW st \in Seq(Activation), NEW n, NEW F,
           Dispatched(x, st, n, F)
    PROVE  DispatchInv'
<1> SUFFICES ASSUME Moved(st, n, stack, F, 0),
                    \A i \in n + 1 .. Len(stack) : stack[i].fn = "Async_raise_signal",
                    \A a \in F : a.fn \in Plain \ {"Do_ast_queue"},
                    ~ScanDue, ~In("Add"), Dispatch(x, st), seen + 1 <= MaxRaise, Counted(0), CheckStays,
                    UNCHANGED <<queue, queue_end, ignore, asts_enabled, disable, trap, ops, cleared>>,
                    raised' \in 0 .. MaxRaise
             PROVE  DispatchInv'
  BY DEF Dispatched
<1> DEFINE e == [item |-> x, id |-> seen + 1]
<1>0. TypeOK /\ QueueSound /\ ClearsSound /\ AddsSound /\ ScansSound /\ IgnoreAccounted /\ Looked /\ CountSound
  BY DEF DispatchInv
<1>1. seen \in Nat /\ seen' = seen + 1 /\ e \in Entry /\ e.item = x /\ e.id = seen + 1
  BY <1>0 DEF TypeOK, Dispatch, Entry
<1>2. \/ /\ MayRun(x, FALSE) /\ stack' = Raise(st, e)
         /\ sig_flag' = RaiseFlags(e) /\ last_run' = RunsNow(e) /\ queue_flags' = queue_flags
      \/ /\ ~MayRun(x, FALSE) /\ stack' = Append(st, Adding(e))
         /\ queue_flags' = queue_flags \cup Noted(x, FALSE)
         /\ sig_flag' = sig_flag /\ last_run' = last_run
  BY DEF Dispatch
<1> HIDE DEF e
<1>3. ASSUME NEW f \in Activation, f.fn \in {"handler", "Raise_astp", "Add"}, FrameWeight[f] = 0,
             stack' = Append(st, f)
      PROVE  /\ Moved(stack', n, stack, F \cup {f}, 0)
             /\ Len(stack') = Len(st) + 1 /\ stack'[Len(st) + 1] = f /\ Len(st) \in Nat
             /\ \A i \in 1 .. Len(st) : stack'[i] = st[i]
             /\ \A i \in 1 .. Len(stack') : i \in 1 .. Len(st) \/ i = Len(stack')
             /\ \A a \in F \cup {f} :
                   /\ ~IsClear(a) /\ ~IsScan(a)
                   /\ \A y : Runs(a, y) => Runs(f, y)
                   /\ a.fn = "Add" => a = f
  <2> DEFINE z == 0
  <2>1. z \in Int /\ z + FrameWeight[f] = 0 /\ Moved(st, n, stack, F, z)
    BY <1>3
  <2> HIDE DEF z
  <2>2. stack \in Seq(Activation)
    BY <1>0 DEF TypeOK
  <2>3. /\ Moved(Append(st, f), n, stack, F \cup {f}, z + FrameWeight[f])
        /\ Len(Append(st, f)) = Len(st) + 1 /\ Append(st, f)[Len(st) + 1] = f
        /\ \A i \in 1 .. Len(st) : Append(st, f)[i] = st[i]
    <3>1. Moved(st, n, stack, F, z)
      BY <2>1
    <3>2. stack \in Seq(Activation) /\ z \in Int
      BY <2>1, <2>2
    <3>3. Moved(Append(st, f), n, stack, F \cup {f}, z + FrameWeight[f])
      BY <3>1, <3>2, MovedPush
    <3>4. /\ Len(Append(st, f)) = Len(st) + 1 /\ Append(st, f)[Len(st) + 1] = f
          /\ \A i \in 1 .. Len(st) : Append(st, f)[i] = st[i]
      BY AppendProperties
    <3> QED BY <3>3, <3>4
  <2>4. Len(st) \in Nat
    BY LenProperties
  <2>5. \A a \in F \cup {f} :
           /\ ~IsClear(a) /\ ~IsScan(a)
           /\ \A y : Runs(a, y) => Runs(f, y)
           /\ a.fn = "Add" => a = f
    BY <1>3 DEF IsClear, IsScan, Runs, Plain
  <2> QED BY <1>3, <2>1, <2>3, <2>4, <2>5
<1>4. ASSUME NEW f \in Activation, f.fn \in {"handler", "Raise_astp", "Add"}, FrameWeight[f] = 0,
             stack' = Append(st, f), FlagsMasked, NotesKept, sig_flag' \in [Sig -> BOOLEAN],
             last_run' \in [Item -> 0 .. MaxRaise], queue_flags' \subseteq {"QC_RECURSIVE", "QC_CALLBACK"},
             \A y : Runs(f, y) => y = x /\ MayRun(x, FALSE),
             f.fn = "Add" => AddsSound'
      PROVE  DispatchInv'
  <2> DEFINE G == F \cup {f}
  <2>1. /\ Moved(stack', n, stack, G, 0)
        /\ \A a \in G : ~IsClear(a) /\ ~IsScan(a) /\ (\A y : Runs(a, y) => Runs(f, y)) /\ (a.fn = "Add" => a = f)
    BY <1>3, <1>4
  <2> HIDE DEF G
  <2>2. RestOK'
    BY <1>0, <1>4 DEF RestOK, TypeOK
  <2>3. \A i \in n + 1 .. Len(stack) : ~IsClear(stack[i]) /\ ~IsScan(stack[i])
    BY DEF IsClear, IsScan
  <2>4. \A k \in 1 .. n, y \in Item :
           IsScan(stack[k]) /\ Below(y, k, stack, sig_flag)
              => (y \in Sig => ~sig_flag'[y]) /\ \A a \in G : ~Runs(a, y)
    <3> SUFFICES ASSUME NEW k \in 1 .. n, NEW y \in Item, Below(y, k, stack, sig_flag)
                 PROVE  (y \in Sig => ~sig_flag'[y]) /\ \A a \in G : ~Runs(a, y)
      OBVIOUS
    <3>1. k \in 1 .. Len(stack)
      BY <1>0, <2>1, MovedParts
    <3>2. \A a \in G : ~Runs(a, y)
      <4> SUFFICES ASSUME NEW a \in G, Runs(a, y)
                   PROVE  FALSE
        OBVIOUS
      <4>1. y = x /\ MayRun(x, FALSE)
        BY <1>4, <2>1
      <4> QED BY <1>0, <3>1, <4>1, RunsNotBelow
    <3>3. y \in Sig => ~sig_flag[y]
      BY DEF Below
    <3> QED BY <1>4, <3>2, <3>3 DEF FlagsMasked
  <2>5. \A y \in Item : Accounted(y) => Accounted(y)'
    BY <1>0, <1>4, <2>1, StaysAccounted
  <2>6. Watched' => Watched
    BY DEF Watched
  <2>7. AddsSound'
    <3>1. CASE f.fn # "Add"
      <4>1. \A a \in G : a.fn # "Add"
        BY <2>1, <3>1
      <4> QED BY <1>0, <2>1, <4>1, NoAdds
    <3> QED BY <1>4, <3>1
  <2>8. 0 \in Int
    OBVIOUS
  <2> QED BY <2>1, <2>2, <2>3, <2>4, <2>5, <2>6, <2>7, <2>8, StackStep
<1>5. CASE /\ MayRun(x, FALSE) /\ stack' = Raise(st, e)
           /\ sig_flag' = RaiseFlags(e) /\ last_run' = RunsNow(e) /\ queue_flags' = queue_flags
  <2> DEFINE f == Started(e)
  <2>1. /\ f \in Activation /\ f.fn \in {"handler", "Raise_astp"} /\ FrameWeight[f] = 0
        /\ stack' = Append(st, f) /\ \A y : Runs(f, y) => y = x
        /\ sig_flag' \in [Sig -> BOOLEAN] /\ FlagsMasked
        /\ last_run' \in [Item -> 0 .. MaxRaise]
    BY <1>0, <1>1, <1>5, RaiseParts DEF FlagsMasked
  <2>2. NotesKept /\ queue_flags' \subseteq {"QC_RECURSIVE", "QC_CALLBACK"}
    BY <1>0, <1>5 DEF NotesKept, TypeOK
  <2> HIDE DEF f
  <2> QED BY <1>4, <1>5, <2>1, <2>2
<1>6. CASE /\ ~MayRun(x, FALSE) /\ stack' = Append(st, Adding(e))
           /\ queue_flags' = queue_flags \cup Noted(x, FALSE)
           /\ sig_flag' = sig_flag /\ last_run' = last_run
  <2> DEFINE f == Adding(e)
  <2>1. f \in Activation /\ f.fn = "Add" /\ f.entry = e
    BY <1>1, FrameKinds DEF Adding
  <2>2. FrameWeight[f] = 0
    BY <2>1, FrameWeights
  <2>3. /\ FlagsMasked /\ NotesKept /\ sig_flag' \in [Sig -> BOOLEAN] /\ last_run' \in [Item -> 0 .. MaxRaise]
        /\ queue_flags' \subseteq {"QC_RECURSIVE", "QC_CALLBACK"} /\ Noted(x, FALSE) \subseteq queue_flags'
    BY <1>0, <1>6 DEF FlagsMasked, NotesKept, TypeOK, Noted
  <2> HIDE DEF f
  <2>4. stack' = Append(st, f)
    BY <1>6 DEF f
  <2>5. AddsSound'
    <3>1. /\ Moved(stack', n, stack, F \cup {f}, 0)
          /\ Len(stack') = Len(st) + 1 /\ stack'[Len(st) + 1] = f /\ Len(st) \in Nat
          /\ \A i \in 1 .. Len(st) : stack'[i] = st[i]
          /\ \A i \in 1 .. Len(stack') : i \in 1 .. Len(st) \/ i = Len(stack')
      BY <1>3, <2>1, <2>2, <2>4
    <3>2. \A i \in 1 .. Len(st) : st[i].fn # "Add"
      <4> SUFFICES ASSUME NEW i \in 1 .. Len(st), st[i].fn = "Add"
                   PROVE  FALSE
        OBVIOUS
      <4>1. n \in Nat /\ (i \in 1 .. n \/ i \in n + 1 .. Len(st))
        BY <3>1 DEF Moved
      <4>2. i \in 1 .. n /\ st[i] = stack[i] /\ i \in 1 .. Len(stack)
        <5>1. i \in 1 .. n
          BY <4>1 DEF Moved, Plain
        <5>2. i \in 1 .. Len(stack)
          BY <1>0, <3>1, <5>1, MovedParts
        <5> QED BY <5>1, <5>2 DEF Moved
      <4> QED BY <1>0, <4>2, AddOnTop
    <3>3. \A j \in 1 .. Len(queue) : queue[j].id # seen + 1
      <4>1. \A j \in 1 .. Len(queue) : queue[j].id \in Nat /\ queue[j].id <= seen
        BY <1>0, EntryFields DEF TypeOK, QueueSound
      <4> QED BY <1>1, <4>1
    <3>4. Watched => x \notin Never /\ Accounted(x)'
      <4>1. \A i \in n + 1 .. Len(stack) : stack[i].fn \notin {"handler", "callback"}
        OBVIOUS
      <4>2. (InCallback => InCallback') /\ Executing \subseteq Executing'
        BY <1>0, <3>1, <4>1, ContextStays
      <4> QED BY <1>6, <2>3, <4>2, NotedAccounted DEF Watched
    <3>5. x \notin Never
      BY <1>6 DEF MayRun
    <3> SUFFICES ASSUME NEW i \in 1 .. Len(stack'), stack'[i].fn = "Add"
                 PROVE  /\ i = Len(stack')
                        /\ stack'[i].entry.id <= seen'
                        /\ \A j \in 1 .. Len(queue') : queue'[j].id # stack'[i].entry.id
                        /\ stack'[i].entry.item \notin Never
                        /\ Watched' => Accounted(stack[i].entry.item)'
      BY DEF AddsSound
    <3>6. i = Len(stack') /\ stack'[i] = f
      BY <3>1, <3>2
    <3>7. stack'[i].entry = e
      BY <2>1, <3>6
    <3>8. Watched' => Accounted(stack[i].entry.item)'
      <4>1. PICK y : y = x
        OBVIOUS
      <4>2. Watched' => Accounted(y)'
        BY <3>4, <4>1 DEF Watched
      <4> QED BY <1>1, <3>7, <4>1, <4>2
    <3> QED BY <1>1, <3>3, <3>5, <3>6, <3>7, <3>8
  <2>6. \A y : ~Runs(f, y)
    BY <2>1 DEF Runs
  <2> QED BY <1>4, <2>1, <2>2, <2>3, <2>4, <2>5, <2>6
<1> QED BY <1>2, <1>5, <1>6

-----------------------------------------------------------------------------
(* An ast is dealt with when it is taken from the ring, ...                 *)
LEMMA TakeAstParts ==
    ASSUME DispatchInv, TakeAst
    PROVE  \E x \in Item, st \in Seq(Activation), n \in Nat, F \in SUBSET Activation :
              Dispatched(x, st, n, F)
<1>0. TypeOK /\ CountSound
  BY DEF DispatchInv
<1> DEFINE a == [fn |-> "Async_raise_signal", pc |-> "handled"]  x == Head(ring)  st == Append(Popped, a)
<1>1. /\ stack # <<>> /\ Top.fn = "Async_raise_signal" /\ Top.pc = "loop"
      /\ ring # <<>> /\ ring' = Tail(ring) /\ trap' = trap /\ x # QueueCheck
      /\ Dispatch(x, Goto("handled"))
      /\ UNCHANGED <<queue, queue_end, ignore, asts_enabled, disable, raised, ops, cleared>>
  BY DEF TakeAst, Ring!Take, pairs, In
<1>2. Goto("handled") = st /\ a \in Activation
  BY <1>0, <1>1, AsyncGoto DEF In
<1>3. x \in Item
  <2>1. x \in Item \cup {QueueCheck}
    BY <1>0, <1>1, HeadTailProperties DEF TypeOK
  <2> QED BY <1>1, <2>1
<1>4. seen + 1 <= MaxRaise /\ Counted(0)
  <2>1. PICK asts : Total(AstWeight, ring, asts) /\ seen + asts <= raised
    BY <1>0 DEF CountSound
  <2>2. ring \in Seq(Item \cup {QueueCheck}) /\ Tail(ring) \in Seq(Item \cup {QueueCheck})
    BY <1>0, <1>1, HeadTailProperties DEF TypeOK
  <2>3. Total(AstWeight, Tail(ring), asts - AstWeight[x])
    BY <1>1, <2>1, <2>2, AstWeights, TotalTail
  <2>4. AstWeight[x] = 1
    BY <1>3, AstWeights
  <2>5. asts \in Nat /\ asts - 1 \in Nat
    BY <2>1, <2>2, <2>3, <2>4, AstWeights, TotalNat
  <2>6. seen \in Nat /\ raised \in Nat /\ raised <= MaxRaise /\ MaxRaise \in Nat
    BY <1>0, AstQueueAssumption DEF TypeOK
  <2>7. seen + 1 <= MaxRaise
    BY <2>1, <2>5, <2>6
  <2>8. seen' = seen + AstWeight[Head(ring)]
    BY <1>1, <2>4 DEF Dispatch
  <2> QED BY <1>1, <2>7, <2>8 DEF Counted
<1>5. CheckStays
  <2>1. /\ Len(ring) \in Nat /\ Len(Tail(ring)) = Len(ring) - 1 /\ Head(ring) = ring[1]
        /\ \A i \in 1 .. Len(Tail(ring)) : Tail(ring)[i] = ring[i + 1]
    BY <1>0, <1>1, HeadTailProperties, LenProperties DEF TypeOK
  <2> SUFFICES ASSUME NEW i \in 1 .. Len(ring), ring[i] = QueueCheck
               PROVE  \E j \in 1 .. Len(ring') : ring'[j] = QueueCheck
    BY DEF CheckStays
  <2>2. i # 1 /\ i - 1 \in 1 .. Len(Tail(ring)) /\ (i - 1) + 1 = i
    BY <1>1, <2>1
  <2>3. Tail(ring)[i - 1] = QueueCheck
    BY <2>1, <2>2
  <2> QED BY <1>1, <2>2, <2>3
<1>6. /\ st \in Seq(Activation) /\ Moved(st, Depth - 1, stack, {a}, 0)
      /\ \A i \in (Depth - 1) + 1 .. Len(stack) : stack[i].fn = "Async_raise_signal"
  <2>1. a.fn = "Async_raise_signal"
    OBVIOUS
  <2> HIDE DEF a
  <2>2. /\ Append(Popped, a) \in Seq(Activation)
        /\ Moved(Append(Popped, a), Depth - 1, stack, {a}, FrameWeight[a] - FrameWeight[Top])
    BY <1>0, <1>1, <1>2, TopBecomes
  <2>3. FrameWeight[a] = 0 /\ FrameWeight[Top] = 0
    BY <1>0, <1>1, <1>2, <2>1, TopTyped, FrameWeights
  <2>4. Moved(Append(Popped, a), Depth - 1, stack, {a}, 0)
    BY <2>2, <2>3
  <2>5. \A i \in (Depth - 1) + 1 .. Len(stack) : stack[i].fn = "Async_raise_signal"
    BY <1>0, <1>1, OnlyTop
  <2> QED BY <2>2, <2>4, <2>5
<1>7. (\A b \in {a} : b.fn \in Plain \ {"Do_ast_queue"}) /\ Starter(a)
  BY DEF Plain, Starter
<1>8. ~ScanDue /\ ~In("Add") /\ ~In("Raise_astp") /\ raised' \in 0 .. MaxRaise
  BY <1>0, <1>1 DEF ScanDue, In, TypeOK
<1>9. Dispatch(x, st)
  BY <1>1, <1>2
<1> HIDE DEF a
<1>10. Len(st) \in Nat \ {0} /\ Starter(st[Len(st)]) /\ Depth - 1 \in Nat /\ {a} \in SUBSET Activation
  <2>1. Len(st) = Depth /\ st[Depth] = a /\ Depth \in Nat \ {0}
    BY <1>0, <1>1, <1>2, TopBecomes, TopTyped
  <2> HIDE DEF st
  <2> QED BY <1>2, <1>7, <2>1
<1> HIDE DEF x, st
<1> DEFINE n == Depth - 1  F == {a}
<1>11. n \in Nat /\ F \in SUBSET Activation /\ x \in Item /\ st \in Seq(Activation)
  BY <1>3, <1>6, <1>10
<1>12. Dispatched(x, st, n, F)
  BY <1>1, <1>4, <1>5, <1>6, <1>7, <1>8, <1>9, <1>10 DEF Dispatched
<1> HIDE DEF n, F
<1> QED BY <1>11, <1>12

(* ... and when user code raises it.                                        *)
LEMMA RaiseSyncParts ==
    ASSUME DispatchInv, NEW x \in Item, RaiseSync(x)
    PROVE  \E st \in Seq(Activation), n \in Nat, F \in SUBSET Activation : Dispatched(x, st, n, F)
<1>0. TypeOK /\ CountSound
  BY DEF DispatchInv
<1> DEFINE st == Append(stack, Sync)
<1>1. /\ UserCode /\ raised < MaxRaise /\ raised' = raised + 1 /\ ring' = ring /\ trap' = trap
      /\ Dispatch(x, st)
      /\ UNCHANGED <<queue, queue_end, ignore, asts_enabled, disable, ops, cleared>>
  BY DEF RaiseSync, Does, pending, pairs
<1>2. Sync \in Activation /\ Sync.fn = "sys_raise_ast"
  BY FrameKinds DEF Sync
<1>3. FrameWeight[Sync] = 0
  BY <1>2, FrameWeights
<1>4. Moved(st, Len(stack), stack, {Sync}, 0) /\ Len(stack) \in Nat
  BY <1>0, <1>2, <1>3, Pushed
<1>5. st \in Seq(Activation) /\ \A i \in Len(stack) + 1 .. Len(stack) : stack[i].fn = "Async_raise_signal"
  BY <1>4 DEF Moved
<1>6. (\A b \in {Sync} : b.fn \in Plain \ {"Do_ast_queue"}) /\ Starter(Sync)
  BY <1>2 DEF Plain, Starter
<1>7. ~ScanDue /\ ~In("Add") /\ ~In("Raise_astp")
  BY <1>1 DEF UserCode, In, ScanDue
<1>8. raised \in Nat /\ MaxRaise \in Nat /\ seen \in Nat /\ seen <= raised
  BY <1>0, AstQueueAssumption DEF TypeOK
<1>9. seen + 1 <= MaxRaise /\ raised' \in 0 .. MaxRaise
  BY <1>1, <1>8
<1>10. Counted(0)
  BY <1>1 DEF Counted, Dispatch
<1>11. CheckStays
  BY <1>1 DEF CheckStays
<1>12. Len(st) \in Nat \ {0} /\ Starter(st[Len(st)])
  <2>1. Len(st) = Len(stack) + 1 /\ st[Len(stack) + 1] = Sync
    BY <1>0, <1>2, Pushed
  <2> HIDE DEF st
  <2> QED BY <1>4, <1>6, <2>1
<1> HIDE DEF st
<1> DEFINE n == Len(stack)  F == {Sync}
<1>13. n \in Nat /\ F \in SUBSET Activation
  BY <1>2, <1>4
<1>14. Dispatched(x, st, n, F)
  BY <1>1, <1>4, <1>5, <1>6, <1>7, <1>9, <1>10, <1>11, <1>12 DEF Dispatched
<1> HIDE DEF n, F
<1> QED BY <1>5, <1>13, <1>14

(* ... an ast that is dealt with, ...                                       *)
LEMMA DispatchesStep ==
    ASSUME DispatchInv, TakeAst \/ \E x \in Item : RaiseSync(x)
    PROVE  DispatchInv'
  BY TakeAstParts, RaiseSyncParts, DispatchStep

(* ... a handler that is entered, ...                                       *)
LEMMA EnterStep ==
    ASSUME DispatchInv, Enter
    PROVE  DispatchInv'
<1>0. TypeOK /\ AddsSound
  BY DEF DispatchInv
<1> DEFINE f == Handler(Top.entry)  n == Depth - 1
<1>1. /\ stack # <<>> /\ Top.fn = "Raise_astp" /\ stack' = Append(Popped, f)
      /\ last_run' = [last_run EXCEPT ![Top.entry.item] = Top.entry.id]
      /\ UNCHANGED <<ring, trap, queue, queue_end, ignore, queue_flags, asts_enabled, disable, sig_flag,
                     raised, seen, ops, cleared>>
  BY DEF Enter, In, pending, pairs, switches, counts
<1>2. Top \in Activation /\ Top.entry \in Entry
  BY <1>0, <1>1, TopTyped, FrameFields
<1>3. /\ f \in Activation /\ f.fn = "handler" /\ f.entry = Top.entry
      /\ ~IsClear(f) /\ ~IsScan(f)
  BY <1>2, FrameKinds DEF Handler, IsClear, IsScan
<1>4. FrameWeight[f] = 0 /\ FrameWeight[Top] = 0
  BY <1>1, <1>2, <1>3, FrameWeights
<1> HIDE DEF f
<1>5. Moved(stack', n, stack, {f}, 0)
  <2>1. Moved(Append(Popped, f), n, stack, {f}, FrameWeight[f] - FrameWeight[Top])
    BY <1>0, <1>1, <1>3, TopBecomes
  <2> HIDE DEF n
  <2> QED BY <1>1, <1>4, <2>1
<1>6. \A i \in n + 1 .. Len(stack) : i = Depth /\ stack[i] = Top
  BY <1>0, <1>1, OnlyTop
<1>7. /\ Depth \in Nat \ {0} /\ Len(stack) = Depth /\ stack[Len(stack)] = Top
      /\ \A k \in 1 .. n : k \in 1 .. Len(stack) /\ Len(stack) \in k + 1 .. Len(stack)
  BY <1>0, <1>1, TopTyped
<1>8. RestOK'
  <2>1. Top.entry.id \in 0 .. MaxRaise
    BY <1>2, AstQueueAssumption DEF Entry
  <2>2. last_run' \in [Item -> 0 .. MaxRaise]
    BY <1>0, <1>1, <2>1 DEF TypeOK
  <2> QED BY <1>0, <1>1, <2>2 DEF RestOK, TypeOK
<1>9. Counted(0) /\ FlagsMasked /\ NotesKept /\ CheckStays /\ (Watched' => Watched)
  BY <1>1 DEF Counted, FlagsMasked, NotesKept, CheckStays, Watched
<1>10. ~ScanDue
  BY <1>1 DEF ScanDue
<1>11. \A x \in Item : Accounted(x) => Accounted(x)'
  <2>1. \A i \in n + 1 .. Len(stack) : stack[i].fn \notin {"handler", "callback"}
    BY <1>1, <1>6
  <2> HIDE DEF n
  <2> QED BY <1>0, <1>5, <1>9, <2>1, StaysAccounted
<1>12. AddsSound'
  <2>1. n < Len(stack) /\ \A a \in {f} : a.fn # "Add"
    BY <1>3, <1>7
  <2> HIDE DEF n
  <2> QED BY <1>0, <1>5, <2>1, NoAdds
<1>13. \A k \in 1 .. n, x \in Item :
          IsScan(stack[k]) /\ Below(x, k, stack, sig_flag)
             => (x \in Sig => ~sig_flag'[x]) /\ \A a \in {f} : ~Runs(a, x)
  <2> SUFFICES ASSUME NEW k \in 1 .. n, NEW x \in Item, Below(x, k, stack, sig_flag)
               PROVE  (x \in Sig => ~sig_flag'[x]) /\ ~Runs(f, x)
    OBVIOUS
  <2>1. ~Runs(Top, x)
    BY <1>7 DEF Below
  <2>2. ~Runs(f, x)
    BY <1>1, <1>3, <2>1 DEF Runs
  <2> QED BY <1>1, <2>2 DEF Below
<1>14. /\ \A i \in n + 1 .. Len(stack) : ~IsClear(stack[i]) /\ ~IsScan(stack[i])
       /\ \A a \in {f} : ~IsClear(a) /\ ~IsScan(a)
  BY <1>1, <1>3, <1>6 DEF IsClear, IsScan
<1>15. 0 \in Int
  OBVIOUS
<1> HIDE DEF n
<1> QED BY <1>1, <1>5, <1>8, <1>9, <1>10, <1>11, <1>12, <1>13, <1>14, <1>15, StackStep

(* ... a handler that returns, ...                                          *)
LEMMA HandlerReturnStep ==
    ASSUME DispatchInv, AstpReturns \/ SigReturns
    PROVE  DispatchInv'
<1>0. TypeOK /\ AddsSound
  BY DEF DispatchInv
<1> DEFINE n == Depth - 1  y == Top.entry.item
<1>1. /\ stack # <<>> /\ Top.fn = "handler" /\ stack' = Popped
      /\ UNCHANGED <<ring, trap, queue, queue_end, queue_flags, asts_enabled, disable,
                     raised, seen, ops, cleared, last_run>>
      /\ \A s \in Sig : s # y => sig_flag'[s] = sig_flag[s]
      /\ sig_flag' \in [Sig -> BOOLEAN] /\ ignore' \in BOOLEAN
      /\ ignore' => ignore /\ y \notin Sig /\ "QC_RECURSIVE" \notin queue_flags
  <2>1. CASE AstpReturns
    BY <1>0, <2>1, AstQueueAssumption DEF AstpReturns, In, pending, pairs, switches, counts, TypeOK
  <2>2. CASE SigReturns
    BY <1>0, <2>2 DEF SigReturns, In, pending, pairs, switches, counts, TypeOK
  <2> QED BY <2>1, <2>2
<1>2. Top \in Activation /\ FrameWeight[Top] = 0
  BY <1>0, <1>1, TopTyped, FrameWeights
<1>3. Moved(stack', n, stack, {}, 0)
  BY <1>0, <1>1, <1>2, TopTyped
<1>4. \A i \in n + 1 .. Len(stack) : i = Depth /\ stack[i] = Top
  BY <1>0, <1>1, OnlyTop
<1>5. /\ Depth \in Nat \ {0} /\ Len(stack) = Depth /\ stack[Len(stack)] = Top
      /\ \A k \in 1 .. n : k \in 1 .. Len(stack) /\ Len(stack) \in k + 1 .. Len(stack)
      /\ \A k \in 1 .. Len(stack) : k \in 1 .. n \/ k = Len(stack)
      /\ \A k \in 1 .. n : stack'[k] = stack[k] /\ k \in 1 .. Len(stack')
  <2>1. /\ Depth \in Nat \ {0} /\ Len(stack) = Depth /\ stack[Len(stack)] = Top
    BY <1>0, <1>1, TopTyped
  <2>2. \A k \in 1 .. n : stack'[k] = stack[k] /\ k \in 1 .. Len(stack')
    <3> HIDE DEF n
    <3> QED BY <1>0, <1>3, MovedParts
  <2> QED BY <2>1, <2>2
<1>6. RestOK' /\ Counted(0)
  BY <1>0, <1>1 DEF RestOK, TypeOK, Counted
<1>7. ~ScanDue
  BY <1>1 DEF ScanDue
<1>8. AddsSound'
  <2>1. n < Len(stack)
    BY <1>5
  <2> HIDE DEF n
  <2> QED BY <1>0, <1>3, <2>1, NoAdds
<1>9. /\ InCallback => InCallback'
      /\ \A x \in Executing : x # y => x \in Executing'
  <2>1. InCallback => InCallback'
    <3> SUFFICES ASSUME NEW i \in 1 .. Len(stack), stack[i] = Callback
                 PROVE  InCallback'
      BY DEF InCallback, Depth
    <3>1. i \in 1 .. n
      BY <1>1, <1>5 DEF Callback
    <3> QED BY <1>5, <3>1 DEF InCallback, Depth
  <2>2. ASSUME NEW x \in Executing, x # y
        PROVE  x \in Executing'
    <3>1. PICK i \in 1 .. Len(stack) : stack[i].fn = "handler" /\ stack[i].entry.item = x
      BY DEF Executing, Depth
    <3>2. i \in 1 .. n
      BY <1>5, <2>2, <3>1
    <3>3. i \in 1 .. Len(stack') /\ stack'[i].fn = "handler" /\ stack'[i].entry.item = x
      BY <1>5, <3>1, <3>2
    <3> QED BY <3>3 DEF Executing, Depth
  <2> QED BY <2>1, <2>2
<1>10. \A x \in Item : x # y /\ Accounted(x) => Accounted(x)'
  BY <1>1, <1>9 DEF Accounted
<1>11. Watched' => Watched /\ \A x \in Item : Accounted(x) => Accounted(x)'
  <2> SUFFICES ASSUME ignore'
               PROVE  (Watched' => Watched) /\ \A x \in Item : Accounted(x) => Accounted(x)'
    BY DEF Watched
  <2>1. ignore /\ y \notin Sig /\ "QC_RECURSIVE" \notin queue_flags
    BY <1>1
  <2> QED BY <1>1, <1>9, <2>1 DEF Watched, Accounted
<1>12. \A k \in 1 .. n, x \in Item : IsScan(stack[k]) /\ Below(x, k, stack, sig_flag) => x # y
  BY <1>1, <1>5 DEF Below, Runs
<1>13. \A k \in 1 .. n, x \in Item :
          IsScan(stack[k]) /\ Below(x, k, stack, sig_flag)
             => (x \in Sig => ~sig_flag'[x]) /\ \A a \in {} : ~Runs(a, x)
  BY <1>1, <1>12 DEF Below
<1>14. \A k \in 1 .. n, x \in Item :
          IsScan(stack[k]) /\ Below(x, k, stack, sig_flag) /\ Accounted(x) => Accounted(x)'
  BY <1>10, <1>12
<1>15. \A i \in n + 1 .. Len(stack) : ~IsClear(stack[i]) /\ ~IsScan(stack[i])
  BY <1>1, <1>4 DEF IsClear, IsScan
<1>16. 0 \in Int
  OBVIOUS
<1> HIDE DEF n, y
<1> QED BY <1>1, <1>3, <1>6, <1>7, <1>8, <1>11, <1>13, <1>14, <1>15, <1>16, StackStep

(* ... and an external call that returns.                                   *)
LEMMA CallbackReturnStep ==
    ASSUME DispatchInv, CallbackReturns
    PROVE  DispatchInv'
<1>0. TypeOK /\ CountSound /\ AddsSound
  BY DEF DispatchInv
<1> DEFINE n == Depth - 1  d == 0 - 1
<1>1. /\ stack # <<>> /\ Top.fn = "callback" /\ stack' = Popped
      /\ UNCHANGED <<queue, queue_end, ignore, queue_flags, asts_enabled, disable, sig_flag,
                     raised, seen, ops, cleared, last_run>>
  BY DEF CallbackReturns, In, pairs, switches, counts
<1>2. Top \in Activation /\ FrameWeight[Top] = 1
  BY <1>0, <1>1, TopTyped, FrameWeights
<1>3. Moved(stack', n, stack, {}, d)
  BY <1>0, <1>1, <1>2, TopTyped
<1>4. \A i \in n + 1 .. Len(stack) : i = Depth /\ stack[i] = Top
  BY <1>0, <1>1, OnlyTop
<1>5. /\ Depth \in Nat \ {0} /\ Len(stack) = Depth /\ stack[Len(stack)] = Top
      /\ \A k \in 1 .. Len(stack) : k \in 1 .. n \/ k = Len(stack)
      /\ \A k \in 1 .. n : stack'[k] = stack[k] /\ k \in 1 .. Len(stack')
  <2>1. /\ Depth \in Nat \ {0} /\ Len(stack) = Depth /\ stack[Len(stack)] = Top
    BY <1>0, <1>1, TopTyped
  <2>2. \A k \in 1 .. n : stack'[k] = stack[k] /\ k \in 1 .. Len(stack')
    <3> HIDE DEF n, d
    <3> QED BY <1>0, <1>3, MovedParts
  <2> QED BY <2>1, <2>2
<1>6. \/ "QC_CALLBACK" \in queue_flags /\ ring' = Append(ring, QueueCheck) /\ trap' = TRUE
      \/ ~("QC_CALLBACK" \in queue_flags /\ Outermost) /\ ring' = ring /\ trap' = trap
  <2>1. CASE "QC_CALLBACK" \in queue_flags /\ Outermost
    <3>1. Ring!Arrive(QueueCheck)
      BY <2>1 DEF CallbackReturns
    <3>2. ring' = Append(ring, QueueCheck)
      BY <1>0, <1>1, <1>2, <3>1, RingHasRoom
    <3> QED BY <2>1, <3>1, <3>2 DEF Ring!Arrive
  <2>2. CASE ~("QC_CALLBACK" \in queue_flags /\ Outermost)
    BY <2>2 DEF CallbackReturns, pending
  <2> QED BY <2>1, <2>2
<1>7. RestOK' /\ Counted(d)
  <2>1. d <= -1 /\ d <= 0
    OBVIOUS
  <2>2. trap' \in BOOLEAN
    BY <1>0, <1>6 DEF TypeOK
  <2> HIDE DEF d
  <2> QED BY <1>0, <1>1, <1>6, <2>1, <2>2 DEF RestOK, TypeOK, Counted
<1>8. ~ScanDue
  BY <1>1 DEF ScanDue
<1>9. AddsSound'
  <2>1. n < Len(stack)
    BY <1>5
  <2> HIDE DEF n, d
  <2> QED BY <1>0, <1>3, <2>1, NoAdds
<1>10. Executing \subseteq Executing'
  <2> SUFFICES ASSUME NEW x \in Executing
               PROVE  x \in Executing'
    OBVIOUS
  <2>1. PICK i \in 1 .. Len(stack) : stack[i].fn = "handler" /\ stack[i].entry.item = x
    BY DEF Executing, Depth
  <2>2. i \in 1 .. n
    BY <1>1, <1>5, <2>1
  <2>3. i \in 1 .. Len(stack') /\ stack'[i].fn = "handler" /\ stack'[i].entry.item = x
    BY <1>5, <2>1, <2>2
  <2> QED BY <2>3 DEF Executing, Depth
<1>11. CheckStays /\ ("QC_CALLBACK" \in queue_flags /\ InCallback
                        => InCallback' \/ \E i \in 1 .. Len(ring') : ring'[i] = QueueCheck)
  <2>1. ring \in Seq(Item \cup {QueueCheck}) /\ QueueCheck \in Item \cup {QueueCheck}
    BY <1>0 DEF TypeOK
  <2>2. CASE ring' = Append(ring, QueueCheck)
    <3>1. /\ Len(ring) \in Nat /\ Len(ring') = Len(ring) + 1 /\ ring'[Len(ring) + 1] = QueueCheck
      BY <2>1, <2>2, AppendProperties, LenProperties
    <3>2. \E i \in 1 .. Len(ring') : ring'[i] = QueueCheck
      BY <3>1
    <3> QED BY <3>2 DEF CheckStays
  <2>3. CASE ring' = ring /\ ~("QC_CALLBACK" \in queue_flags /\ Outermost)
    <3>1. ~Outermost => InCallback'
      BY <1>5 DEF Outermost, InCallback, Depth
    <3> QED BY <2>3, <3>1 DEF CheckStays
  <2> QED BY <1>6, <2>2, <2>3
<1>12. \A x \in Item : Accounted(x) => Accounted(x)'
  BY <1>1, <1>10, <1>11 DEF Accounted, CheckStays
<1>13. \A k \in 1 .. n, x \in Item :
          IsScan(stack[k]) /\ Below(x, k, stack, sig_flag)
             => (x \in Sig => ~sig_flag'[x]) /\ \A a \in {} : ~Runs(a, x)
  BY <1>1 DEF Below
<1>14. \A i \in n + 1 .. Len(stack) : ~IsClear(stack[i]) /\ ~IsScan(stack[i])
  BY <1>1, <1>4 DEF IsClear, IsScan
<1>15. (Watched' => Watched) /\ d \in Int
  BY <1>1 DEF Watched
<1> HIDE DEF n, d
<1> QED BY <1>1, <1>3, <1>7, <1>8, <1>9, <1>12, <1>13, <1>14, <1>15, StackStep

-----------------------------------------------------------------------------
(* The places on the queue. *)

(* The numbers of the entries tell their places.                            *)
LEMMA PositionOf ==
    ASSUME TypeOK, QueueSound, NEW i \in 1 .. Len(queue)
    PROVE  Position(queue[i].id) = i
<1>1. DOMAIN queue = 1 .. Len(queue)
  BY LenProperties DEF TypeOK
<1> QED BY <1>1 DEF Position, QueueSound

(* The queue is all that is reached up to its end.                          *)
LEMMA UpToEnd ==
    ASSUME TypeOK, QueueSound
    PROVE  UpTo(queue_end) = queue
<1>1. queue \in Seq(Entry) /\ Len(queue) \in Nat
  BY LenProperties DEF TypeOK
<1>2. CASE Len(queue) = 0
  BY <1>1, <1>2, EmptySeq DEF UpTo, QueueSound
<1>3. CASE Len(queue) # 0
  <2>1. Len(queue) \in 1 .. Len(queue)
    BY <1>1, <1>3
  <2>2. queue_end = queue[Len(queue)].id /\ queue_end # 0
    BY <1>1, <1>3, <2>1, EntryFields DEF QueueSound
  <2>3. UpTo(queue_end) = SubSeq(queue, 1, Len(queue))
    BY <2>1, <2>2, PositionOf DEF UpTo
  <2> DEFINE u == SubSeq(queue, 1, Len(queue))
  <2>4. u \in Seq(Entry) /\ Len(u) = Len(queue) /\ \A i \in 1 .. Len(queue) : u[i] = queue[i]
    <3>1. \A i \in 1 .. Len(queue) : queue[i] \in Entry
      BY <1>1, ElementOfSeq
    <3>2. /\ u \in Seq(Entry) /\ Len(u) = IF 1 <= Len(queue) THEN Len(queue) - 1 + 1 ELSE 0
          /\ \A i \in 1 .. Len(queue) - 1 + 1 : u[i] = queue[1 + i - 1]
      BY <1>1, <3>1, SubSeqProperties
    <3> HIDE DEF u
    <3> QED BY <1>1, <1>3, <3>2
  <2> HIDE DEF u
  <2>5. u = queue
    BY <1>1, <2>4, SeqEqual
  <2> QED BY <2>3, <2>5 DEF u
<1> QED BY <1>2, <1>3

(* Where the scan on top of the stack is, and what it has passed.           *)
LEMMA ScanPlace ==
    ASSUME DispatchInv, In("Do_ast_queue")
    PROVE  /\ asts_enabled /\ ~ScanDue
           /\ Place \in Nat \ {0} /\ Place - 1 \in 0 .. Len(queue)
           /\ Top.lptr = IF Place = 1 THEN 0 ELSE queue[Place - 1].id
           /\ \A i \in 1 .. Place - 1 :
                 Below(queue[i].item, Depth, stack, sig_flag) /\ Accounted(queue[i].item)
<1>0. TypeOK /\ QueueSound /\ ScansSound /\ ClearsSound /\ Looked
  BY DEF DispatchInv
<1>1. /\ stack # <<>> /\ Top.fn = "Do_ast_queue" /\ Depth \in Nat \ {0} /\ Depth = Len(stack)
      /\ Top = stack[Depth] /\ Depth \in 1 .. Len(stack) /\ IsScan(stack[Depth])
      /\ Len(queue) \in Nat /\ queue \in Seq(Entry)
  <2>1. stack # <<>> /\ Top.fn = "Do_ast_queue"
    BY DEF In
  <2>2. Depth \in Nat \ {0} /\ Depth = Len(stack) /\ Top = stack[Len(stack)]
    BY <1>0, <2>1, TopTyped
  <2>3. Len(queue) \in Nat /\ queue \in Seq(Entry)
    BY <1>0, LenProperties DEF TypeOK
  <2> QED BY <2>1, <2>2, <2>3 DEF IsScan
<1>2. asts_enabled
  <2> SUFFICES ASSUME NEW i \in 1 .. Len(stack), IsClear(stack[i])
               PROVE  FALSE
    BY <1>0 DEF ClearsSound
  <2>1. i # Depth
    BY <1>1 DEF IsClear, IsScan
  <2>2. Depth \in i + 1 .. Len(stack)
    BY <1>1, <2>1
  <2> QED BY <1>0, <1>1, <2>2 DEF ClearsSound
<1>3. ~ScanDue
  BY <1>1 DEF ScanDue
<1>4. CASE Top.lptr = 0
  <2>1. Place = 1
    BY <1>4 DEF Place
  <2> QED BY <1>1, <1>2, <1>3, <1>4, <2>1
<1>5. CASE Top.lptr # 0
  <2>1. PICK l \in 1 .. Len(queue) :
           /\ queue[l].id = Top.lptr
           /\ \A i \in 1 .. l : Below(queue[i].item, Depth, stack, sig_flag)
    BY <1>0, <1>1, <1>5 DEF ScansSound, ScanAt
  <2>2. Place = l + 1
    BY <1>0, <1>5, <2>1, PositionOf DEF Place
  <2>3. Innermost(Depth)
    BY <1>1 DEF Innermost
  <2>4. \A i \in 1 .. l : Accounted(queue[i].item)
    BY <1>0, <1>1, <1>2, <1>3, <2>1, <2>3 DEF Looked
  <2>5. l \in Nat \ {0} /\ (l + 1) - 1 = l /\ l + 1 # 1
    BY <1>1
  <2> QED BY <1>1, <1>2, <1>3, <2>1, <2>2, <2>4, <2>5
<1> QED BY <1>4, <1>5

(* What blocks x, of what is below the scan on top, blocks it for the scan. *)
LEMMA BlockedBelow ==
    ASSUME TypeOK, In("Do_ast_queue"), NEW x, x \notin Never, Blocked(x)
    PROVE  Below(x, Depth, stack, sig_flag)
<1>1. /\ Depth \in Nat \ {0} /\ Depth = Len(stack) /\ stack[Depth].fn = "Do_ast_queue"
      /\ \A j \in Depth + 1 .. Len(stack) : FALSE
      /\ \A j \in 1 .. Depth : stack[j].fn # "Do_ast_queue" => j \in 1 .. Depth - 1
  BY TopTyped DEF In
<1>2. InCallback => \E j \in 1 .. Depth - 1 : stack[j] = Callback
  BY <1>1 DEF InCallback, Callback
<1>3. x \in Executing => \E j \in 1 .. Depth - 1 : Handles(stack[j], x)
  BY <1>1 DEF Executing, Handles
<1> QED BY <1>1, <1>2, <1>3 DEF Below, Blocked, CallbackBlocks, RecursionBlocks

(* It still does when the scan, or what comes on top of it, goes on.        *)
LEMMA BelowTop ==
    ASSUME TypeOK, stack # <<>>, NEW F, NEW d, Moved(stack', Depth - 1, stack, F, d),
           NEW x, Below(x, Depth, stack, sig_flag), sig_flag' = sig_flag,
           \A j \in Depth + 1 .. Len(stack') : ~Runs(stack'[j], x),
           NEW k, k = Depth
    PROVE  Below(x, k, stack', sig_flag')
<1>1. \A j \in 1 .. Depth - 1 : stack'[j] = stack[j]
  BY DEF Moved
<1> QED BY <1>1 DEF Below

-----------------------------------------------------------------------------
(* ... the scan's own check point, ...                                      *)
LEMMA CheckPointScan ==
    ASSUME Tame, DispatchInv, CheckPoint, In("Do_ast_queue")
    PROVE  DispatchInv'
<1>0. TypeOK /\ CountSound /\ QueueSound /\ ScansSound /\ ClearsSound /\ AddsSound /\ IgnoreAccounted
  BY DEF DispatchInv
<1> DEFINE a == [fn |-> "Do_ast_queue", pc |-> "checked", async |-> Top.async, lptr |-> Top.lptr]
           n == Depth - 1  F == {a, Async}
<1>1. /\ UNCHANGED <<queue, queue_end, asts_enabled, disable, ring, trap, seen, raised, ops, sig_flag,
                     queue_flags, ignore, cleared, last_run>>
      /\ stack # <<>> /\ Top.fn = "Do_ast_queue"
  BY DEF CheckPoint, pending, pairs, switches, counts, In
<1>2. /\ stack' = Append(Append(Popped, a), Async)
      /\ a \in Activation /\ a.fn = "Do_ast_queue" /\ a.lptr = Top.lptr
  <2>1. "pc" \in DOMAIN Top /\ Goto("checked") = Append(Popped, a) /\ a \in Activation
    BY <1>0, ScanGoto
  <2>2. ~UserCode
    BY <1>1 DEF UserCode, In
  <2> HIDE DEF a
  <2>3. stack' = Append(Append(Popped, a), Async)
    BY <2>1, <2>2 DEF CheckPoint
  <2> QED BY <2>1, <2>3 DEF a
<1> HIDE DEF a
<1>3. Async \in Activation /\ Async.fn = "Async_raise_signal" /\ FrameWeight[Async] = 0 /\ FrameWeight[a] = 0
      /\ FrameWeight[Top] = 0
  <2>1. Async \in Activation /\ Async.fn = "Async_raise_signal"
    BY FrameKinds DEF Async
  <2>2. Top \in Activation
    BY <1>0, <1>1, TopTyped
  <2> QED BY <1>1, <1>2, <2>1, <2>2, FrameWeights
<1>4. /\ Moved(stack', n, stack, F, 0)
      /\ Depth \in Nat \ {0} /\ Depth = Len(stack)
      /\ Len(stack') = Depth + 1 /\ stack'[Depth] = a /\ stack'[Depth + 1] = Async
  <2>1. /\ Moved(stack', n, stack, F, (FrameWeight[a] - FrameWeight[Top]) + FrameWeight[Async])
        /\ Depth \in Nat \ {0} /\ Depth = Len(stack)
        /\ Len(stack') = Depth + 1 /\ stack'[Depth] = a /\ stack'[Depth + 1] = Async
    BY <1>0, <1>1, <1>2, <1>3, TopThen
  <2> HIDE DEF n, F
  <2> QED BY <1>3, <2>1
<1>5. /\ asts_enabled /\ ~ScanDue
      /\ Place \in Nat \ {0} /\ Place - 1 \in 0 .. Len(queue)
      /\ Top.lptr = IF Place = 1 THEN 0 ELSE queue[Place - 1].id
      /\ \A i \in 1 .. Place - 1 :
            Below(queue[i].item, Depth, stack, sig_flag) /\ Accounted(queue[i].item)
  BY ScanPlace
<1>6. /\ queue' \in Seq(Entry) /\ queue_end' \in 0 .. MaxRaise /\ Len(queue') \in Nat /\ Len(queue) \in Nat
      /\ 0 \in Int
  BY <1>0, <1>1, LenProperties DEF TypeOK
<1>7. TypeOK' /\ CountSound'
  <2>1. RestOK' /\ Counted(0)
    BY <1>0, <1>1 DEF RestOK, TypeOK, Counted
  <2> HIDE DEF n, F
  <2> QED BY <1>0, <1>4, <1>6, <2>1, TypesKept
<1>8. QueueSound'
  <2>1. seen' \in Nat /\ seen <= seen'
    BY <1>0, <1>1 DEF TypeOK
  <2> QED BY <1>0, <1>1, <2>1, QueueStays
<1>9. \A i \in n + 1 .. Len(stack) : stack[i].fn = "Do_ast_queue"
  BY <1>0, <1>1, OnlyTop
<1>10. ClearsSound'
  <2>1. \A i \in n + 1 .. Len(stack) : ~IsClear(stack[i])
    BY <1>9 DEF IsClear
  <2>2. \A b \in F : ~IsClear(b) /\ (IsScan(b) => asts_enabled)
    BY <1>2, <1>3, <1>5 DEF IsClear
  <2> HIDE DEF n, F
  <2> QED BY <1>0, <1>1, <1>4, <2>1, <2>2, ClearsKept
<1>11. \A i \in 1 .. Place - 1 : Below(queue[i].item, Depth, stack', sig_flag')
  <2>1. \A j \in Depth + 1 .. Len(stack') : j = Depth + 1
    BY <1>4
  <2>2. \A x : ~Runs(Async, x)
    BY <1>3 DEF Runs
  <2>3. \A x : \A j \in Depth + 1 .. Len(stack') : ~Runs(stack'[j], x)
    BY <1>4, <2>1, <2>2
  <2>4. Moved(stack', Depth - 1, stack, F, 0)
    BY <1>4
  <2> SUFFICES ASSUME NEW i \in 1 .. Place - 1
               PROVE  Below(queue[i].item, Depth, stack', sig_flag')
    OBVIOUS
  <2>5. PICK x : x = queue[i].item
    OBVIOUS
  <2>6. PICK k : k = Depth
    OBVIOUS
  <2>7. Below(x, Depth, stack, sig_flag) /\ sig_flag' = sig_flag
    BY <1>1, <1>5, <2>5
  <2> HIDE DEF F
  <2>8. Below(x, k, stack', sig_flag')
    <3>1. \A j \in Depth + 1 .. Len(stack') : ~Runs(stack'[j], x)
      BY <2>3
    <3>2. Below(x, Depth, stack, sig_flag)
      BY <2>7
    <3>3. TypeOK /\ stack # <<>> /\ sig_flag' = sig_flag
      BY <1>0, <1>1
    <3> QED BY <2>4, <2>6, <3>1, <3>2, <3>3, BelowTop
  <2> QED BY <2>5, <2>6, <2>8
<1>12. ScansSound'
  <2>1. \A k \in 1 .. n, x \in Item :
           IsScan(stack[k]) /\ Below(x, k, stack, sig_flag)
              => (x \in Sig => ~sig_flag'[x]) /\ \A b \in F : ~Runs(b, x)
    BY <1>1, <1>2, <1>3 DEF Below, Runs
  <2>2. \A k \in 1 .. n, l \in 1 .. Len(queue) :
           IsScan(stack[k]) /\ (\A i \in 1 .. l : Below(queue[i].item, k, stack, sig_flag))
              => l \in 1 .. Len(queue') /\ \A i \in 1 .. l : queue'[i] = queue[i]
    BY <1>1
  <2>3. \A k \in n + 1 .. Len(stack') : IsScan(stack'[k]) /\ stack'[k].lptr # 0 => ScanAt(k)'
    <3> SUFFICES ASSUME NEW k \in n + 1 .. Len(stack'), IsScan(stack'[k]), stack'[k].lptr # 0
                 PROVE  ScanAt(k)'
      OBVIOUS
    <3>1. k = Depth
      <4>1. k = Depth \/ k = Depth + 1
        BY <1>4
      <4> QED BY <1>3, <1>4, <4>1 DEF IsScan
    <3>2. Place # 1 /\ stack'[k].lptr = queue[Place - 1].id
      BY <1>2, <1>4, <1>5, <3>1
    <3>3. Place - 1 \in 1 .. Len(queue)
      BY <1>5, <1>6, <3>2
    <3> QED BY <1>1, <1>11, <3>1, <3>2, <3>3 DEF ScanAt
  <2> HIDE DEF n, F
  <2> QED BY <1>0, <1>4, <1>6, <2>1, <2>2, <2>3, ScansKept
<1>13. AddsSound'
  <2>1. n < Len(stack) /\ \A b \in F : b.fn # "Add"
    BY <1>2, <1>3, <1>4
  <2> HIDE DEF n, F
  <2> QED BY <1>0, <1>4, <2>1, NoAdds
<1>14. \A x \in Item : Accounted(x) => Accounted(x)'
  <2>1. \A i \in n + 1 .. Len(stack) : stack[i].fn \notin {"handler", "callback"}
    BY <1>9
  <2>2. FlagsMasked /\ NotesKept /\ CheckStays
    BY <1>1 DEF FlagsMasked, NotesKept, CheckStays
  <2> HIDE DEF n, F
  <2> QED BY <1>0, <1>4, <2>1, <2>2, StaysAccounted
<1>15. IgnoreAccounted'
  <2>1. Watched' => Watched
    BY <1>1 DEF Watched
  <2> QED BY <1>0, <1>1, <1>14, <2>1, IgnoreKept
<1>16. Looked'
  <2> SUFFICES ASSUME NEW k \in 1 .. Len(stack'), NEW l \in 1 .. Len(queue'), Innermost(k)',
                      queue'[l].id = stack'[k].lptr, NEW i \in 1 .. l
               PROVE  Accounted(queue[i].item)'
    BY DEF Looked
  <2>1. k = Depth
    <3>1. k # Depth + 1
      BY <1>3, <1>4 DEF Innermost, IsScan
    <3>2. Depth \in k + 1 .. Len(stack') \/ k = Depth
      BY <1>4, <3>1
    <3> QED BY <1>2, <1>4, <3>2 DEF Innermost, IsScan
  <2>2. queue[l].id = Top.lptr /\ l \in 1 .. Len(queue) /\ queue[l].id # 0
    BY <1>0, <1>1, <1>2, <1>4, <2>1, EntryFields DEF TypeOK
  <2>3. Place # 1 /\ Place - 1 \in 1 .. Len(queue) /\ queue[l].id = queue[Place - 1].id
    BY <1>5, <1>6, <2>2
  <2>4. l = Place - 1
    BY <1>0, <2>2, <2>3 DEF QueueSound
  <2>5. i \in 1 .. Place - 1 /\ i \in 1 .. Len(queue)
    BY <1>6, <2>2, <2>4
  <2>6. Accounted(queue[i].item)
    BY <1>5, <2>5
  <2>7. PICK x \in Item : x = queue[i].item
    BY <1>0, <2>5, EntryFields DEF TypeOK
  <2> QED BY <1>1, <1>14, <2>6, <2>7
<1> QED BY <1>7, <1>8, <1>10, <1>12, <1>13, <1>15, <1>16 DEF DispatchInv

-----------------------------------------------------------------------------
(* The queue with a new last entry.                                         *)
LEMMA QueueGrown ==
    ASSUME TypeOK, QueueSound, NEW e \in Entry, e.id <= seen, e.item \notin Never,
           \A j \in 1 .. Len(queue) : queue[j].id # e.id,
           queue' = Append(queue, e), queue_end' = e.id, seen' = seen
    PROVE  /\ QueueSound' /\ queue' \in Seq(Entry) /\ queue_end' \in 0 .. MaxRaise
           /\ Len(queue') = Len(queue) + 1 /\ queue'[Len(queue) + 1] = e
           /\ \A i \in 1 .. Len(queue) : i \in 1 .. Len(queue') /\ queue'[i] = queue[i]
           /\ \A i \in 1 .. Len(queue') : i \in 1 .. Len(queue) \/ i = Len(queue) + 1
<1>1. queue \in Seq(Entry) /\ Len(queue) \in Nat
  BY LenProperties DEF TypeOK
<1>2. /\ queue' \in Seq(Entry)
      /\ Len(queue') = Len(queue) + 1 /\ queue'[Len(queue) + 1] = e
      /\ \A i \in 1 .. Len(queue) : queue'[i] = queue[i]
  BY <1>1, AppendProperties
<1>3. /\ \A i \in 1 .. Len(queue') : i \in 1 .. Len(queue) \/ i = Len(queue) + 1
      /\ \A i \in 1 .. Len(queue) : i \in 1 .. Len(queue')
      /\ Len(queue') # 0
  BY <1>1, <1>2
<1>4. \A i, j \in 1 .. Len(queue') : queue'[i].id = queue'[j].id => i = j
  <2> SUFFICES ASSUME NEW i \in 1 .. Len(queue'), NEW j \in 1 .. Len(queue'), queue'[i].id = queue'[j].id
               PROVE  i = j
    OBVIOUS
  <2>1. CASE i \in 1 .. Len(queue) /\ j \in 1 .. Len(queue)
    BY <1>2, <2>1 DEF QueueSound
  <2>2. CASE i \in 1 .. Len(queue) /\ j = Len(queue) + 1
    BY <1>2, <2>2
  <2>3. CASE i = Len(queue) + 1 /\ j \in 1 .. Len(queue)
    BY <1>2, <2>3
  <2>4. CASE i = Len(queue) + 1 /\ j = Len(queue) + 1
    BY <2>4
  <2> QED BY <1>3, <2>1, <2>2, <2>3, <2>4
<1>5. \A i \in 1 .. Len(queue') : queue'[i].id <= seen' /\ queue'[i].item \notin Never
  BY <1>2, <1>3 DEF QueueSound
<1>6. queue_end' \in 0 .. MaxRaise
  BY AstQueueAssumption DEF Entry
<1> QED BY <1>2, <1>3, <1>4, <1>5, <1>6 DEF QueueSound

(* ... an ast that joins the queue, ...                                     *)
LEMMA AddAstStep ==
    ASSUME DispatchInv, AddAst
    PROVE  DispatchInv'
<1>0. TypeOK /\ CountSound /\ QueueSound /\ ScansSound /\ ClearsSound /\ AddsSound /\ IgnoreAccounted /\ Looked
  BY DEF DispatchInv
<1> DEFINE n == Depth - 1  e == Top.entry
<1>1. /\ UNCHANGED <<asts_enabled, disable, ring, trap, seen, raised, ops, sig_flag,
                     queue_flags, ignore, cleared, last_run>>
      /\ stack # <<>> /\ Top.fn = "Add" /\ stack' = Popped
      /\ queue' = Append(queue, e) /\ queue_end' = e.id
  BY <1>0, UpToEnd DEF AddAst, pending, switches, counts, In
<1>2. /\ Depth \in Nat \ {0} /\ Depth = Len(stack) /\ Top = stack[Depth] /\ Depth \in 1 .. Len(stack)
      /\ Top \in Activation
  BY <1>0, <1>1, TopTyped
<1>3. e \in Entry /\ FrameWeight[Top] = 0
  BY <1>1, <1>2, FrameFields, FrameWeights
<1>4. /\ e.id <= seen /\ \A j \in 1 .. Len(queue) : queue[j].id # e.id
      /\ e.item \notin Never /\ (Watched => Accounted(e.item))
  BY <1>0, <1>1, <1>2 DEF AddsSound
<1> HIDE DEF e
<1>5. /\ QueueSound' /\ queue' \in Seq(Entry) /\ queue_end' \in 0 .. MaxRaise
      /\ Len(queue') = Len(queue) + 1 /\ queue'[Len(queue) + 1] = e
      /\ \A i \in 1 .. Len(queue) : i \in 1 .. Len(queue') /\ queue'[i] = queue[i]
      /\ \A i \in 1 .. Len(queue') : i \in 1 .. Len(queue) \/ i = Len(queue) + 1
  BY <1>0, <1>1, <1>3, <1>4, QueueGrown
<1>6. Moved(stack', n, stack, {}, 0)
  BY <1>0, <1>1, <1>3, TopTyped
<1>7. \A i \in n + 1 .. Len(stack) : stack[i].fn = "Add" /\ ~IsClear(stack[i]) /\ ~IsScan(stack[i])
  BY <1>0, <1>1, OnlyTop DEF IsClear, IsScan
<1>8. /\ n < Len(stack) /\ 0 \in Int /\ Len(queue') \in Nat /\ Len(queue) \in Nat
  BY <1>0, <1>2, <1>5, LenProperties DEF TypeOK
<1> HIDE DEF n
<1>9. TypeOK' /\ CountSound'
  <2>1. RestOK' /\ Counted(0)
    BY <1>0, <1>1 DEF RestOK, TypeOK, Counted
  <2> QED BY <1>0, <1>5, <1>6, <1>8, <2>1, TypesKept
<1>10. ClearsSound'
  BY <1>0, <1>1, <1>6, <1>7, ClearsKept
<1>11. AddsSound'
  BY <1>0, <1>6, <1>8, NoAdds
<1>12. \A k \in 1 .. n, l \in 1 .. Len(queue) :
          IsScan(stack[k]) /\ (\A i \in 1 .. l : Below(queue[i].item, k, stack, sig_flag))
             => l \in 1 .. Len(queue') /\ \A i \in 1 .. l : queue'[i] = queue[i]
  <2> SUFFICES ASSUME NEW l \in 1 .. Len(queue)
               PROVE  l \in 1 .. Len(queue') /\ \A i \in 1 .. l : queue'[i] = queue[i]
    OBVIOUS
  <2>1. \A i \in 1 .. l : i \in 1 .. Len(queue)
    BY <1>8
  <2> QED BY <1>5, <2>1
<1>13. ScansSound'
  <2>1. \A k \in 1 .. n, x \in Item :
           IsScan(stack[k]) /\ Below(x, k, stack, sig_flag)
              => (x \in Sig => ~sig_flag'[x]) /\ \A b \in {} : ~Runs(b, x)
    BY <1>1 DEF Below
  <2>2. \A k \in n + 1 .. Len(stack') : IsScan(stack'[k]) /\ stack'[k].lptr # 0 => ScanAt(k)'
    BY <1>6 DEF Moved
  <2> QED BY <1>0, <1>6, <1>8, <1>12, <2>1, <2>2, ScansKept
<1>14. \A x \in Item : Accounted(x) => Accounted(x)'
  <2>1. \A i \in n + 1 .. Len(stack) : stack[i].fn \notin {"handler", "callback"}
    BY <1>7
  <2>2. FlagsMasked /\ NotesKept /\ CheckStays
    BY <1>1 DEF FlagsMasked, NotesKept, CheckStays
  <2> QED BY <1>0, <1>6, <2>1, <2>2, StaysAccounted
<1>15. IgnoreAccounted'
  <2> SUFFICES ASSUME Watched', NEW i \in 1 .. Len(queue')
               PROVE  Accounted(queue[i].item)'
    BY DEF IgnoreAccounted
  <2>1. Watched
    BY <1>1 DEF Watched
  <2>2. PICK x \in Item : x = queue'[i].item
    BY <1>5, EntryFields
  <2>3. Accounted(x)
    <3>1. CASE i \in 1 .. Len(queue)
      BY <1>0, <1>5, <2>1, <2>2, <3>1 DEF IgnoreAccounted
    <3>2. CASE i = Len(queue) + 1
      BY <1>4, <1>5, <2>1, <2>2, <3>2
    <3> QED BY <1>5, <3>1, <3>2
  <2> QED BY <1>14, <2>2, <2>3
<1>16. Looked'
  <2>1. ~ScanDue
    BY <1>1 DEF ScanDue
  <2>2. \A b \in {} : IsScan(b) => b.lptr = 0
    OBVIOUS
  <2>3. \A k \in 1 .. n, x \in Item :
           IsScan(stack[k]) /\ Below(x, k, stack, sig_flag) /\ Accounted(x) => Accounted(x)'
    BY <1>14
  <2> QED BY <1>0, <1>1, <1>5, <1>6, <1>7, <1>12, <2>1, <2>2, <2>3, LookedKept
<1> QED BY <1>5, <1>9, <1>10, <1>11, <1>13, <1>15, <1>16 DEF DispatchInv

(* ... the end of a scan, ...                                               *)
LEMMA ScanEndsStep ==
    ASSUME DispatchInv, ScanEnds
    PROVE  DispatchInv'
<1>0. TypeOK /\ CountSound /\ QueueSound /\ ScansSound /\ ClearsSound /\ AddsSound
  BY DEF DispatchInv
<1> DEFINE n == Depth - 1
<1>1. /\ UNCHANGED <<queue, queue_end, asts_enabled, disable, ring, trap, seen, raised, ops, sig_flag,
                     queue_flags, cleared, last_run>>
      /\ stack # <<>> /\ Top.fn = "Do_ast_queue" /\ stack' = Popped
      /\ ignore' = TRUE /\ In("Do_ast_queue") /\ Place > Len(queue)
  BY DEF ScanEnds, Looking, pending, pairs, switches, counts, In
<1>2. Depth \in Nat \ {0} /\ Depth = Len(stack) /\ FrameWeight[Top] = 0
  BY <1>0, <1>1, TopTyped, FrameWeights
<1>3. /\ queue' \in Seq(Entry) /\ queue_end' \in 0 .. MaxRaise /\ Len(queue') \in Nat /\ Len(queue) \in Nat
  BY <1>0, <1>1, LenProperties DEF TypeOK
<1>4. \A i \in 1 .. Len(queue) : Accounted(queue[i].item)
  <2>1. /\ Place \in Nat \ {0} /\ Place - 1 \in 0 .. Len(queue)
        /\ \A i \in 1 .. Place - 1 : Accounted(queue[i].item)
    BY <1>1, ScanPlace
  <2>2. \A i \in 1 .. Len(queue) : i \in 1 .. Place - 1
    BY <1>1, <1>3, <2>1
  <2> QED BY <2>1, <2>2
<1>5. Moved(stack', n, stack, {}, 0)
  BY <1>0, <1>1, <1>2, TopTyped
<1>6. \A i \in n + 1 .. Len(stack) : stack[i].fn = "Do_ast_queue" /\ ~IsClear(stack[i])
  BY <1>0, <1>1, OnlyTop DEF IsClear
<1>7. n < Len(stack) /\ 0 \in Int
  BY <1>2
<1> HIDE DEF n
<1>8. TypeOK' /\ CountSound'
  <2>1. RestOK' /\ Counted(0)
    BY <1>0, <1>1 DEF RestOK, TypeOK, Counted
  <2> QED BY <1>0, <1>3, <1>5, <1>7, <2>1, TypesKept
<1>9. QueueSound'
  <2>1. seen' \in Nat /\ seen <= seen'
    BY <1>0, <1>1 DEF TypeOK
  <2> QED BY <1>0, <1>1, <2>1, QueueStays
<1>10. ClearsSound'
  BY <1>0, <1>1, <1>5, <1>6, ClearsKept
<1>11. AddsSound'
  BY <1>0, <1>5, <1>7, NoAdds
<1>12. ScansSound'
  <2>1. \A k \in 1 .. n, x \in Item :
           IsScan(stack[k]) /\ Below(x, k, stack, sig_flag)
              => (x \in Sig => ~sig_flag'[x]) /\ \A b \in {} : ~Runs(b, x)
    BY <1>1 DEF Below
  <2>2. \A k \in n + 1 .. Len(stack') : IsScan(stack'[k]) /\ stack'[k].lptr # 0 => ScanAt(k)'
    BY <1>5 DEF Moved
  <2>3. \A k \in 1 .. n, l \in 1 .. Len(queue) :
           IsScan(stack[k]) /\ (\A i \in 1 .. l : Below(queue[i].item, k, stack, sig_flag))
              => l \in 1 .. Len(queue') /\ \A i \in 1 .. l : queue'[i] = queue[i]
    BY <1>1
  <2> QED BY <1>0, <1>3, <1>5, <2>1, <2>2, <2>3, ScansKept
<1>13. \A x \in Item : Accounted(x) => Accounted(x)'
  <2>1. \A i \in n + 1 .. Len(stack) : stack[i].fn \notin {"handler", "callback"}
    BY <1>6
  <2>2. FlagsMasked /\ NotesKept /\ CheckStays
    BY <1>1 DEF FlagsMasked, NotesKept, CheckStays
  <2> QED BY <1>0, <1>5, <2>1, <2>2, StaysAccounted
<1>14. \A i \in 1 .. Len(queue) : Accounted(queue[i].item)'
  <2> SUFFICES ASSUME NEW i \in 1 .. Len(queue)
               PROVE  Accounted(queue[i].item)'
    OBVIOUS
  <2>1. PICK x \in Item : x = queue[i].item
    BY <1>0, EntryFields DEF TypeOK
  <2> QED BY <1>1, <1>4, <1>13, <2>1
<1>15. IgnoreAccounted'
  BY <1>1, <1>14 DEF IgnoreAccounted
<1>16. Looked'
  <2> SUFFICES ASSUME NEW l \in 1 .. Len(queue), NEW i \in 1 .. l
               PROVE  Accounted(queue[i].item)'
    BY <1>1 DEF Looked
  <2>1. i \in 1 .. Len(queue)
    BY <1>3
  <2> QED BY <1>14, <2>1
<1> QED BY <1>8, <1>9, <1>10, <1>11, <1>12, <1>15, <1>16 DEF DispatchInv

(* ... a blocked entry that a scan passes, ...                              *)
LEMMA ScanSkipsStep ==
    ASSUME DispatchInv, ScanSkips
    PROVE  DispatchInv'
<1>0. TypeOK /\ CountSound /\ QueueSound /\ ScansSound /\ ClearsSound /\ AddsSound /\ IgnoreAccounted
  BY DEF DispatchInv
<1> PICK y : y = queue[Place].item
  OBVIOUS
<1> DEFINE n == Depth - 1
           a == [fn |-> "Do_ast_queue", pc |-> "check", async |-> Top.async, lptr |-> queue[Place].id]
<1>1. /\ UNCHANGED <<queue, queue_end, asts_enabled, disable, ring, trap, seen, raised, ops, sig_flag,
                     ignore, cleared, last_run>>
      /\ stack # <<>> /\ Top.fn = "Do_ast_queue" /\ In("Do_ast_queue") /\ Place <= Len(queue)
      /\ ~MayRun(y, TRUE) /\ queue_flags' = queue_flags \cup Noted(y, TRUE)
      /\ stack' = [stack EXCEPT ![Depth].lptr = queue[Place].id, ![Depth].pc = "check"]
  BY DEF ScanSkips, Looking, pending, pairs, switches, counts, In
<1>2. /\ asts_enabled /\ ~ScanDue
      /\ Place \in Nat \ {0} /\ Place - 1 \in 0 .. Len(queue)
      /\ \A i \in 1 .. Place - 1 :
            Below(queue[i].item, Depth, stack, sig_flag) /\ Accounted(queue[i].item)
  BY <1>1, ScanPlace
<1>3. /\ queue' \in Seq(Entry) /\ queue_end' \in 0 .. MaxRaise /\ Len(queue') \in Nat /\ Len(queue) \in Nat
      /\ Place \in 1 .. Len(queue) /\ \A i \in 1 .. Place : i \in 1 .. Place - 1 \/ i = Place
      /\ \A i \in 1 .. Place : i \in 1 .. Len(queue)
  <2>1. queue' \in Seq(Entry) /\ queue_end' \in 0 .. MaxRaise /\ Len(queue') \in Nat /\ Len(queue) \in Nat
    BY <1>0, <1>1, LenProperties DEF TypeOK
  <2> QED BY <1>1, <1>2, <2>1
<1>4. /\ queue[Place].id \in 0 .. MaxRaise /\ queue[Place].id # 0 /\ y \in Item
  <2>1. queue \in Seq(Entry) /\ MaxRaise \in Nat
    BY <1>0, AstQueueAssumption DEF TypeOK
  <2>2. queue[Place].id \in Nat \ {0} /\ queue[Place].id <= MaxRaise /\ y \in Item
    BY <1>3, <2>1, EntryFields
  <2> QED BY <2>1, <2>2
<1>5. stack' = Append(Popped, a) /\ a \in Activation /\ a.fn = "Do_ast_queue" /\ a.lptr = queue[Place].id
  BY <1>0, <1>1, <1>4, ScanGoto
<1> HIDE DEF a
<1>6. FrameWeight[a] = 0 /\ FrameWeight[Top] = 0
  BY <1>0, <1>1, <1>5, TopTyped, FrameWeights
<1>7. /\ Moved(stack', Depth - 1, stack, {a}, 0)
      /\ Depth \in Nat \ {0} /\ Depth = Len(stack)
      /\ Len(stack') = Depth /\ stack'[Depth] = a
  <2>1. Moved(stack', Depth - 1, stack, {a}, FrameWeight[a] - FrameWeight[Top])
    BY <1>0, <1>1, <1>5, TopBecomes
  <2>2. Moved(stack', Depth - 1, stack, {a}, 0)
    BY <1>6, <2>1
  <2>3. Len(stack') = Depth /\ stack'[Depth] = a /\ Depth \in Nat \ {0} /\ Depth = Len(stack)
    BY <1>0, <1>1, <1>5, TopBecomes, TopTyped
  <2> QED BY <2>2, <2>3
<1>8. /\ \A i \in n + 1 .. Len(stack) : stack[i].fn = "Do_ast_queue" /\ ~IsClear(stack[i])
      /\ n < Len(stack) /\ 0 \in Int /\ \A k \in n + 1 .. Len(stack') : k = Depth
      /\ Moved(stack', n, stack, {a}, 0)
  <2>1. \A i \in n + 1 .. Len(stack) : stack[i].fn = "Do_ast_queue" /\ ~IsClear(stack[i])
    BY <1>0, <1>1, OnlyTop DEF IsClear
  <2>2. n < Len(stack) /\ 0 \in Int /\ \A k \in n + 1 .. Len(stack') : k = Depth
    BY <1>7
  <2> QED BY <1>7, <2>1, <2>2
<1> HIDE DEF n
<1>9. TypeOK' /\ CountSound'
  <2>1. queue_flags' \subseteq {"QC_RECURSIVE", "QC_CALLBACK"}
    BY <1>0, <1>1 DEF TypeOK, Noted
  <2>2. RestOK'
    BY <1>0, <1>1, <2>1 DEF RestOK, TypeOK
  <2>3. Counted(0)
    BY <1>1 DEF Counted
  <2> QED BY <1>0, <1>3, <1>8, <2>2, <2>3, TypesKept
<1>10. QueueSound'
  <2>1. seen' \in Nat /\ seen <= seen'
    BY <1>0, <1>1 DEF TypeOK
  <2> QED BY <1>0, <1>1, <2>1, QueueStays
<1>11. ClearsSound'
  <2>1. \A b \in {a} : ~IsClear(b) /\ (IsScan(b) => asts_enabled)
    BY <1>2, <1>5 DEF IsClear
  <2>2. \A i \in n + 1 .. Len(stack) : ~IsClear(stack[i])
    BY <1>8
  <2>3. asts_enabled' = asts_enabled /\ Moved(stack', n, stack, {a}, 0)
    BY <1>1, <1>8
  <2> QED BY <1>0, <2>1, <2>2, <2>3, ClearsKept
<1>12. AddsSound'
  <2>1. \A b \in {a} : b.fn # "Add"
    BY <1>5
  <2> QED BY <1>0, <1>8, <2>1, NoAdds
<1>13. \A i \in n + 1 .. Len(stack) : stack[i].fn \notin {"handler", "callback"}
  BY <1>8
<1>14. FlagsMasked /\ NotesKept /\ CheckStays
  BY <1>1 DEF FlagsMasked, NotesKept, CheckStays
<1>15. \A x \in Item : Accounted(x) => Accounted(x)'
  BY <1>0, <1>8, <1>13, <1>14, StaysAccounted
<1>16. y \notin Never /\ Blocked(y) /\ Accounted(y)'
  <2>1. (InCallback => InCallback') /\ Executing \subseteq Executing'
    BY <1>0, <1>8, <1>13, ContextStays
  <2>2. Noted(y, TRUE) \subseteq queue_flags' /\ (TRUE \/ ignore) /\ ~MayRun(y, TRUE)
    BY <1>1
  <2> QED BY <1>2, <1>14, <2>1, <2>2, NotedAccounted
<1>17. \A i \in 1 .. Place : Below(queue[i].item, Depth, stack', sig_flag')
  <2> SUFFICES ASSUME NEW i \in 1 .. Place
               PROVE  Below(queue[i].item, Depth, stack', sig_flag')
    OBVIOUS
  <2>1. PICK x : x = queue[i].item
    OBVIOUS
  <2>2. PICK k : k = Depth
    OBVIOUS
  <2>3. Below(x, Depth, stack, sig_flag)
    <3>1. CASE i \in 1 .. Place - 1
      BY <1>2, <2>1, <3>1
    <3>2. CASE i = Place
      <4>1. x \notin Never /\ Blocked(x)
        BY <1>16, <2>1, <3>2
      <4> QED BY <1>0, <1>1, <4>1, BlockedBelow
    <3> QED BY <1>3, <3>1, <3>2
  <2>4. \A j \in Depth + 1 .. Len(stack') : ~Runs(stack'[j], x)
    BY <1>7
  <2>5. Moved(stack', Depth - 1, stack, {a}, 0)
    BY <1>7
  <2>6. TypeOK /\ stack # <<>> /\ sig_flag' = sig_flag
    BY <1>0, <1>1
  <2>7. Below(x, k, stack', sig_flag')
    BY <2>2, <2>3, <2>4, <2>5, <2>6, BelowTop
  <2> QED BY <2>1, <2>2, <2>7
<1>18. ScansSound'
  <2>1. \A k \in 1 .. n, x \in Item :
           IsScan(stack[k]) /\ Below(x, k, stack, sig_flag)
              => (x \in Sig => ~sig_flag'[x]) /\ \A b \in {a} : ~Runs(b, x)
    BY <1>1, <1>5 DEF Below, Runs
  <2>2. \A k \in 1 .. n, l \in 1 .. Len(queue) :
           IsScan(stack[k]) /\ (\A i \in 1 .. l : Below(queue[i].item, k, stack, sig_flag))
              => l \in 1 .. Len(queue') /\ \A i \in 1 .. l : queue'[i] = queue[i]
    BY <1>1
  <2>3. \A k \in n + 1 .. Len(stack') : IsScan(stack'[k]) /\ stack'[k].lptr # 0 => ScanAt(k)'
    <3> SUFFICES ASSUME NEW k \in n + 1 .. Len(stack')
                 PROVE  ScanAt(k)'
      OBVIOUS
    <3>1. k = Depth /\ stack'[k].lptr = queue[Place].id
      BY <1>5, <1>7, <1>8
    <3> QED BY <1>1, <1>3, <1>17, <3>1 DEF ScanAt
  <2> QED BY <1>0, <1>3, <1>8, <2>1, <2>2, <2>3, ScansKept
<1>19. IgnoreAccounted'
  <2>1. Watched' => Watched
    BY <1>1 DEF Watched
  <2> QED BY <1>0, <1>1, <1>15, <2>1, IgnoreKept
<1>20. Looked'
  <2> SUFFICES ASSUME NEW k \in 1 .. Len(stack'), NEW l \in 1 .. Len(queue'), Innermost(k)',
                      queue'[l].id = stack'[k].lptr, NEW i \in 1 .. l
               PROVE  Accounted(queue[i].item)'
    BY DEF Looked
  <2>1. k = Depth
    <3>1. Depth \in k + 1 .. Len(stack') \/ k = Depth
      BY <1>7
    <3> QED BY <1>5, <1>7, <3>1 DEF Innermost, IsScan
  <2>2. queue[l].id = queue[Place].id /\ l \in 1 .. Len(queue)
    BY <1>1, <1>5, <1>7, <2>1
  <2>3. l = Place
    BY <1>0, <1>3, <2>2 DEF QueueSound
  <2>4. i \in 1 .. Place /\ i \in 1 .. Len(queue)
    BY <1>3, <2>3
  <2>5. PICK x \in Item : x = queue[i].item
    BY <1>0, <2>4, EntryFields DEF TypeOK
  <2>6. Accounted(x)'
    <3>1. CASE i \in 1 .. Place - 1
      BY <1>2, <1>15, <2>5, <3>1
    <3>2. CASE i = Place
      BY <1>16, <2>5, <3>2
    <3> QED BY <1>3, <2>4, <3>1, <3>2
  <2> QED BY <1>1, <2>5, <2>6
<1> QED BY <1>9, <1>10, <1>11, <1>12, <1>18, <1>19, <1>20 DEF DispatchInv

-----------------------------------------------------------------------------
(* The queue without the entry at p.                                        *)
LEMMA QueueShrunk ==
    ASSUME TypeOK, QueueSound, NEW p \in 1 .. Len(queue), queue' = RemoveAt(queue, p),
           NEW lp, lp = (IF p = 1 THEN 0 ELSE queue[p - 1].id),
           queue_end' = (IF queue_end = queue[p].id THEN lp ELSE queue_end), seen' = seen
    PROVE  /\ QueueSound' /\ queue' \in Seq(Entry) /\ queue_end' \in 0 .. MaxRaise
           /\ Len(queue') \in Nat /\ Len(queue) \in Nat
           /\ \A i \in 1 .. Len(queue) : i < p => i \in 1 .. Len(queue') /\ queue'[i] = queue[i]
           /\ \A i \in 1 .. Len(queue') : \E j \in 1 .. Len(queue) : queue'[i] = queue[j]
<1>1. queue \in Seq(Entry) /\ Len(queue) \in Nat /\ MaxRaise \in Nat
  BY LenProperties, AstQueueAssumption DEF TypeOK
<1>2. /\ queue' \in Seq(Entry) /\ Len(queue') = Len(queue) - 1
      /\ \A k \in 1 .. Len(queue) - 1 : queue'[k] = IF k < p THEN queue[k] ELSE queue[k + 1]
  BY <1>1, RemoveAtProperties
<1> DEFINE f(k) == IF k < p THEN k ELSE k + 1
<1>3. /\ \A k \in 1 .. Len(queue') : f(k) \in 1 .. Len(queue) /\ queue'[k] = queue[f(k)]
      /\ \A i, j \in 1 .. Len(queue') : f(i) = f(j) => i = j
  BY <1>1, <1>2
<1>4. \A i \in 1 .. Len(queue) : i < p => i \in 1 .. Len(queue') /\ queue'[i] = queue[i]
  BY <1>1, <1>2
<1>5. \A i, j \in 1 .. Len(queue') : queue'[i].id = queue'[j].id => i = j
  <2> SUFFICES ASSUME NEW i \in 1 .. Len(queue'), NEW j \in 1 .. Len(queue'), queue'[i].id = queue'[j].id
               PROVE  i = j
    OBVIOUS
  <2>1. queue[f(i)].id = queue[f(j)].id /\ f(i) \in 1 .. Len(queue) /\ f(j) \in 1 .. Len(queue)
    BY <1>3
  <2> HIDE DEF f
  <2>2. f(i) = f(j)
    BY <2>1 DEF QueueSound
  <2> QED BY <1>3, <2>2
<1>6. \A i \in 1 .. Len(queue') : queue'[i].id <= seen' /\ queue'[i].item \notin Never
  BY <1>3 DEF QueueSound
<1>7. queue_end' = IF Len(queue') = 0 THEN 0 ELSE queue'[Len(queue')].id
  <2>1. Len(queue) \in 1 .. Len(queue) /\ queue_end = queue[Len(queue)].id
    BY <1>1 DEF QueueSound
  <2>2. CASE p = Len(queue)
    <3>1. queue_end' = lp
      BY <2>1, <2>2
    <3>2. CASE p = 1
      BY <1>1, <1>2, <2>2, <3>1, <3>2
    <3>3. CASE p # 1
      <4>1. Len(queue') # 0 /\ Len(queue') = p - 1 /\ p - 1 \in 1 .. Len(queue) /\ p - 1 < p
        BY <1>1, <1>2, <2>2, <3>3
      <4> QED BY <1>4, <3>1, <3>3, <4>1
    <3> QED BY <3>2, <3>3
  <2>3. CASE p # Len(queue)
    <3>1. queue_end # queue[p].id
      BY <2>1, <2>3 DEF QueueSound
    <3>2. /\ Len(queue') # 0 /\ Len(queue') \in 1 .. Len(queue) - 1 /\ ~(Len(queue') < p)
          /\ Len(queue') + 1 = Len(queue)
      BY <1>1, <1>2, <2>3
    <3>3. queue'[Len(queue')] = queue[Len(queue)]
      BY <1>2, <3>2
    <3> QED BY <2>1, <3>1, <3>2, <3>3
  <2> QED BY <2>2, <2>3
<1>8. queue_end' \in 0 .. MaxRaise
  <2>1. \A i \in 1 .. Len(queue) : queue[i].id \in 0 .. MaxRaise
    BY <1>1, EntryFields
  <2>2. lp \in 0 .. MaxRaise
    <3>1. p # 1 => p - 1 \in 1 .. Len(queue)
      BY <1>1
    <3> QED BY <1>1, <2>1, <3>1
  <2> QED BY <2>2 DEF TypeOK
<1>9. Len(queue') \in Nat
  BY <1>2, LenProperties
<1> HIDE DEF f
<1>10. QueueSound'
  BY <1>5, <1>6, <1>7 DEF QueueSound
<1> QED BY <1>1, <1>2, <1>3, <1>4, <1>8, <1>9, <1>10

(* ... and an entry that is taken off the queue and run.                    *)
LEMMA ScanRunsStep ==
    ASSUME DispatchInv, ScanRuns
    PROVE  DispatchInv'
<1>0. TypeOK /\ CountSound /\ QueueSound /\ ScansSound /\ ClearsSound /\ AddsSound /\ IgnoreAccounted
  BY DEF DispatchInv
<1> PICK p : p = Place
  OBVIOUS
<1> PICK e : e = queue[p]
  OBVIOUS
<1> DEFINE n == Depth - 1  f == Started(e)
           a == [fn |-> "Do_ast_queue", pc |-> "check", async |-> Top.async, lptr |-> 0]
<1>1. /\ UNCHANGED <<asts_enabled, disable, ring, trap, seen, raised, ops, queue_flags,
                     ignore, cleared>>
      /\ stack # <<>> /\ Top.fn = "Do_ast_queue" /\ In("Do_ast_queue") /\ p <= Len(queue)
      /\ MayRun(e.item, TRUE) /\ queue' = RemoveAt(queue, p)
      /\ queue_end' = IF queue_end = e.id THEN Top.lptr ELSE queue_end
      /\ stack' = Raise([stack EXCEPT ![Depth].lptr = 0, ![Depth].pc = "check"], e)
      /\ sig_flag' = RaiseFlags(e) /\ last_run' = RunsNow(e)
  BY DEF ScanRuns, Looking, Removing, pending, counts, In
<1>2. /\ asts_enabled /\ ~ScanDue /\ p \in Nat \ {0}
      /\ Top.lptr = IF p = 1 THEN 0 ELSE queue[p - 1].id
  BY <1>1, ScanPlace
<1>3. p \in 1 .. Len(queue) /\ e \in Entry /\ e.item \in Item
  <2>1. Len(queue) \in Nat /\ queue \in Seq(Entry)
    BY <1>0, LenProperties DEF TypeOK
  <2>2. p \in 1 .. Len(queue)
    BY <1>1, <1>2, <2>1
  <2> QED BY <2>1, <2>2, EntryFields
<1>4. /\ QueueSound' /\ queue' \in Seq(Entry) /\ queue_end' \in 0 .. MaxRaise
      /\ Len(queue') \in Nat /\ Len(queue) \in Nat
      /\ \A i \in 1 .. Len(queue) : i < p => i \in 1 .. Len(queue') /\ queue'[i] = queue[i]
      /\ \A i \in 1 .. Len(queue') : \E j \in 1 .. Len(queue) : queue'[i] = queue[j]
  <2>1. PICK lp : lp = Top.lptr
    OBVIOUS
  <2>2. lp = (IF p = 1 THEN 0 ELSE queue[p - 1].id)
    BY <1>2, <2>1
  <2>3. queue_end' = (IF queue_end = queue[p].id THEN lp ELSE queue_end)
    BY <1>1, <2>1
  <2> QED BY <1>0, <1>1, <1>3, <2>2, <2>3, QueueShrunk
<1>5. /\ f \in Activation /\ f.fn \in {"handler", "Raise_astp"} /\ FrameWeight[f] = 0
      /\ \A x : Runs(f, x) => x = e.item
      /\ \A st : Raise(st, e) = Append(st, f)
      /\ sig_flag' \in [Sig -> BOOLEAN] /\ FlagsMasked /\ last_run' \in [Item -> 0 .. MaxRaise]
  BY <1>0, <1>1, <1>3, RaiseParts DEF FlagsMasked
<1>6. stack' = Append(Append(Popped, a), f) /\ a \in Activation /\ a.fn = "Do_ast_queue" /\ a.lptr = 0
  <2>1. 0 \in 0 .. MaxRaise
    BY AstQueueAssumption
  <2>2. [stack EXCEPT ![Depth].lptr = 0, ![Depth].pc = "check"] = Append(Popped, a) /\ a \in Activation
    BY <1>0, <1>1, <2>1, ScanGoto
  <2> HIDE DEF f
  <2>3. stack' = Append(Append(Popped, a), f)
    BY <1>1, <1>5, <2>2
  <2> QED BY <2>2, <2>3
<1> HIDE DEF a, f
<1>7. FrameWeight[a] = 0 /\ FrameWeight[Top] = 0
  BY <1>0, <1>1, <1>6, TopTyped, FrameWeights
<1>8. /\ Moved(stack', Depth - 1, stack, {a, f}, 0)
      /\ Depth \in Nat \ {0} /\ Depth = Len(stack)
      /\ Len(stack') = Depth + 1 /\ stack'[Depth] = a /\ stack'[Depth + 1] = f
  <2>1. /\ Moved(stack', Depth - 1, stack, {a, f}, (FrameWeight[a] - FrameWeight[Top]) + FrameWeight[f])
        /\ Depth \in Nat \ {0} /\ Depth = Len(stack)
        /\ Len(stack') = Depth + 1 /\ stack'[Depth] = a /\ stack'[Depth + 1] = f
    <3>1. a \in Activation /\ f \in Activation /\ stack # <<>> /\ TypeOK
      BY <1>0, <1>1, <1>5, <1>6
    <3>2. stack' = Append(Append(Popped, a), f)
      BY <1>6
    <3> QED BY <3>1, <3>2, TopThen
  <2> QED BY <1>5, <1>7, <2>1
<1>9. /\ \A i \in n + 1 .. Len(stack) : stack[i].fn = "Do_ast_queue" /\ ~IsClear(stack[i])
      /\ n < Len(stack) /\ 0 \in Int /\ \A k \in 1 .. n : k \in 1 .. Len(stack)
      /\ Moved(stack', n, stack, {a, f}, 0)
  <2>1. \A i \in n + 1 .. Len(stack) : stack[i].fn = "Do_ast_queue" /\ ~IsClear(stack[i])
    BY <1>0, <1>1, OnlyTop DEF IsClear
  <2>2. n < Len(stack) /\ 0 \in Int /\ \A k \in 1 .. n : k \in 1 .. Len(stack)
    BY <1>8
  <2> QED BY <1>8, <2>1, <2>2
<1>10. /\ ~IsClear(a) /\ ~IsClear(f) /\ ~IsScan(f) /\ a.fn # "Add" /\ f.fn # "Add"
       /\ \A x : ~Runs(a, x)
  BY <1>5, <1>6 DEF IsClear, IsScan, Runs
<1> DEFINE F == {a, f}
<1>11. /\ \A b \in F : ~IsClear(b) /\ (IsScan(b) => asts_enabled) /\ b.fn # "Add" /\ (IsScan(b) => b.lptr = 0)
       /\ \A b \in F : \A x : Runs(b, x) => x = e.item
       /\ Moved(stack', n, stack, F, 0)
  BY <1>2, <1>5, <1>6, <1>9, <1>10
<1> HIDE DEF n, F
<1>12. TypeOK' /\ CountSound'
  <2>1. RestOK'
    BY <1>0, <1>1, <1>5 DEF RestOK, TypeOK
  <2>2. Counted(0)
    BY <1>1 DEF Counted
  <2> QED BY <1>0, <1>4, <1>9, <1>11, <2>1, <2>2, TypesKept
<1>13. ClearsSound'
  <2>1. asts_enabled' = asts_enabled
    BY <1>1
  <2> QED BY <1>0, <1>9, <1>11, <2>1, ClearsKept
<1>14. AddsSound'
  BY <1>0, <1>9, <1>11, NoAdds
<1>15. ScansSound'
  <2>1. \A k \in 1 .. n, x \in Item :
           IsScan(stack[k]) /\ Below(x, k, stack, sig_flag)
              => (x \in Sig => ~sig_flag'[x]) /\ \A b \in F : ~Runs(b, x)
    <3> SUFFICES ASSUME NEW k \in 1 .. n, NEW x \in Item, Below(x, k, stack, sig_flag)
                 PROVE  (x \in Sig => ~sig_flag'[x]) /\ \A b \in F : ~Runs(b, x)
      OBVIOUS
    <3>1. x \in Sig => ~sig_flag'[x]
      BY <1>5 DEF Below, FlagsMasked
    <3>2. k \in 1 .. Len(stack)
      BY <1>9
    <3>3. x # e.item
      BY <1>0, <1>1, <3>2, RunsNotBelow
    <3> QED BY <1>11, <3>1, <3>3
  <2>2. \A k \in 1 .. n, l \in 1 .. Len(queue) :
           IsScan(stack[k]) /\ (\A i \in 1 .. l : Below(queue[i].item, k, stack, sig_flag))
              => l \in 1 .. Len(queue') /\ \A i \in 1 .. l : queue'[i] = queue[i]
    <3> SUFFICES ASSUME NEW k \in 1 .. n, NEW l \in 1 .. Len(queue),
                        \A i \in 1 .. l : Below(queue[i].item, k, stack, sig_flag)
                 PROVE  l \in 1 .. Len(queue') /\ \A i \in 1 .. l : queue'[i] = queue[i]
      OBVIOUS
    <3>1. k \in 1 .. Len(stack)
      BY <1>9
    <3>2. ~Below(e.item, k, stack, sig_flag)
      BY <1>0, <1>1, <3>1, RunsNotBelow
    <3>3. p \notin 1 .. l
      BY <3>2
    <3>4. l < p /\ \A i \in 1 .. l : i \in 1 .. Len(queue) /\ i < p
      BY <1>3, <1>4, <3>3
    <3> QED BY <1>4, <3>4
  <2>3. \A k \in n + 1 .. Len(stack') : IsScan(stack'[k]) /\ stack'[k].lptr # 0 => ScanAt(k)'
    BY <1>11 DEF Moved
  <2> QED BY <1>0, <1>4, <1>11, <2>1, <2>2, <2>3, ScansKept
<1>16. \A x \in Item : Accounted(x) => Accounted(x)'
  <2>1. \A i \in n + 1 .. Len(stack) : stack[i].fn \notin {"handler", "callback"}
    BY <1>9
  <2>2. FlagsMasked /\ NotesKept /\ CheckStays
    BY <1>1, <1>5 DEF NotesKept, CheckStays
  <2> QED BY <1>0, <1>11, <2>1, <2>2, StaysAccounted
<1>17. IgnoreAccounted'
  <2> SUFFICES ASSUME Watched', NEW i \in 1 .. Len(queue')
               PROVE  Accounted(queue[i].item)'
    BY DEF IgnoreAccounted
  <2>1. Watched
    BY <1>1 DEF Watched
  <2>2. PICK j \in 1 .. Len(queue) : queue'[i] = queue[j]
    BY <1>4
  <2>3. PICK x \in Item : x = queue[j].item
    BY <1>0, EntryFields DEF TypeOK
  <2>4. Accounted(x)
    BY <1>0, <2>1, <2>3 DEF IgnoreAccounted
  <2> QED BY <1>16, <2>2, <2>3, <2>4
<1>18. Looked'
  <2> SUFFICES ASSUME NEW k \in 1 .. Len(stack'), NEW l \in 1 .. Len(queue'), Innermost(k)',
                      queue'[l].id = stack'[k].lptr
               PROVE  FALSE
    BY DEF Looked
  <2>1. k = Depth
    <3>1. k # Depth + 1
      BY <1>8, <1>10 DEF Innermost
    <3>2. Depth \in k + 1 .. Len(stack') \/ k = Depth
      BY <1>8, <3>1
    <3> QED BY <1>6, <1>8, <3>2 DEF Innermost, IsScan
  <2>2. queue'[l].id # 0
    BY <1>4, EntryFields
  <2> QED BY <1>6, <1>8, <2>1, <2>2
<1> QED BY <1>4, <1>12, <1>13, <1>14, <1>15, <1>17, <1>18 DEF DispatchInv

-----------------------------------------------------------------------------
(* ... the call of Clear_ast_queue by a mishap or by setpop, ...            *)
LEMMA ClearStep ==
    ASSUME DispatchInv, NEW then \in {"mishap", "unwind"}, Clear(then), UserCode,
           then # "unwind" => stack = <<>>, disable' \in BOOLEAN
    PROVE  DispatchInv'
<1> DEFINE c == Clearing(then, asts_enabled)  n == Len(stack)  F == {c, Async}
           d == FrameWeight[c] + FrameWeight[Async]
<1>0. /\ TypeOK /\ CountSound /\ QueueSound /\ ClearsSound /\ AddsSound /\ ScansSound
      /\ asts_enabled \in BOOLEAN
  BY DEF DispatchInv, TypeOK
<1>1. /\ UNCHANGED <<queue, queue_end, ring, trap, seen, raised, sig_flag, queue_flags, ignore,
                     cleared, last_run>>
      /\ ops < MaxOp /\ ops' = ops + 1 /\ ~asts_enabled' /\ asts_enabled' = FALSE /\ ~In("Add")
  BY DEF Clear, pending, pairs, UserCode, In
<1>2. /\ c \in Activation /\ c.fn = "Clear_ast_queue" /\ c.then = then /\ c.enabled = asts_enabled
      /\ Async \in Activation /\ Async.fn = "Async_raise_signal"
  <2>1. c \in Activation
    BY <1>0, FrameKinds
  <2>2. Async \in Activation
    BY FreshKinds DEF Fresh
  <2> QED BY <2>1, <2>2 DEF Clearing, Async
<1>3. stack' = Append(Append(stack, c), Async)
  <2>1. IsSequence(stack)
    BY <1>0 DEF IsSequence, TypeOK
  <2> QED BY <2>1, TwoAppended DEF Clear
<1>4. d \in Int /\ d <= 3
  <2>1. FrameWeight[c] \in Nat /\ FrameWeight[c] <= 3 /\ FrameWeight[Async] = 0
    BY <1>2, FrameWeights
  <2> QED BY <2>1
<1> HIDE DEF c, n, F, d
<1>5. /\ Moved(stack', n, stack, F, d) /\ n = Len(stack) /\ n \in Nat
      /\ Len(stack') = n + 2 /\ stack'[n + 1] = c /\ stack'[n + 2] = Async
  BY <1>0, <1>2, <1>3, Pushed DEF n, F, d
<1>6. /\ \A i \in 1 .. n : stack'[i] = stack[i]
      /\ \A i \in 1 .. Len(stack') : i \in 1 .. n \/ i = n + 1 \/ i = n + 2
      /\ \A i \in n + 1 .. Len(stack) : FALSE
      /\ n + 1 \in 1 .. Len(stack')
  BY <1>5 DEF Moved
<1>7. TypeOK' /\ CountSound'
  <2>1. Counted(d)
    BY <1>1, <1>4 DEF Counted
  <2>2. RestOK'
    <3>1. ops' \in 0 .. MaxOp
      BY <1>0, <1>1, AstQueueAssumption DEF TypeOK
    <3> QED BY <1>0, <1>1, <3>1 DEF RestOK, TypeOK
  <2>3. queue' \in Seq(Entry) /\ queue_end' \in 0 .. MaxRaise
    BY <1>0, <1>1 DEF TypeOK
  <2> QED BY <1>0, <1>4, <1>5, <2>1, <2>2, <2>3, TypesKept
<1>8. QueueSound'
  BY <1>0, <1>1, QueueStays DEF TypeOK
<1>9. ClearsSound'
  <2>1. ASSUME NEW i \in 1 .. Len(stack'), IsClear(stack'[i])
        PROVE  /\ stack'[i].then # "unwind" => i = 1
               /\ stack'[i].enabled \/ \E j \in 1 .. i - 1 : IsClear(stack'[j])
               /\ \A j \in i + 1 .. Len(stack') : ~IsScan(stack'[j])
    <3>1. CASE i \in 1 .. n
      <4>1. IsClear(stack[i]) /\ stack'[i] = stack[i] /\ i \in 1 .. Len(stack)
        BY <1>5, <1>6, <2>1, <3>1
      <4>2. \A j \in 1 .. i - 1 : stack'[j] = stack[j]
        BY <1>5, <1>6, <3>1
      <4>3. ASSUME NEW j \in i + 1 .. Len(stack')
            PROVE  ~IsScan(stack'[j])
        <5>1. CASE j \in 1 .. n
          <6>1. j \in i + 1 .. Len(stack) /\ stack'[j] = stack[j]
            BY <1>5, <1>6, <3>1, <5>1
          <6> QED BY <1>0, <4>1, <6>1 DEF ClearsSound
        <5>2. CASE j = n + 1 \/ j = n + 2
          BY <1>2, <1>5, <5>2 DEF IsScan
        <5> QED BY <1>5, <1>6, <3>1, <5>1, <5>2
      <4> QED BY <1>0, <4>1, <4>2, <4>3 DEF ClearsSound
    <3>2. CASE i = n + 1
      <4>1. stack'[i] = c
        BY <1>5, <3>2
      <4>2. then # "unwind" => i = 1
        <5>1. stack = <<>> => Len(stack) = 0
          BY NoFrames
        <5> QED BY <1>5, <3>2, <5>1
      <4>3. asts_enabled \/ \E j \in 1 .. i - 1 : IsClear(stack'[j])
        <5>1. asts_enabled \/ \E j \in 1 .. n : IsClear(stack[j])
          BY <1>0, <1>5 DEF ClearsSound
        <5> QED BY <1>5, <1>6, <3>2, <5>1
      <4>4. \A j \in i + 1 .. Len(stack') : j = n + 2
        BY <1>5, <3>2
      <4>5. ~IsScan(stack'[n + 2])
        BY <1>2, <1>5 DEF IsScan
      <4> QED BY <1>2, <4>1, <4>2, <4>3, <4>4, <4>5
    <3>3. CASE i = n + 2
      BY <1>2, <1>5, <2>1, <3>3 DEF IsClear
    <3> QED BY <1>6, <3>1, <3>2, <3>3
  <2>2. \E i \in 1 .. Len(stack') : IsClear(stack'[i])
    BY <1>2, <1>5, <1>6 DEF IsClear
  <2> QED BY <1>1, <2>1, <2>2 DEF ClearsSound
<1>10. \A a \in F : a.fn \in {"Clear_ast_queue", "Async_raise_signal"}
  BY <1>2 DEF F
<1>11. AddsSound'
  BY <1>0, <1>1, <1>5, <1>10, NoAdds
<1>12. ScansSound'
  <2>1. \A k \in 1 .. n, x \in Item :
           IsScan(stack[k]) /\ Below(x, k, stack, sig_flag)
              => (x \in Sig => ~sig_flag'[x]) /\ \A a \in F : ~Runs(a, x)
    BY <1>1, <1>10 DEF Below, Runs
  <2>2. \A k \in n + 1 .. Len(stack') : ~IsScan(stack'[k])
    <3>1. \A k \in n + 1 .. Len(stack') : stack'[k] \in F
      BY <1>5 DEF Moved
    <3> QED BY <1>10, <3>1 DEF IsScan
  <2>3. \A k \in 1 .. n, l \in 1 .. Len(queue) :
           IsScan(stack[k]) /\ (\A i \in 1 .. l : Below(queue[i].item, k, stack, sig_flag))
              => l \in 1 .. Len(queue') /\ \A i \in 1 .. l : queue'[i] = queue[i]
    BY <1>1
  <2>4. Len(queue') \in Nat
    BY <1>7, LenProperties DEF TypeOK
  <2> QED BY <1>0, <1>5, <2>1, <2>2, <2>3, <2>4, ScansKept
<1>13. IgnoreAccounted' /\ Looked'
  BY <1>1 DEF IgnoreAccounted, Looked, Watched
<1> QED BY <1>7, <1>8, <1>9, <1>11, <1>12, <1>13 DEF DispatchInv

(* ... by a program that catches the mishap, or by any.                     *)
LEMMA MishapStep ==
    ASSUME Tame, DispatchInv, RaiseMishap \/ Setpop
    PROVE  DispatchInv'
<1>1. UserCode /\ TypeOK
  BY DEF RaiseMishap, Setpop, Does, DispatchInv
<1>2. CASE RaiseMishap
  <2>1. stack = <<>>
    BY <1>2 DEF RaiseMishap, Does, Tame
  <2>2. Clear("mishap") /\ disable' \in BOOLEAN
    BY <1>1, <1>2 DEF RaiseMishap, TypeOK
  <2> QED BY <1>1, <2>1, <2>2, ClearStep
<1>3. CASE Setpop
  <2>1. Clear("unwind") /\ disable' \in BOOLEAN
    BY <1>3 DEF Setpop
  <2> QED BY <1>1, <2>1, ClearStep
<1> QED BY <1>2, <1>3

-----------------------------------------------------------------------------
(* The entries of s come from the first n of q, each but once and in order. *)
From(s, q, n) ==
    /\ s \in Seq(Entry)
    /\ \A a \in 1 .. Len(s) : \E j \in 1 .. n : s[a] = q[j]
    /\ (\A i, j \in 1 .. Len(q) : q[i].id = q[j].id => i = j)
          => \A a, b \in 1 .. Len(s) : s[a].id = s[b].id => a = b
    /\ (\A i, j \in 1 .. Len(q) : i < j => q[i].id < q[j].id)
          => \A a, b \in 1 .. Len(s) : a < b => s[a].id < s[b].id

(* The empty sequence is one such, ...                                      *)
LEMMA FromNone ==
    ASSUME NEW q
    PROVE  From(<<>>, q, 0)
<1>1. Len(<<>>) = 0
  BY NoFrames
<1> DEFINE s == <<>>
<1>2. s \in Seq(Entry)
  OBVIOUS
<1>3. Len(s) = 0
  BY <1>1
<1> HIDE DEF s
<1>4. From(s, q, 0)
  BY <1>2, <1>3 DEF From
<1> QED BY <1>4 DEF s

(* ... and so is one more entry looked at, be it kept or left out.          *)
LEMMA FromMore ==
    ASSUME NEW q \in Seq(Entry), NEW n \in Nat, n + 1 \in 1 .. Len(q), NEW s, From(s, q, n)
    PROVE  From(s, q, n + 1) /\ From(Append(s, q[n + 1]), q, n + 1)
<1> DEFINE e == q[n + 1]  u == Append(s, e)
<1>1. e \in Entry /\ Len(s) \in Nat /\ Len(q) \in Nat
  BY ElementOfSeq, LenProperties DEF From
<1>2. /\ u \in Seq(Entry) /\ Len(u) = Len(s) + 1 /\ u[Len(s) + 1] = e
      /\ \A a \in 1 .. Len(s) : u[a] = s[a]
  BY <1>1, AppendProperties DEF From
<1>3. From(s, q, n + 1)
  BY DEF From
<1> HIDE DEF u
<1>4. \A a \in 1 .. Len(u) : a \in 1 .. Len(s) \/ a = Len(u)
  BY <1>1, <1>2
<1>5. \A a \in 1 .. Len(u) : \E j \in 1 .. n + 1 : u[a] = q[j]
  <2> SUFFICES ASSUME NEW a \in 1 .. Len(u)
               PROVE  \E j \in 1 .. n + 1 : u[a] = q[j]
    OBVIOUS
  <2>1. CASE a \in 1 .. Len(s)
    <3>1. PICK j \in 1 .. n : s[a] = q[j]
      BY <2>1 DEF From
    <3>2. j \in 1 .. n + 1
      OBVIOUS
    <3> QED BY <1>2, <2>1, <3>1, <3>2
  <2>2. CASE a = Len(u)
    <3>1. n + 1 \in 1 .. n + 1
      OBVIOUS
    <3> QED BY <1>2, <2>2, <3>1 DEF e
  <2> QED BY <1>4, <2>1, <2>2
<1>6. ASSUME \A i, j \in 1 .. Len(q) : q[i].id = q[j].id => i = j,
             NEW a \in 1 .. Len(u), NEW b \in 1 .. Len(u), u[a].id = u[b].id
      PROVE  a = b
  <2>1. ASSUME NEW i \in 1 .. Len(s)
        PROVE  s[i].id # e.id
    <3>1. PICK j \in 1 .. n : s[i] = q[j]
      BY <2>1 DEF From
    <3>2. j \in 1 .. Len(q) /\ j # n + 1
      BY <1>1, <3>1
    <3> QED BY <1>6, <3>1, <3>2 DEF e
  <2>2. CASE a \in 1 .. Len(s) /\ b \in 1 .. Len(s)
    <3>1. s[a].id = s[b].id
      BY <1>2, <1>6, <2>2
    <3> QED BY <1>6, <2>2, <3>1 DEF From
  <2>3. CASE a \in 1 .. Len(s) /\ b = Len(u)
    BY <1>2, <1>6, <2>1, <2>3
  <2>4. CASE b \in 1 .. Len(s) /\ a = Len(u)
    BY <1>2, <1>6, <2>1, <2>4
  <2> QED BY <1>4, <2>2, <2>3, <2>4
<1>7. ASSUME \A i, j \in 1 .. Len(q) : i < j => q[i].id < q[j].id,
             NEW a \in 1 .. Len(u), NEW b \in 1 .. Len(u), a < b
      PROVE  u[a].id < u[b].id
  <2>1. ASSUME NEW i \in 1 .. Len(s)
        PROVE  s[i].id < e.id
    <3>1. PICK j \in 1 .. n : s[i] = q[j]
      BY <2>1 DEF From
    <3>2. j \in 1 .. Len(q) /\ j < n + 1
      BY <1>1, <3>1
    <3> QED BY <1>7, <3>1, <3>2 DEF e
  <2>2. CASE a \in 1 .. Len(s) /\ b \in 1 .. Len(s)
    <3>1. s[a].id < s[b].id
      BY <1>7, <2>2 DEF From
    <3> QED BY <1>2, <2>2, <3>1
  <2>3. CASE a \in 1 .. Len(s) /\ b = Len(u)
    BY <1>2, <2>1, <2>3
  <2>4. ~(b \in 1 .. Len(s) /\ a = Len(u)) /\ ~(a = Len(u) /\ b = Len(u))
    BY <1>1, <1>2, <1>7
  <2> QED BY <1>4, <2>2, <2>3, <2>4
<1>8. From(u, q, n + 1)
  BY <1>2, <1>5, <1>6, <1>7 DEF From
<1> QED BY <1>3, <1>8 DEF u

(* What Clear_ast_queue leaves of the queue is part of it.                  *)
LEMMA SurvivorsFrom ==
    ASSUME NEW q \in Seq(Entry)
    PROVE  From(Survivors(q), q, Len(q))
<1> DEFINE N == Len(q)
           Filtered(s, i) == IF q[i].item \in ErrorDelete THEN s ELSE Append(s, q[i])
           Step(g) == [i \in 0 .. N |-> IF i = 0 THEN <<>>
                                        ELSE IF q[i].item \in ErrorDelete THEN g[i - 1]
                                        ELSE Append(g[i - 1], q[i])]
           after == CHOOSE g : g = Step(g)
           G == [i \in 1 .. N |-> [s \in Seq(Entry) |-> Filtered(s, i)]]
<1>1. N \in Nat /\ \A i \in 1 .. N : q[i] \in Entry
  BY LenProperties, ElementOfSeq
<1>2. G \in [1 .. N -> [Seq(Entry) -> Seq(Entry)]]
  BY <1>1
<1>3. \E f \in [0 .. N -> Seq(Entry)] : f[0] = <<>> /\ \A i \in 1 .. N : f[i] = G[i][f[i - 1]]
  <2> DEFINE x == <<>>
  <2>1. G \in StepFunctions(Seq(Entry), N)
    BY <1>2 DEF StepFunctions
  <2>2. x \in Seq(Entry)
    OBVIOUS
  <2> HIDE DEF G, N, x
  <2>3. HasIterates(Seq(Entry), x, N, G)
    BY <1>1, <2>1, <2>2, IteratesExist
  <2> QED BY <2>3 DEF HasIterates, x
<1>4. PICK f \in [0 .. N -> Seq(Entry)] : f[0] = <<>> /\ \A i \in 1 .. N : f[i] = Filtered(f[i - 1], i)
  <2>1. PICK f \in [0 .. N -> Seq(Entry)] : f[0] = <<>> /\ \A i \in 1 .. N : f[i] = G[i][f[i - 1]]
    BY <1>3
  <2>2. ASSUME NEW i \in 1 .. N
        PROVE  f[i] = Filtered(f[i - 1], i)
    <3>1. N \in Nat
      BY <1>1
    <3> HIDE DEF N, Filtered
    <3>2. i - 1 \in 0 .. N
      BY <3>1
    <3>3. f[i - 1] \in Seq(Entry)
      BY <3>2
    <3>4. f[i] = G[i][f[i - 1]]
      BY <2>1
    <3> QED BY <3>3, <3>4
  <2> QED BY <2>1, <2>2
<1>5. f = Step(f)
  <2>1. ASSUME NEW i \in 0 .. N
        PROVE  f[i] = IF i = 0 THEN <<>>
                      ELSE IF q[i].item \in ErrorDelete THEN f[i - 1]
                      ELSE Append(f[i - 1], q[i])
    <3>1. N \in Nat
      BY <1>1
    <3> HIDE DEF N
    <3>2. i = 0 \/ i \in 1 .. N
      BY <3>1
    <3> QED BY <1>4, <3>2
  <2> QED BY <2>1
<1>6. after = Step(after)
  BY <1>5
<1>7. Survivors(q) = after[N]
  BY DEF Survivors
<1>8. after[0] = <<>> /\ \A i \in 1 .. N : after[i] = Filtered(after[i - 1], i)
  <2> HIDE DEF after, N
  <2>1. ASSUME NEW i \in 0 .. N
        PROVE  after[i] = IF i = 0 THEN <<>>
                          ELSE IF q[i].item \in ErrorDelete THEN after[i - 1]
                          ELSE Append(after[i - 1], q[i])
    BY <1>6, Zenon
  <2>2. after[0] = <<>>
    BY <1>1, <2>1
  <2>3. ASSUME NEW i \in 1 .. N
        PROVE  after[i] = Filtered(after[i - 1], i)
    <3>1. i \in 0 .. N /\ i # 0
      BY <1>1
    <3> QED BY <2>1, <3>1
  <2> QED BY <2>2, <2>3
<1> HIDE DEF after
<1> DEFINE T == {i \in Nat : i <= N => From(after[i], q, i)}
<1>9. 0 \in T
  BY <1>8, FromNone
<1>10. ASSUME NEW i \in Nat, i \in T
       PROVE  i + 1 \in T
  <2> SUFFICES ASSUME i + 1 <= N
               PROVE  From(after[i + 1], q, i + 1)
    OBVIOUS
  <2>1. i + 1 \in 1 .. N /\ (i + 1) - 1 = i
    BY <1>1
  <2>2. after[i + 1] = Filtered(after[i], i + 1)
    <3> HIDE DEF Filtered
    <3> QED BY <1>8, <2>1
  <2>3. From(after[i], q, i)
    BY <1>1, <1>10
  <2>4. From(after[i], q, i + 1) /\ From(Append(after[i], q[i + 1]), q, i + 1)
    BY <2>1, <2>3, FromMore
  <2> QED BY <2>2, <2>4
<1>11. N \in T
  <2> HIDE DEF T
  <2> QED BY <1>1, <1>9, <1>10, NatSetInduction
<1> QED BY <1>1, <1>7, <1>11

-----------------------------------------------------------------------------
(* The counts, when what an activation of Clear_ast_queue gives way to may  *)
(* put one ast less in the ring than it.                                    *)
LEMMA CountCleared ==
    ASSUME TypeOK, CountSound, stack # <<>>, NEW w \in Nat, w < FrameWeight[Top],
           Total(FrameWeight, stack', w),
           ring' = ring \/ ring' = Append(ring, QueueCheck), UNCHANGED <<seen, raised, ops>>
    PROVE  CountSound' /\ ring' \in Seq(Item \cup {QueueCheck})
<1> DEFINE A == Item \cup {QueueCheck}
<1>1. PICK asts, frames :
         /\ Total(AstWeight, ring, asts) /\ seen + asts <= raised
         /\ Total(FrameWeight, stack, frames)
         /\ Len(ring) + seen + frames <= raised + 3 * ops
  BY DEF CountSound
<1>2. ring \in Seq(A) /\ AstWeight \in [A -> Nat] /\ Len(ring) \in Nat /\ asts \in Nat
      /\ QueueCheck \in A /\ AstWeight[QueueCheck] = 0
  <2>1. ring \in Seq(A) /\ AstWeight \in [A -> Nat] /\ Len(ring) \in Nat
    BY AstWeights, LenProperties DEF TypeOK
  <2>2. QueueCheck \in A /\ AstWeight[QueueCheck] = 0
    BY AstWeights
  <2> HIDE DEF A
  <2> QED BY <1>1, <2>1, <2>2, TotalNat
<1>3. frames \in Nat /\ frames - FrameWeight[Top] \in Nat /\ FrameWeight[Top] \in Nat
  <2>1. stack \in Seq(Activation) /\ Popped \in Seq(Activation) /\ FrameWeight[Top] \in Nat
    BY TopTyped
  <2>2. Total(FrameWeight, Popped, frames - FrameWeight[Top])
    BY <1>1, <2>1, TotalFront, FrameWeights DEF Top, Depth, Popped
  <2> QED BY <1>1, <2>1, <2>2, TotalNat, FrameWeights
<1> HIDE DEF A
<1>4. /\ ring' \in Seq(A) /\ Len(ring') \in Nat /\ Len(ring') <= Len(ring) + 1
      /\ Total(AstWeight, ring', asts)
  <2>1. CASE ring' = ring
    BY <1>1, <1>2, <2>1
  <2>2. CASE ring' = Append(ring, QueueCheck)
    <3>1. ring' \in Seq(A) /\ Len(ring') = Len(ring) + 1
      BY <1>2, <2>2, AppendProperties
    <3>2. Total(AstWeight, ring', asts + AstWeight[QueueCheck])
      BY <1>1, <1>2, <2>2, TotalAppend
    <3>3. asts + AstWeight[QueueCheck] = asts
      BY <1>2
    <3> QED BY <1>2, <3>1, <3>2, <3>3
  <2> QED BY <2>1, <2>2
<1>5. Len(ring') + seen' + w <= raised' + 3 * ops'
  <2>1. \A m, l, s, r, o, t \in Nat :
           l + s + frames <= r + 3 * o /\ t <= frames /\ w < t /\ m <= l + 1
              => m + s + w <= r + 3 * o
    BY <1>3
  <2>2. FrameWeight[Top] <= frames /\ seen \in Nat /\ raised \in Nat /\ ops \in Nat
    BY <1>3 DEF TypeOK
  <2> QED BY <1>1, <1>2, <1>3, <1>4, <2>1, <2>2
<1>6. seen' + asts <= raised'
  BY <1>1
<1> QED BY <1>4, <1>5, <1>6 DEF CountSound, A

(* What Clear_ast_queue leaves.                                             *)
LEMMA ClearedQueue ==
    ASSUME DispatchInv, ClearEntries
    PROVE  /\ queue' \in Seq(Entry) /\ queue_end' \in 0 .. MaxRaise /\ QueueSound'
           /\ queue_end' = 0 => Len(queue') = 0
           /\ ring' = ring \/ ring' = Append(ring, QueueCheck)
           /\ trap' \in BOOLEAN
           /\ UNCHANGED <<seen, raised, ops, queue_flags, cleared, last_run>>
<1>0. TypeOK /\ CountSound /\ QueueSound
  BY DEF DispatchInv
<1>1. queue \in Seq(Entry) /\ Len(queue) \in Nat
  BY <1>0, LenProperties DEF TypeOK
<1> DEFINE s == Survivors(queue)
<1>2. From(s, queue, Len(queue))
  BY <1>1, SurvivorsFrom
<1>3. queue' = s /\ queue_end' = IF s = <<>> THEN 0 ELSE Last(s).id
  BY <1>0, UpToEnd DEF ClearEntries
<1> HIDE DEF s
<1>4. /\ s \in Seq(Entry) /\ Len(s) \in Nat /\ (s = <<>> <=> Len(s) = 0)
      /\ \A i \in 1 .. Len(s) : s[i] \in Entry /\ s[i].id # 0 /\ s[i].id \in 1 .. MaxRaise
  <2>1. s \in Seq(Entry)
    BY <1>2 DEF From
  <2>2. \A i \in 1 .. Len(s) : s[i].id \in 1 .. MaxRaise
    <3>1. \A e \in Entry : e.id \in 1 .. MaxRaise
      BY DEF Entry
    <3>2. \A i \in 1 .. Len(s) : s[i] \in Entry
      BY <2>1, ElementOfSeq
    <3> QED BY <3>1, <3>2
  <2> QED BY <2>1, <2>2, EntryFields, EmptySeq
<1>5. queue_end' = IF Len(s) = 0 THEN 0 ELSE s[Len(s)].id
  BY <1>3, <1>4 DEF Last
<1>6. queue_end' \in 0 .. MaxRaise /\ (queue_end' = 0 => Len(s) = 0)
  <2>1. Len(s) # 0 => Len(s) \in 1 .. Len(s)
    BY <1>4
  <2>2. MaxRaise \in Nat
    BY AstQueueAssumption
  <2> QED BY <1>4, <1>5, <2>1, <2>2
<1>7. UNCHANGED <<seen, raised, ops, queue_flags, cleared, last_run>>
  BY DEF ClearEntries, counts
<1>8. QueueSound'
  <2>1. \A i, j \in 1 .. Len(s) : s[i].id = s[j].id => i = j
    BY <1>0, <1>2 DEF From, QueueSound
  <2>2. \A i \in 1 .. Len(s) : s[i].id <= seen /\ s[i].item \notin Never
    <3> SUFFICES ASSUME NEW i \in 1 .. Len(s)
                 PROVE  s[i].id <= seen /\ s[i].item \notin Never
      OBVIOUS
    <3>1. PICK j \in 1 .. Len(queue) : s[i] = queue[j]
      BY <1>2 DEF From
    <3> QED BY <1>0, <3>1 DEF QueueSound
  <2> QED BY <1>3, <1>5, <1>7, <2>1, <2>2 DEF QueueSound
<1>9. /\ ring' = ring \/ ring' = Append(ring, QueueCheck)
      /\ trap' \in BOOLEAN
  <2>1. UNCHANGED <<ring, trap>> \/ Ring!Arrive(QueueCheck)
    BY DEF ClearEntries, pending
  <2>2. CASE UNCHANGED <<ring, trap>>
    BY <1>0, <2>2 DEF TypeOK
  <2>3. CASE Ring!Arrive(QueueCheck)
    <3>1. stack # <<>> /\ Top \in Activation /\ Top.fn = "Clear_ast_queue"
      BY <1>0, TopTyped DEF ClearEntries, In
    <3>2. FrameWeight[Top] >= 1
      BY <3>1, FrameWeights
    <3> QED BY <1>0, <2>3, <3>1, <3>2, RingHasRoom DEF Ring!Arrive
  <2> QED BY <2>1, <2>2, <2>3
<1> QED BY <1>3, <1>4, <1>6, <1>7, <1>8, <1>9

(* The call that is ending, and those it is made in.                        *)
LEMMA ClearTop ==
    ASSUME DispatchInv, In("Clear_ast_queue")
    PROVE  /\ stack # <<>> /\ Top \in Activation /\ IsClear(Top) /\ ~asts_enabled
           /\ Depth \in Nat \ {0} /\ Depth = Len(stack) /\ Top = stack[Depth]
           /\ Top.enabled \in BOOLEAN
           /\ Top.then # "unwind" => Depth = 1 /\ Top.enabled /\ Popped = <<>>
           /\ FrameWeight[Top] = IF Top.then = "unwind" THEN 3 ELSE IF Top.then = "reset" THEN 2 ELSE 1
<1>0. TypeOK /\ ClearsSound
  BY DEF DispatchInv
<1>1. /\ stack # <<>> /\ Top \in Activation /\ IsClear(Top) /\ Depth \in Nat \ {0} /\ Depth = Len(stack)
      /\ Top = stack[Depth] /\ Popped \in Seq(Activation) /\ Len(Popped) = Depth - 1
  BY <1>0, TopTyped DEF In, IsClear
<1>2. Depth \in 1 .. Len(stack)
  BY <1>1
<1>3. ~asts_enabled /\ (Top.then # "unwind" => Depth = 1)
      /\ (Top.enabled \/ \E j \in 1 .. Depth - 1 : IsClear(stack[j]))
  BY <1>0, <1>1, <1>2 DEF ClearsSound
<1>4. Top.then # "unwind" => Top.enabled /\ Popped = <<>>
  BY <1>1, <1>3, EmptySeq
<1>5. Top.enabled \in BOOLEAN
  BY <1>1, FrameFields DEF IsClear
<1>6. FrameWeight[Top] = IF Top.then = "unwind" THEN 3 ELSE IF Top.then = "reset" THEN 2 ELSE 1
  BY <1>1, FrameWeights DEF IsClear
<1> QED BY <1>1, <1>3, <1>4, <1>5, <1>6

(* The end of Clear_ast_queue, whatever it was called for.                  *)
LEMMA ClearedStep ==
    ASSUME DispatchInv, ClearEntries, ignore' \in BOOLEAN, ignore' => queue_end' = 0,
           asts_enabled' \in BOOLEAN, disable' \in BOOLEAN, sig_flag' \in [Sig -> BOOLEAN],
           stack' \in Seq(Activation), NEW w \in Nat, w < FrameWeight[Top],
           Total(FrameWeight, stack', w), ClearsSound',
           \A k \in 1 .. Len(stack') : stack'[k].fn \notin {"Do_ast_queue", "Add"}
    PROVE  DispatchInv'
<1>0. TypeOK /\ CountSound
  BY DEF DispatchInv
<1>1. /\ queue' \in Seq(Entry) /\ queue_end' \in 0 .. MaxRaise /\ QueueSound'
      /\ queue_end' = 0 => Len(queue') = 0
      /\ ring' = ring \/ ring' = Append(ring, QueueCheck)
      /\ trap' \in BOOLEAN
      /\ UNCHANGED <<seen, raised, ops, queue_flags, cleared, last_run>>
  BY ClearedQueue
<1>2. CountSound' /\ ring' \in Seq(Item \cup {QueueCheck})
  <2>1. stack # <<>>
    BY DEF ClearEntries, In
  <2> QED BY <1>0, <1>1, <2>1, CountCleared
<1>3. TypeOK'
  BY <1>0, <1>1, <1>2 DEF TypeOK
<1>4. IgnoreAccounted'
  BY <1>1 DEF IgnoreAccounted, Watched
<1>5. ScansSound' /\ AddsSound' /\ Looked'
  BY Restarted
<1> QED BY <1>1, <1>2, <1>3, <1>4, <1>5 DEF DispatchInv

-----------------------------------------------------------------------------
(* A set of natural numbers has a least one.                                *)
LEMMA LeastOf ==
    ASSUME NEW S \in SUBSET Nat, NEW x \in S
    PROVE  \E m \in S : \A y \in S : m <= y
<1> SUFFICES ASSUME \A m \in S : \E y \in S : y < m
             PROVE  FALSE
  OBVIOUS
<1> DEFINE T == {n \in Nat : \A y \in S : n <= y}
<1>1. 0 \in T
  OBVIOUS
<1>2. ASSUME NEW n \in Nat, n \in T
      PROVE  n + 1 \in T
  <2>1. n \notin S
    BY <1>2
  <2>2. \A y \in S : n <= y /\ y # n
    BY <1>2, <2>1
  <2> QED BY <2>2
<1>3. x + 1 \in T
  <2> HIDE DEF T
  <2>1. x + 1 \in Nat
    OBVIOUS
  <2> QED BY <1>1, <1>2, <2>1, NatSetInduction
<1> QED BY <1>3

(* What an outermost call restores when the others are left.                *)
LEMMA OutermostEnables ==
    ASSUME DispatchInv, In("Clear_ast_queue")
    PROVE  Restored = TRUE
<1> DEFINE C == {i \in 1 .. Depth : stack[i].fn = "Clear_ast_queue"}
<1>1. Depth = Len(stack) /\ Depth \in C /\ C \in SUBSET Nat
  BY ClearTop DEF IsClear
<1>2. Min(C) \in C /\ \A y \in C : Min(C) <= y
  <2>1. \E m \in C : \A y \in C : m <= y
    <3> HIDE DEF C
    <3> QED BY <1>1, LeastOf
  <2> HIDE DEF C
  <2> QED BY <2>1 DEF Min
<1>3. ClearsSound /\ TypeOK
  BY DEF DispatchInv
<1> DEFINE m == Min(C)
<1>4. Restored = stack[m].enabled
  BY <1>1 DEF Restored
<1>5. m \in 1 .. Len(stack) /\ IsClear(stack[m]) /\ m \in Nat
  BY <1>1, <1>2 DEF IsClear
<1>6. \A j \in 1 .. m - 1 : ~IsClear(stack[j])
  <2> SUFFICES ASSUME NEW j \in 1 .. m - 1, IsClear(stack[j])
               PROVE  FALSE
    OBVIOUS
  <2>1. j \in 1 .. Depth /\ j < m
    BY <1>1, <1>5
  <2>2. j \in C
    BY <2>1 DEF IsClear
  <2> HIDE DEF C
  <2> QED BY <1>2, <1>5, <2>1, <2>2
<1> HIDE DEF m
<1>7. stack[m].enabled
  BY <1>3, <1>5, <1>6 DEF ClearsSound
<1>8. stack[m] \in Activation
  BY <1>3, <1>5, ElementOfSeq DEF TypeOK
<1>9. stack[m].enabled \in BOOLEAN
  BY <1>5, <1>8, FrameFields DEF IsClear
<1> QED BY <1>4, <1>7, <1>9

(* Setpop calls Clear_ast_queue again at the top of the stack.              *)
LEMMA OneClear ==
    ASSUME NEW then \in {"reset", "restart"}, stack' = <<Clearing(then, TRUE), Async>>, ~asts_enabled'
    PROVE  /\ stack' \in Seq(Activation) /\ ClearsSound'
           /\ Total(FrameWeight, stack', IF then = "reset" THEN 2 ELSE 1)
           /\ \A k \in 1 .. Len(stack') : stack'[k].fn \notin {"Do_ast_queue", "Add"}
<1> DEFINE c == Clearing(then, TRUE)  s == <<>>
<1>1. c \in Activation /\ c.fn = "Clear_ast_queue" /\ c.then = then /\ c.enabled
      /\ Async \in Activation /\ Async.fn = "Async_raise_signal"
  <2>1. c \in Activation
    BY FrameKinds
  <2>2. Async \in Activation
    BY FreshKinds DEF Fresh
  <2> QED BY <2>1, <2>2 DEF Clearing, Async
<1> DEFINE w == FrameWeight[c]  v == FrameWeight[Async]  z == 0
<1>2. w = (IF then = "reset" THEN 2 ELSE 1) /\ v = 0 /\ z + w = w /\ w + v = w
  <2>1. w = IF then = "reset" THEN 2 ELSE 1
    BY <1>1, FrameWeights
  <2>2. v = 0
    BY <1>1, FrameWeights
  <2> HIDE DEF w, v
  <2> QED BY <2>1, <2>2
<1>3. s \in Seq(Activation) /\ Len(s) = 0
  OBVIOUS
<1>4. Total(FrameWeight, s, z)
  BY TotalEmpty
<1>5. IsSequence(s)
  BY NoFrames
<1>6. s \o <<c, Async>> = <<c, Async>>
  OBVIOUS
<1> HIDE DEF c, s, z
<1>7. <<c, Async>> = Append(Append(s, c), Async)
  BY <1>5, <1>6, TwoAppended
<1>8. /\ Append(s, c) \in Seq(Activation) /\ Append(Append(s, c), Async) \in Seq(Activation)
  BY <1>1, <1>3
<1>9. Total(FrameWeight, Append(s, c), z + w)
  BY <1>1, <1>3, <1>4, FrameWeights, TotalAppend
<1> DEFINE u == Append(s, c)  y == z + w
<1>10. Total(FrameWeight, u, y) /\ u \in Seq(Activation) /\ y = w
  BY <1>2, <1>8, <1>9
<1> HIDE DEF u, y
<1>11. Total(FrameWeight, Append(u, Async), y + v)
  BY <1>1, <1>10, FrameWeights, TotalAppend
<1>12. stack' \in Seq(Activation) /\ Total(FrameWeight, stack', w)
  BY <1>2, <1>7, <1>8, <1>10, <1>11 DEF c, u
<1>13. Len(stack') = 2 /\ stack'[1] = c /\ stack'[2] = Async
  BY TwoOnly DEF c
<1>14. \A k \in 1 .. Len(stack') : k = 1 \/ k = 2
  BY <1>13
<1>15. \A k \in 1 .. Len(stack') : stack'[k].fn \notin {"Do_ast_queue", "Add"}
  BY <1>1, <1>13, <1>14
<1>16. ClearsSound'
  <2>1. 1 \in 1 .. Len(stack') /\ IsClear(stack'[1]) /\ stack'[1].enabled /\ ~IsClear(stack'[2])
        /\ \A j \in 1 .. Len(stack') : ~IsScan(stack'[j])
    <3>1. IsClear(c) /\ ~IsClear(Async)
      BY <1>1 DEF IsClear
    <3>2. \A j \in 1 .. Len(stack') : ~IsScan(stack'[j])
      BY <1>15 DEF IsScan
    <3>3. 1 \in 1 .. Len(stack')
      BY <1>13
    <3> QED BY <1>1, <1>13, <3>1, <3>2, <3>3
  <2>2. \A i \in 1 .. Len(stack') : \A j \in i + 1 .. Len(stack') : j \in 1 .. Len(stack')
    BY <1>13
  <2> QED BY <1>14, <2>1, <2>2 DEF ClearsSound
<1> QED BY <1>2, <1>12, <1>15, <1>16

(* A step after which nothing is being cleared.                             *)
LEMMA NoClears ==
    ASSUME asts_enabled', \A k \in 1 .. Len(stack') : ~IsClear(stack'[k])
    PROVE  ClearsSound'
  BY DEF ClearsSound

(* The end of Clear_ast_queue in a mishap, ...                              *)
LEMMA ClearInMishapStep ==
    ASSUME DispatchInv, ClearInMishap
    PROVE  DispatchInv'
<1>0. TypeOK
  BY DEF DispatchInv
<1>1. ClearEntries /\ In("Clear_ast_queue") /\ Top.then = "mishap"
  BY DEF ClearInMishap, ClearEntries
<1>2. Popped = <<>> /\ Top.enabled = TRUE /\ FrameWeight[Top] = 1
  BY <1>1, ClearTop
<1>3. Mishap \in Activation /\ Mishap.fn = "mishap"
  BY FrameKinds DEF Mishap
<1> DEFINE s == <<>>  z == 0
<1>4. s \in Seq(Activation) /\ Len(s) = 0 /\ stack' = Append(s, Mishap)
  BY <1>2 DEF ClearInMishap
<1>5. Total(FrameWeight, s, z)
  BY TotalEmpty
<1> HIDE DEF s, z
<1>6. /\ stack' \in Seq(Activation) /\ Len(stack') = 1 /\ stack'[1] = Mishap
  BY <1>3, <1>4, AppendProperties
<1>7. Total(FrameWeight, stack', 0)
  <2>1. Total(FrameWeight, Append(s, Mishap), z + FrameWeight[Mishap])
    BY <1>3, <1>4, <1>5, FrameWeights, TotalAppend
  <2>2. FrameWeight[Mishap] = 0
    BY <1>3, FrameWeights
  <2>3. z + FrameWeight[Mishap] = 0
    BY <2>2 DEF z
  <2> QED BY <1>4, <2>1, <2>3
<1>8. \A k \in 1 .. Len(stack') : stack'[k].fn = "mishap"
  BY <1>3, <1>6
<1>9. /\ ignore' \in BOOLEAN /\ (ignore' => queue_end' = 0) /\ asts_enabled' = TRUE
      /\ disable' \in BOOLEAN /\ sig_flag' \in [Sig -> BOOLEAN]
  BY <1>0, <1>2 DEF ClearInMishap, TypeOK
<1>10. ClearsSound'
  BY <1>8, <1>9, NoClears DEF IsClear
<1>11. 0 \in Nat /\ 0 < FrameWeight[Top]
  BY <1>2
<1> QED BY <1>1, <1>6, <1>7, <1>8, <1>9, <1>10, <1>11, ClearedStep

(* ... in setpop, which unwinds the stack, ...                              *)
LEMMA ClearAndUnwindStep ==
    ASSUME DispatchInv, ClearAndUnwind
    PROVE  DispatchInv'
<1>0. TypeOK
  BY DEF DispatchInv
<1>1. ClearEntries /\ In("Clear_ast_queue") /\ Top.then = "unwind"
  BY DEF ClearAndUnwind, ClearEntries
<1>2. FrameWeight[Top] = 3 /\ Restored = TRUE
  BY <1>1, ClearTop, OutermostEnables
<1>3. stack' = <<Clearing("reset", TRUE), Async>> /\ ~asts_enabled'
  BY <1>2 DEF ClearAndUnwind
<1>4. /\ stack' \in Seq(Activation) /\ ClearsSound' /\ Total(FrameWeight, stack', 2)
      /\ \A k \in 1 .. Len(stack') : stack'[k].fn \notin {"Do_ast_queue", "Add"}
  BY <1>3, OneClear
<1>5. /\ ignore' \in BOOLEAN /\ (ignore' => queue_end' = 0) /\ asts_enabled' \in BOOLEAN
      /\ disable' \in BOOLEAN
  BY <1>0 DEF ClearAndUnwind, TypeOK
<1>6. sig_flag' \in [Sig -> BOOLEAN]
  <2>1. \A s \in Sig : (sig_flag[s] \/ s \in Unmasked) \in BOOLEAN
    OBVIOUS
  <2> QED BY <2>1 DEF ClearAndUnwind, LeaveHandlers
<1>7. 2 \in Nat /\ 2 < FrameWeight[Top]
  BY <1>2
<1> QED BY <1>1, <1>4, <1>5, <1>6, <1>7, ClearedStep

(* ... after that in setpop_reset, ...                                      *)
LEMMA ClearAndResetStep ==
    ASSUME DispatchInv, ClearAndReset
    PROVE  DispatchInv'
<1>0. TypeOK
  BY DEF DispatchInv
<1>1. ClearEntries /\ In("Clear_ast_queue") /\ Top.then = "reset"
  BY DEF ClearAndReset, ClearEntries
<1>2. FrameWeight[Top] = 2 /\ Top.enabled = TRUE /\ ~asts_enabled
  BY <1>1, ClearTop
<1>3. stack' = <<Clearing("restart", TRUE), Async>> /\ ~asts_enabled'
  BY <1>2 DEF ClearAndReset, switches
<1>4. /\ stack' \in Seq(Activation) /\ ClearsSound' /\ Total(FrameWeight, stack', 1)
      /\ \A k \in 1 .. Len(stack') : stack'[k].fn \notin {"Do_ast_queue", "Add"}
  BY <1>3, OneClear
<1>5. /\ ignore' \in BOOLEAN /\ (ignore' => queue_end' = 0) /\ asts_enabled' \in BOOLEAN
      /\ disable' \in BOOLEAN /\ sig_flag' \in [Sig -> BOOLEAN]
  BY <1>0 DEF ClearAndReset, switches, TypeOK
<1>6. 1 \in Nat /\ 1 < FrameWeight[Top]
  BY <1>2
<1> QED BY <1>1, <1>4, <1>5, <1>6, ClearedStep

(* ... and before the main program starts again.                            *)
LEMMA ClearAndRestartStep ==
    ASSUME DispatchInv, ClearAndRestart
    PROVE  DispatchInv'
<1>0. TypeOK
  BY DEF DispatchInv
<1>1. ClearEntries /\ In("Clear_ast_queue") /\ Top.then = "restart"
  BY DEF ClearAndRestart, ClearEntries
<1>2. FrameWeight[Top] = 1 /\ Top.enabled = TRUE
  BY <1>1, ClearTop
<1>3. stack' = <<>> /\ Len(stack') = 0 /\ stack' \in Seq(Activation)
  BY NoFrames DEF ClearAndRestart
<1>4. Total(FrameWeight, stack', 0)
  BY <1>3, TotalEmpty
<1>5. /\ ignore' \in BOOLEAN /\ (ignore' => queue_end' = 0) /\ asts_enabled' = TRUE
      /\ disable' \in BOOLEAN /\ sig_flag' \in [Sig -> BOOLEAN]
  BY <1>0, <1>2 DEF ClearAndRestart, TypeOK
<1>6. \A k \in 1 .. Len(stack') : FALSE
  BY <1>3
<1>7. ClearsSound'
  BY <1>5, <1>6, NoClears
<1>8. 0 \in Nat /\ 0 < FrameWeight[Top]
  BY <1>2
<1> QED BY <1>1, <1>3, <1>4, <1>5, <1>6, <1>7, <1>8, ClearedStep

-----------------------------------------------------------------------------
(* Every step of such programs keeps the invariant.                         *)
LEMMA DispatchNext ==
    ASSUME Tame, DispatchInv, [Next]_vars
    PROVE  DispatchInv'
<1>1. CASE Dispatching
  <2>1. CASE CheckPoint
    BY <2>1, CheckPointQuiet, CheckPointScan
  <2>2. CASE TakeAst \/ TakeCheck
    BY <2>2, DispatchesStep, TakeCheckQuiet
  <2>3. CASE RingEmpty \/ MishapEnds
    BY <2>3, ReturnsQuiet
  <2>4. CASE ThenQueue \/ RaiseSyncEnds
    BY <2>4, CallsQuiet
  <2>5. CASE Enter
    BY <2>5, EnterStep
  <2>6. CASE AstpReturns \/ SigReturns
    BY <2>6, HandlerReturnStep
  <2>7. CASE AddAst
    BY <2>7, AddAstStep
  <2>8. CASE ScanEnds \/ ScanSkips \/ ScanRuns
    BY <2>8, ScanEndsStep, ScanSkipsStep, ScanRunsStep
  <2>9. CASE ClearInMishap \/ ClearAndUnwind \/ ClearAndReset \/ ClearAndRestart
    BY <2>9, ClearInMishapStep, ClearAndUnwindStep, ClearAndResetStep, ClearAndRestartStep
  <2>10. CASE CallbackReturns
    BY <2>10, CallbackReturnStep
  <2> QED BY <1>1, <2>1, <2>2, <2>3, <2>4, <2>5, <2>6, <2>7, <2>8, <2>9, <2>10 DEF Dispatching
<1>2. CASE UserSteps
  <2>1. CASE \E x \in Item : RaiseSync(x)
    BY <2>1, DispatchesStep
  <2>2. CASE \E s \in Sig, v \in BOOLEAN : SetSigFlag(s, v)
    BY <2>2, SetSigFlagQuiet
  <2>3. ~(\E v \in BOOLEAN : SetAstsEnabled(v)) /\ ~ClearQueue /\ ~ExitHandler
    BY DEF SetAstsEnabled, ClearQueue, ExitHandler, Does, Tame
  <2>4. CASE CallExtern
    BY <2>4, CallExternQuiet
  <2>5. CASE RaiseMishap \/ Setpop
    BY <2>5, MishapStep
  <2> QED BY <1>2, <2>1, <2>2, <2>3, <2>4, <2>5 DEF UserSteps
<1>3. CASE \E x \in Item : Event(x)
  BY <1>3, EventStep
<1>4. CASE UNCHANGED vars
  <2> USE <1>4 DEF vars
  <2>1. /\ TypeOK' /\ CountSound'
    BY DEF DispatchInv, TypeOK, CountSound
  <2>2. QueueSound' /\ ClearsSound'
    BY DEF DispatchInv, QueueSound, ClearsSound
  <2>3. \A x : Accounted(x) <=> Accounted(x)'
    BY DEF Accounted, InCallback, Executing, Depth
  <2>4. AddsSound' /\ IgnoreAccounted'
    BY DEF DispatchInv, AddsSound, IgnoreAccounted, Watched, Accounted, InCallback, Executing, Depth
  <2>5. ScansSound'
    BY DEF DispatchInv, ScansSound, ScanAt
  <2>6. Looked'
    BY DEF DispatchInv, Looked, ScanDue, Innermost, Top, Accounted, InCallback, Executing, Depth
  <2> QED BY <2>1, <2>2, <2>4, <2>5, <2>6 DEF DispatchInv
<1> QED BY <1>1, <1>2, <1>3, <1>4 DEF Next

(* It holds at the start, ...                                               *)
LEMMA InitDispatch == Init => DispatchInv
<1> SUFFICES ASSUME Init
             PROVE  DispatchInv
  OBVIOUS
<1> DEFINE s == <<>>
<1>1. /\ stack = s /\ ring = s /\ queue = s /\ queue_end = 0 /\ asts_enabled
      /\ seen = 0 /\ raised = 0 /\ ops = 0
  BY DEF Init
<1>2. /\ Len(s) = 0 /\ s \in Seq(Activation) /\ s \in Seq(Entry) /\ s \in Seq(Item \cup {QueueCheck})
  OBVIOUS
<1>3. \A w : Total(w, s, 0)
  BY TotalEmpty
<1>4. TypeOK
  <2>1. MaxRaise \in Nat /\ MaxOp \in Nat
    BY AstQueueAssumption
  <2>2. 0 \in 0 .. MaxRaise /\ 0 \in 0 .. MaxOp /\ 0 \in 0 .. raised
    BY <1>1, <2>1
  <2>3. ring \in Seq(Item \cup {QueueCheck}) /\ queue \in Seq(Entry) /\ stack \in Seq(Activation)
    BY <1>1, <1>2
  <2>4. /\ sig_flag \in [Sig -> BOOLEAN] /\ last_run \in [Item -> 0 .. MaxRaise]
        /\ cleared \subseteq 1 .. MaxRaise /\ queue_flags \subseteq {"QC_RECURSIVE", "QC_CALLBACK"}
    BY <2>2 DEF Init
  <2> HIDE DEF s
  <2> QED BY <1>1, <2>2, <2>3, <2>4 DEF TypeOK, Init
<1> HIDE DEF s
<1>5. CountSound
  <2>1. Total(AstWeight, ring, 0) /\ Total(FrameWeight, stack, 0)
    BY <1>1, <1>3
  <2>2. seen + 0 <= raised /\ Len(ring) + seen + 0 <= raised + 3 * ops
    BY <1>1, <1>2
  <2> QED BY <2>1, <2>2 DEF CountSound
<1>6. /\ \A i \in 1 .. Len(stack) : FALSE
      /\ \A i \in 1 .. Len(queue) : FALSE
  BY <1>1, <1>2
<1>7. QueueSound
  BY <1>1, <1>2, <1>6 DEF QueueSound
<1>8. ClearsSound /\ AddsSound /\ ScansSound /\ IgnoreAccounted /\ Looked
  BY <1>1, <1>6 DEF ClearsSound, AddsSound, ScansSound, IgnoreAccounted, Looked
<1> QED BY <1>4, <1>5, <1>7, <1>8 DEF DispatchInv

(* ... and says what the dispatch promises, but for NoReentry.              *)
LEMMA InvPromises ==
    ASSUME DispatchInv
    PROVE  TypeOK /\ LptrOnQueue /\ EndIsLast /\ IgnoreSound
<1>0. TypeOK /\ QueueSound /\ ScansSound /\ IgnoreAccounted
  BY DEF DispatchInv
<1>1. /\ DOMAIN stack = 1 .. Len(stack) /\ DOMAIN queue = 1 .. Len(queue)
      /\ Len(queue) \in Nat /\ queue \in Seq(Entry)
  BY <1>0, LenProperties DEF TypeOK
<1>2. LptrOnQueue
  BY <1>0, <1>1 DEF LptrOnQueue, ScansSound, ScanAt, IsScan
<1>3. EndIsLast
  <2>1. queue = <<>> <=> Len(queue) = 0
    BY <1>1, EmptySeq
  <2> QED BY <1>0, <2>1 DEF QueueSound, EndIsLast, Last
<1>4. IgnoreSound
  <2> SUFFICES ASSUME ignore, NEW i \in 1 .. Len(queue), Free(queue[i].item)
               PROVE  Called(queue[i].item)
    BY <1>1 DEF IgnoreSound
  <2> DEFINE x == queue[i].item
  <2>1. x \notin Never /\ Free(x)
    BY <1>0 DEF QueueSound
  <2>2. asts_enabled /\ ~Blocked(x)
    BY <2>1 DEF Free
  <2>3. Accounted(x)
    BY <1>0, <2>2 DEF IgnoreAccounted, Watched
  <2> HIDE DEF x
  <2>4. x \in External /\ \E k \in 1 .. Len(ring) : ring[k] = QueueCheck
    BY <2>2, <2>3 DEF Accounted, Blocked, CallbackBlocks, RecursionBlocks
  <2> QED BY <2>4 DEF Called, Contains, x
<1> QED BY <1>0, <1>2, <1>3, <1>4

(* Whatever its check points and handlers do meanwhile, Do_ast_queue goes   *)
(* on from a pair that is still on Sys_ast_queue, Add links new pairs in    *)
(* where they are reached, and _ignore_ast_queue is only set over a queue   *)
(* that is all blocked.                                                     *)
THEOREM DispatchIsSound == Tame => (Spec => []DispatchSound)
<1> SUFFICES ASSUME Tame
             PROVE  Spec => []DispatchSound
  OBVIOUS
<1>1. Init => DispatchInv
  BY InitDispatch
<1>2. DispatchInv /\ [Next]_vars => DispatchInv'
  BY DispatchNext
<1>3. DispatchInv => TypeOK /\ LptrOnQueue /\ EndIsLast /\ IgnoreSound
  BY InvPromises
<1>4. Spec => []NoReentry
  <2>1. HandlersEnableNone
    BY DEF Tame, HandlersEnableNone
  <2> QED BY <2>1, NeverReentered
<1>5. TypeOK /\ NoReentry /\ LptrOnQueue /\ EndIsLast /\ IgnoreSound => DispatchSound
  BY DEF DispatchSound
<1> QED BY <1>1, <1>2, <1>3, <1>4, <1>5, PTL DEF Spec

-----------------------------------------------------------------------------
(* What follows for the asts on the queue: they are looked at in time, and  *)
(* run in order.                                                            *)

(* AST_QUEUE_CHECK is in the ring.                                          *)
CheckDue == \E i \in 1 .. Len(ring) : ring[i] = QueueCheck

(* What starts a handler, or sends an ast to the queue.                     *)
StartsSound ==
    \A i \in 1 .. Len(stack) :
        stack[i].fn \in {"handler", "Raise_astp", "Add"} => i > 1 /\ Starter(stack[i - 1])

(* A queue that is not to be ignored will be looked at.                     *)
DueSound ==
    asts_enabled /\ ~ignore => CheckDue \/ \E i \in 1 .. Len(stack) : Starter(stack[i])

(* A ring that is not empty has its trap pending.                           *)
TrapSound == ring # <<>> => trap

(* The queue is in the order in which the asts were raised, ...             *)
SortedSound ==
    /\ \A i, j \in 1 .. Len(queue) : i < j => queue[i].id < queue[j].id
    /\ \A i \in 1 .. Len(stack) : stack[i].fn = "Add" =>
          \A j \in 1 .. Len(queue) : queue[j].id < stack[i].entry.id

(* ... and an astp that starts has no earlier raise on it.                  *)
EntersSound ==
    \A i \in 1 .. Len(stack) : stack[i].fn = "Raise_astp" =>
        /\ i = Len(stack)
        /\ \A j \in 1 .. Len(queue) :
              queue[j].item = stack[i].entry.item /\ queue[j].id < stack[i].entry.id
                 => queue[j].item \in External /\ CheckDue

Followed == StartsSound /\ DueSound /\ SortedSound /\ EntersSound

FollowInv == TrapSound /\ Followed

(* The ring says that it is not empty.                                      *)
LEMMA TrapStep ==
    ASSUME Tame, TrapSound, [Next]_vars
    PROVE  TrapSound'
<1> SUFFICES \/ UNCHANGED <<ring, trap>>
             \/ trap' = TRUE
             \/ ring # <<>> /\ trap' = trap
             \/ ring = <<>> /\ ring' = ring
  BY DEF TrapSound
<1>1. CASE Dispatching
  <2>1. CASE CheckPoint \/ ThenQueue \/ Enter \/ AstpReturns \/ SigReturns \/ AddAst
    BY <2>1 DEF CheckPoint, ThenQueue, Enter, AstpReturns, SigReturns, AddAst, pending
  <2>2. CASE ScanEnds \/ ScanSkips \/ ScanRuns \/ RaiseSyncEnds \/ MishapEnds
    BY <2>2 DEF ScanEnds, ScanSkips, ScanRuns, RaiseSyncEnds, MishapEnds, pending
  <2>3. CASE TakeAst \/ TakeCheck \/ RingEmpty
    <3>1. CASE TakeAst \/ TakeCheck
      <4>1. ring # <<>> /\ trap' = trap
        BY <3>1 DEF TakeAst, TakeCheck, Ring!Take
      <4> QED BY <4>1
    <3>2. CASE RingEmpty
      <4>1. ring = <<>> /\ ring' = ring
        BY <3>2 DEF RingEmpty, Ring!FindEmpty
      <4> QED BY <4>1
    <3> QED BY <2>3, <3>1, <3>2
  <2>4. CASE ClearInMishap \/ ClearAndUnwind \/ ClearAndReset \/ ClearAndRestart
    BY <2>4 DEF ClearInMishap, ClearAndUnwind, ClearAndReset, ClearAndRestart, ClearEntries, pending, Ring!Arrive
  <2>5. CASE CallbackReturns
    BY <2>5 DEF CallbackReturns, pending, Ring!Arrive
  <2> QED BY <1>1, <2>1, <2>2, <2>3, <2>4, <2>5 DEF Dispatching
<1>2. CASE UserSteps
  <2>1. ~ClearQueue
    BY DEF ClearQueue, Does, Tame
  <2>2. CASE \E x \in Item : RaiseSync(x)
    BY <2>2 DEF RaiseSync, pending
  <2>3. CASE \E s \in Sig, v \in BOOLEAN : SetSigFlag(s, v)
    BY <2>3 DEF SetSigFlag, pending
  <2>4. CASE \E v \in BOOLEAN : SetAstsEnabled(v)
    BY <2>4 DEF SetAstsEnabled, pending
  <2>5. CASE ExitHandler \/ CallExtern \/ RaiseMishap \/ Setpop
    BY <2>5 DEF ExitHandler, CallExtern, RaiseMishap, Setpop, Clear, pending
  <2> QED BY <1>2, <2>1, <2>2, <2>3, <2>4, <2>5 DEF UserSteps
<1>3. CASE \E x \in Item : Event(x)
  BY <1>3 DEF Event, Ring!Arrive
<1>4. CASE UNCHANGED vars
  BY <1>4 DEF vars
<1> QED BY <1>1, <1>2, <1>3, <1>4 DEF Next

(* A stack that has moved, with nothing started on it.                      *)
LEMMA StartsKept ==
    ASSUME TypeOK, StartsSound, NEW n, NEW F, NEW d, Moved(stack', n, stack, F, d),
           \A i \in n + 1 .. Len(stack') :
              stack'[i].fn \in {"handler", "Raise_astp", "Add"} => i > 1 /\ Starter(stack'[i - 1])
    PROVE  StartsSound'
<1>1. /\ n \in Nat
      /\ \A i \in 1 .. n : stack'[i] = stack[i] /\ i \in 1 .. Len(stack)
      /\ \A i \in 1 .. Len(stack') : i \in 1 .. n \/ i \in n + 1 .. Len(stack')
  BY MovedParts
<1>2. ASSUME NEW i \in 1 .. n, stack'[i].fn \in {"handler", "Raise_astp", "Add"}
      PROVE  i > 1 /\ Starter(stack'[i - 1])
  <2>1. i > 1 /\ Starter(stack[i - 1])
    BY <1>1, <1>2 DEF StartsSound
  <2>2. i - 1 \in 1 .. n
    BY <1>1, <2>1
  <2> QED BY <1>1, <2>1, <2>2
<1>3. ASSUME NEW i \in 1 .. Len(stack'), stack'[i].fn \in {"handler", "Raise_astp", "Add"}
      PROVE  i > 1 /\ Starter(stack'[i - 1])
  BY <1>1, <1>2, <1>3
<1>4. \A i \in 1 .. Len(stack') :
         stack'[i].fn \in {"handler", "Raise_astp", "Add"} => i > 1 /\ Starter(stack'[i - 1])
  BY <1>3
<1> QED BY <1>4 DEF StartsSound, Starter, IsScan

(* The activation that is starting an astp is on top.                       *)
LEMMA EnterOnTop ==
    ASSUME TypeOK, EntersSound, NEW i \in 1 .. Len(stack), stack[i].fn = "Raise_astp"
    PROVE  In("Raise_astp") /\ i = Len(stack)
<1>1. i = Len(stack) /\ Len(stack) \in Nat /\ stack # <<>>
  BY LenProperties, EmptySeq DEF EntersSound, TypeOK
<1> QED BY <1>1 DEF In, Top, Depth

(* Steps that start nothing and leave the queue alone.                      *)
Calm(n, F, d) ==
    /\ Moved(stack', n, stack, F, d) /\ queue' = queue
    /\ \A a \in F : a.fn \notin {"handler", "Raise_astp", "Add"}
    /\ \/ ~In("Add") /\ ~In("Raise_astp")
       \/ stack' = stack /\ CheckStays

(* They keep all but that the queue will be looked at.                      *)
LEMMA CalmKept ==
    ASSUME DispatchInv, Followed, NEW n, NEW F, NEW d, Calm(n, F, d)
    PROVE  StartsSound' /\ SortedSound' /\ EntersSound'
<1>0. TypeOK /\ AddsSound /\ StartsSound /\ SortedSound /\ EntersSound
  BY DEF DispatchInv, Followed
<1>1. /\ Moved(stack', n, stack, F, d) /\ queue' = queue
      /\ \A a \in F : a.fn \notin {"handler", "Raise_astp", "Add"}
  BY DEF Calm
<1>2. /\ \A i \in 1 .. n : stack'[i] = stack[i] /\ i \in 1 .. Len(stack)
      /\ \A i \in n + 1 .. Len(stack') : stack'[i] \in F
      /\ \A i \in 1 .. Len(stack') : i \in 1 .. n \/ i \in n + 1 .. Len(stack')
  BY <1>0, <1>1, MovedParts
<1>3. StartsSound'
  BY <1>0, <1>1, <1>2, StartsKept
<1>4. CASE ~In("Add") /\ ~In("Raise_astp")
  <2>1. ASSUME NEW i \in 1 .. Len(stack'), stack'[i].fn \in {"Add", "Raise_astp"}
        PROVE  FALSE
    <3>1. i \in 1 .. n /\ i \in 1 .. Len(stack) /\ stack[i].fn \in {"Add", "Raise_astp"}
      BY <1>1, <1>2, <2>1
    <3> QED BY <1>0, <1>4, <3>1, AddOnTop, EnterOnTop
  <2>2. SortedSound'
    BY <1>0, <1>1, <2>1 DEF SortedSound
  <2>3. EntersSound'
    BY <2>1 DEF EntersSound
  <2> QED BY <1>3, <2>2, <2>3
<1>5. CASE stack' = stack /\ CheckStays
  <2>1. SortedSound'
    BY <1>0, <1>1, <1>5 DEF SortedSound
  <2>2. CheckDue => CheckDue'
    BY <1>5 DEF CheckStays, CheckDue
  <2>3. EntersSound'
    BY <1>0, <1>1, <1>5, <2>2 DEF EntersSound
  <2> QED BY <1>3, <2>1, <2>3
<1> QED BY <1>4, <1>5 DEF Calm

(* A queue that is not to be ignored will still be looked at.               *)
LEMMA DueKept ==
    ASSUME TypeOK, DueSound, CheckStays, asts_enabled' => asts_enabled, ignore => ignore',
           NEW n, NEW F, NEW d, Moved(stack', n, stack, F, d),
           \A i \in n + 1 .. Len(stack) :
              Starter(stack[i]) => \E j \in 1 .. Len(stack') : Starter(stack'[j])
    PROVE  DueSound'
<1>1. /\ \A i \in 1 .. n : stack'[i] = stack[i] /\ i \in 1 .. Len(stack')
      /\ \A i \in 1 .. Len(stack) : i \in 1 .. n \/ i \in n + 1 .. Len(stack)
  BY MovedParts
<1>2. CheckDue => CheckDue'
  BY DEF CheckStays, CheckDue
<1>3. (\E i \in 1 .. Len(stack) : Starter(stack[i])) => \E j \in 1 .. Len(stack') : Starter(stack'[j])
  BY <1>1
<1>4. asts_enabled' /\ ~ignore' => CheckDue' \/ \E j \in 1 .. Len(stack') : Starter(stack'[j])
  BY <1>2, <1>3 DEF DueSound
<1> QED BY <1>4 DEF DueSound, Starter, IsScan

(* Or will be looked at now.                                                *)
LEMMA DueNow ==
    ASSUME NEW i \in 1 .. Len(stack'), Starter(stack'[i])
    PROVE  DueSound'
  BY DEF DueSound, Starter, IsScan

-----------------------------------------------------------------------------
(* Nothing is made to look at the queue that was not.                       *)
Waits == CheckStays /\ (asts_enabled' => asts_enabled) /\ (ignore => ignore')

(* Calm steps, by what they do to the stack: nothing, ...                   *)
LEMMA StayFollowed ==
    ASSUME DispatchInv, Followed, UNCHANGED <<stack, queue>>, CheckStays, DueSound' \/ Waits
    PROVE  Followed'
<1>0. TypeOK /\ DueSound
  BY DEF DispatchInv, Followed
<1> DEFINE n == Len(stack)  F == {}  d == 0
<1>1. n \in Nat /\ \A i \in n + 1 .. n : FALSE
  BY <1>0, LenProperties DEF TypeOK
<1>2. Moved(stack', n, stack, F, d)
  BY <1>0, MovedNot DEF TypeOK
<1>3. Calm(n, F, d)
  BY <1>2 DEF Calm
<1> HIDE DEF F, d
<1>4. StartsSound' /\ SortedSound' /\ EntersSound'
  BY <1>3, CalmKept
<1>5. DueSound'
  <2>1. \A i \in n + 1 .. Len(stack) : FALSE
    BY <1>1
  <2> QED BY <1>0, <1>2, <2>1, DueKept DEF Waits
<1> QED BY <1>4, <1>5 DEF Followed

(* ... push one activation, ...                                             *)
LEMMA PushFollowed ==
    ASSUME DispatchInv, Followed, NEW a \in Activation, a.fn \notin {"handler", "Raise_astp", "Add"},
           stack' = Append(stack, a), queue' = queue, ~In("Add"), ~In("Raise_astp"),
           DueSound' \/ Starter(a) \/ Waits
    PROVE  Followed'
<1>0. TypeOK /\ DueSound
  BY DEF DispatchInv, Followed
<1> DEFINE n == Len(stack)  F == {a}  d == FrameWeight[a]
<1>1. Moved(stack', n, stack, F, d) /\ n \in Nat /\ Len(stack') = n + 1 /\ stack'[n + 1] = a
  BY <1>0, Pushed
<1>2. Calm(n, F, d)
  BY <1>1 DEF Calm
<1>3. n + 1 \in 1 .. Len(stack') /\ \A i \in n + 1 .. n : FALSE
  BY <1>1
<1> HIDE DEF F, d
<1>4. StartsSound' /\ SortedSound' /\ EntersSound'
  BY <1>2, CalmKept
<1>5. DueSound'
  <2>1. CASE Starter(a)
    BY <1>1, <1>3, <2>1, DueNow
  <2>2. CASE Waits
    <3>1. \A i \in n + 1 .. Len(stack) : FALSE
      BY <1>3
    <3> QED BY <1>0, <1>1, <2>2, <3>1, DueKept DEF Waits
  <2> QED BY <2>1, <2>2
<1> QED BY <1>4, <1>5 DEF Followed

(* ... pop one, ...                                                         *)
LEMMA PopFollowed ==
    ASSUME DispatchInv, Followed, stack # <<>>, Top.fn \notin {"Raise_astp", "Add"},
           stack' = Popped, queue' = queue,
           DueSound' \/ (~Starter(Top) /\ Waits)
    PROVE  Followed'
<1>0. TypeOK /\ DueSound
  BY DEF DispatchInv, Followed
<1> DEFINE n == Depth - 1  F == {}  d == 0 - FrameWeight[Top]
<1>1. Moved(stack', n, stack, F, d)
  BY <1>0, TopTyped
<1>2. Calm(n, F, d)
  BY <1>1 DEF Calm, In
<1>3. \A i \in n + 1 .. Len(stack) : stack[i] = Top
  BY <1>0, OnlyTop
<1> HIDE DEF F, d, n
<1>4. StartsSound' /\ SortedSound' /\ EntersSound'
  BY <1>2, CalmKept
<1>5. DueSound'
  <2>1. CASE ~Starter(Top) /\ Waits
    BY <1>0, <1>1, <1>3, <2>1, DueKept DEF Waits
  <2> QED BY <2>1
<1> QED BY <1>4, <1>5 DEF Followed

(* ... replace the top, ...                                                 *)
LEMMA TopFollowed ==
    ASSUME DispatchInv, Followed, stack # <<>>, Top.fn \notin {"Raise_astp", "Add"},
           NEW a \in Activation, a.fn \notin {"handler", "Raise_astp", "Add"},
           stack' = Append(Popped, a), queue' = queue,
           DueSound' \/ Starter(a)
    PROVE  Followed'
<1>0. TypeOK
  BY DEF DispatchInv
<1> DEFINE n == Depth - 1  F == {a}  d == FrameWeight[a] - FrameWeight[Top]
<1>1. Moved(stack', n, stack, F, d) /\ Len(stack') = Depth /\ stack'[Depth] = a /\ Depth \in Nat \ {0}
  BY <1>0, TopBecomes, TopTyped
<1>2. Calm(n, F, d)
  BY <1>1 DEF Calm, In
<1>3. PICK k \in 1 .. Len(stack') : stack'[k] = a
  BY <1>1
<1> HIDE DEF F, d, n
<1>4. StartsSound' /\ SortedSound' /\ EntersSound'
  BY <1>2, CalmKept
<1>5. DueSound'
  BY <1>3, DueNow
<1> QED BY <1>4, <1>5 DEF Followed

(* ... or push one more after that.                                         *)
LEMMA TopThenFollowed ==
    ASSUME DispatchInv, Followed, stack # <<>>, Top.fn \notin {"Raise_astp", "Add"},
           NEW a \in Activation, a.fn \notin {"handler", "Raise_astp", "Add"},
           NEW b \in Activation, b.fn \notin {"handler", "Raise_astp", "Add"},
           stack' = Append(Append(Popped, a), b), queue' = queue,
           DueSound' \/ Starter(a) \/ Starter(b) \/ (~Starter(Top) /\ Waits)
    PROVE  Followed'
<1>0. TypeOK /\ DueSound
  BY DEF DispatchInv, Followed
<1> DEFINE n == Depth - 1  F == {a, b}  d == (FrameWeight[a] - FrameWeight[Top]) + FrameWeight[b]
<1>1. /\ Moved(stack', n, stack, F, d) /\ Len(stack') = Depth + 1 /\ stack'[Depth] = a
      /\ stack'[Depth + 1] = b /\ Depth \in Nat \ {0}
  <2>1. Moved(Append(Append(Popped, a), b), Depth - 1, stack, {a, b},
              (FrameWeight[a] - FrameWeight[Top]) + FrameWeight[b])
    BY <1>0, TopThen
  <2>2. Len(Append(Append(Popped, a), b)) = Depth + 1
    <3>1. Append(Popped, a) \in Seq(Activation) /\ Len(Append(Popped, a)) = Depth
      BY <1>0, TopBecomes
    <3> QED BY <3>1, AppendProperties
  <2>3. Append(Append(Popped, a), b)[Depth] = a
    BY <1>0, TopThen
  <2>4. Append(Append(Popped, a), b)[Depth + 1] = b
    BY <1>0, TopThen
  <2>5. Depth \in Nat \ {0}
    BY <1>0, TopTyped
  <2> QED BY <2>1, <2>2, <2>3, <2>4, <2>5
<1>2. Calm(n, F, d)
  BY <1>1 DEF Calm, In
<1>3. PICK k \in 1 .. Len(stack') : stack'[k] = a
  BY <1>1
<1>4. PICK l \in 1 .. Len(stack') : stack'[l] = b
  <2>1. Depth + 1 \in 1 .. Len(stack')
    BY <1>1
  <2> QED BY <1>1, <2>1
<1>5. \A i \in n + 1 .. Len(stack) : stack[i] = Top
  BY <1>0, OnlyTop
<1> HIDE DEF F, d, n
<1>6. StartsSound' /\ SortedSound' /\ EntersSound'
  BY <1>2, CalmKept
<1>7. DueSound'
  <2>1. CASE Starter(a) \/ Starter(b)
    BY <1>3, <1>4, <2>1, DueNow
  <2>2. CASE ~Starter(Top) /\ Waits
    BY <1>0, <1>1, <1>5, <2>2, DueKept DEF Waits
  <2> QED BY <2>1, <2>2
<1> QED BY <1>6, <1>7 DEF Followed

(* What is in the ring stays there when an ast arrives.                     *)
LEMMA AppendCheck ==
    ASSUME TypeOK, NEW x \in Item \cup {QueueCheck}, ring' = Append(ring, x)
    PROVE  CheckStays /\ (x = QueueCheck => CheckDue')
<1>1. ring \in Seq(Item \cup {QueueCheck})
  BY DEF TypeOK
<1>2. /\ Len(ring) \in Nat /\ Len(ring') = Len(ring) + 1 /\ ring'[Len(ring) + 1] = x
      /\ \A i \in 1 .. Len(ring) : ring'[i] = ring[i]
  BY <1>1, AppendProperties, LenProperties
<1>3. Len(ring) + 1 \in 1 .. Len(ring') /\ \A i \in 1 .. Len(ring) : i \in 1 .. Len(ring')
  BY <1>2
<1> QED BY <1>2, <1>3 DEF CheckStays, CheckDue

-----------------------------------------------------------------------------
(* The calm steps, one by one: a check point, ...                           *)
LEMMA CheckPointFollowed ==
    ASSUME Tame, DispatchInv, Followed, CheckPoint
    PROVE  Followed'
<1>0. TypeOK
  BY DEF DispatchInv
<1>1. queue' = queue /\ Waits
  BY DEF CheckPoint, pending, pairs, switches, Waits, CheckStays
<1>2. Async \in Activation /\ Async.fn = "Async_raise_signal"
  BY FreshKinds DEF Fresh, Async
<1>3. CASE UserCode /\ stack' = Append(stack, Async)
  <2>1. ~In("Add") /\ ~In("Raise_astp")
    BY <1>3 DEF UserCode, In
  <2> QED BY <1>1, <1>2, <1>3, <2>1, PushFollowed
<1>4. CASE CheckInDispatch /\ stack' = Append(IF "pc" \in DOMAIN Top THEN Goto("checked") ELSE stack, Async)
  <2>1. In("sys_raise_ast") \/ In("mishap") \/ In("Do_ast_queue")
    BY <1>4 DEF CheckInDispatch, Tame
  <2>2. \E a \in Activation : Goto("checked") = Append(Popped, a) /\ a.fn = Top.fn /\ "pc" \in DOMAIN Top
    <3>1. CASE In("sys_raise_ast") \/ In("mishap")
      <4>1. PICK f \in {"sys_raise_ast", "mishap"} : In(f)
        BY <3>1
      <4> DEFINE a == [fn |-> f, pc |-> "checked"]
      <4>2. Goto("checked") = Append(Popped, a) /\ a \in Activation /\ "pc" \in DOMAIN Top
        BY <1>0, <4>1, CheckGoto
      <4>3. a.fn = Top.fn
        BY <4>1 DEF In
      <4> HIDE DEF a
      <4> QED BY <4>2, <4>3
    <3>2. CASE In("Do_ast_queue")
      <4> DEFINE a == [fn |-> "Do_ast_queue", pc |-> "checked", async |-> Top.async, lptr |-> Top.lptr]
      <4>1. Goto("checked") = Append(Popped, a) /\ a \in Activation /\ "pc" \in DOMAIN Top
        BY <1>0, <3>2, ScanGoto
      <4>2. a.fn = Top.fn
        BY <3>2 DEF In
      <4> HIDE DEF a
      <4> QED BY <4>1, <4>2
    <3> QED BY <2>1, <3>1, <3>2
  <2>3. PICK a \in Activation : Goto("checked") = Append(Popped, a) /\ a.fn = Top.fn /\ "pc" \in DOMAIN Top
    BY <2>2
  <2>4. stack # <<>> /\ Top.fn \in {"sys_raise_ast", "mishap", "Do_ast_queue"}
    BY <2>1 DEF In
  <2>5. Starter(a) \/ ~Starter(Top)
    BY <2>3, <2>4 DEF Starter, IsScan
  <2>6. stack' = Append(Append(Popped, a), Async)
    BY <1>4, <2>3
  <2>7. /\ Top.fn \notin {"Raise_astp", "Add"} /\ a.fn \notin {"handler", "Raise_astp", "Add"}
        /\ Async.fn \notin {"handler", "Raise_astp", "Add"}
    BY <1>2, <2>3, <2>4
  <2> QED BY <1>1, <1>2, <2>3, <2>4, <2>5, <2>6, <2>7, TopThenFollowed
<1> QED BY <1>3, <1>4 DEF CheckPoint

(* ... AST_QUEUE_CHECK taken, ...                                           *)
LEMMA TakeCheckFollowed ==
    ASSUME DispatchInv, Followed, TakeCheck
    PROVE  Followed'
<1> DEFINE a == [fn |-> "Async_raise_signal", pc |-> "handled"]
<1>1. stack # <<>> /\ Top.fn = "Async_raise_signal" /\ queue' = queue
  BY DEF TakeCheck, In, pairs
<1>2. stack' = Append(Popped, a) /\ a \in Activation
  <2>1. TypeOK
    BY DEF DispatchInv
  <2> QED BY <2>1, AsyncGoto DEF TakeCheck
<1>3. a.fn = "Async_raise_signal" /\ Starter(a)
  BY DEF Starter
<1> HIDE DEF a
<1> QED BY <1>1, <1>2, <1>3, TopFollowed

(* ... the end of a procedure that has no handler, ...                      *)
LEMMA ReturnsFollowed ==
    ASSUME DispatchInv, Followed, RingEmpty \/ MishapEnds \/ CallbackReturns
    PROVE  Followed'
<1>0. TypeOK /\ CountSound
  BY DEF DispatchInv
<1>1. /\ queue' = queue /\ asts_enabled' = asts_enabled /\ ignore' = ignore
      /\ stack # <<>> /\ stack' = Popped
  BY DEF RingEmpty, MishapEnds, CallbackReturns, pairs, switches, In
<1>2. Top.fn \notin {"Raise_astp", "Add"} /\ ~Starter(Top)
  <2>1. CASE RingEmpty
    BY <2>1 DEF RingEmpty, In, Starter, IsScan
  <2>2. CASE MishapEnds
    BY <2>2 DEF MishapEnds, In, Starter, IsScan
  <2>3. CASE CallbackReturns
    BY <2>3 DEF CallbackReturns, In, Starter, IsScan
  <2> QED BY <2>1, <2>2, <2>3
<1>3. CheckStays
  <2>1. CASE RingEmpty \/ MishapEnds
    <3>1. ring' = ring
      BY <2>1 DEF RingEmpty, MishapEnds, pending, Ring!FindEmpty
    <3> QED BY <3>1 DEF CheckStays
  <2>2. CASE CallbackReturns
    <3>1. CASE ring' = ring
      BY <3>1 DEF CheckStays
    <3>2. CASE Ring!Arrive(QueueCheck)
      <4>1. Top \in Activation /\ Top.fn = "callback"
        BY <1>0, <2>2, TopTyped DEF CallbackReturns, In
      <4>2. FrameWeight[Top] >= 1
        BY <4>1, FrameWeights
      <4>3. ring' = Append(ring, QueueCheck)
        BY <1>0, <1>1, <3>2, <4>2, RingHasRoom
      <4> QED BY <1>0, <4>3, AppendCheck
    <3> QED BY <2>2, <3>1, <3>2 DEF CallbackReturns, pending
  <2> QED BY <2>1, <2>2
<1> QED BY <1>1, <1>2, <1>3, PopFollowed DEF Waits

(* ... a scan called, or not, ...                                           *)
LEMMA CallsFollowed ==
    ASSUME DispatchInv, Followed, ThenQueue \/ RaiseSyncEnds
    PROVE  Followed'
<1>0. TypeOK
  BY DEF DispatchInv
<1>1. /\ queue' = queue /\ asts_enabled' = asts_enabled /\ ignore' = ignore
      /\ stack # <<>> /\ Top.fn \notin {"Raise_astp", "Add"}
  BY DEF ThenQueue, RaiseSyncEnds, pairs, switches, In
<1>2. \A a \in BOOLEAN : Scan(a) \in Activation /\ Scan(a).fn = "Do_ast_queue" /\ Starter(Scan(a))
  <2>1. 0 \in 0 .. MaxRaise
    BY AstQueueAssumption
  <2> QED BY <2>1, FrameKinds DEF Scan, Starter, IsScan
<1>3. ignore \/ ~asts_enabled => DueSound'
  BY <1>1 DEF DueSound
<1>4. CASE ThenQueue
  <2> DEFINE a == [fn |-> "Async_raise_signal", pc |-> "loop"]
  <2>1. Goto("loop") = Append(Popped, a) /\ a \in Activation /\ a.fn = "Async_raise_signal"
    BY <1>0, <1>4, AsyncGoto DEF ThenQueue
  <2> HIDE DEF a
  <2>2. \/ stack' = Append(Popped, a) /\ (ignore \/ ~asts_enabled)
        \/ stack' = Append(Append(Popped, a), Scan(TRUE))
    BY <1>4, <2>1 DEF ThenQueue, CallScan
  <2>3. CASE stack' = Append(Popped, a) /\ (ignore \/ ~asts_enabled)
    BY <1>1, <1>3, <2>1, <2>3, TopFollowed
  <2>4. CASE stack' = Append(Append(Popped, a), Scan(TRUE))
    <3>1. PICK b \in Activation : b = Scan(TRUE) /\ b.fn = "Do_ast_queue" /\ Starter(b)
      BY <1>2
    <3> QED BY <1>1, <2>1, <2>4, <3>1, TopThenFollowed
  <2> QED BY <2>2, <2>3, <2>4
<1>5. CASE RaiseSyncEnds
  <2>1. \/ stack' = Popped /\ (ignore \/ ~asts_enabled)
        \/ stack' = Append(Popped, Scan(FALSE))
    BY <1>5 DEF RaiseSyncEnds, CallScan
  <2>2. CASE stack' = Popped /\ (ignore \/ ~asts_enabled)
    BY <1>1, <1>3, <2>2, PopFollowed
  <2>3. CASE stack' = Append(Popped, Scan(FALSE))
    <3>1. PICK b \in Activation : b = Scan(FALSE) /\ b.fn = "Do_ast_queue" /\ Starter(b)
      BY <1>2
    <3> QED BY <1>1, <2>3, <3>1, TopFollowed
  <2> QED BY <2>1, <2>2, <2>3
<1> QED BY <1>4, <1>5

(* ... an external call, ...                                                *)
LEMMA CallExternFollowed ==
    ASSUME DispatchInv, Followed, CallExtern
    PROVE  Followed'
<1>1. /\ queue' = queue /\ stack' = Append(stack, Callback) /\ ~In("Add") /\ ~In("Raise_astp")
      /\ Waits
  BY DEF CallExtern, pending, pairs, switches, Does, UserCode, In, Waits, CheckStays
<1>2. Callback \in Activation /\ Callback.fn = "callback"
  BY FrameKinds DEF Callback
<1>3. PICK a \in Activation : a = Callback /\ a.fn = "callback"
  BY <1>2
<1> QED BY <1>1, <1>3, PushFollowed

(* ... a change of a signal's flag, ...                                     *)
LEMMA SetSigFlagFollowed ==
    ASSUME DispatchInv, Followed, NEW s \in Sig, NEW v \in BOOLEAN, SetSigFlag(s, v)
    PROVE  Followed'
<1>1. /\ UNCHANGED <<ring, queue, asts_enabled>> /\ ~In("Add") /\ ~In("Raise_astp") /\ CheckStays
      /\ \/ stack' = stack /\ (ignore' \/ ~asts_enabled')
         \/ stack' = Append(stack, Scan(FALSE))
  BY DEF SetSigFlag, CallScan, pending, pairs, Does, UserCode, In, CheckStays
<1>2. PICK b \in Activation : b = Scan(FALSE) /\ b.fn = "Do_ast_queue" /\ Starter(b)
  <2>1. 0 \in 0 .. MaxRaise
    BY AstQueueAssumption
  <2> QED BY <2>1, FrameKinds DEF Scan, Starter, IsScan
<1>3. CASE stack' = stack /\ (ignore' \/ ~asts_enabled')
  <2>1. DueSound'
    BY <1>3 DEF DueSound
  <2> QED BY <1>1, <1>3, <2>1, StayFollowed
<1>4. CASE stack' = Append(stack, Scan(FALSE))
  BY <1>1, <1>2, <1>4, PushFollowed
<1> QED BY <1>1, <1>3, <1>4

(* ... an ast that arrives, ...                                             *)
LEMMA EventFollowed ==
    ASSUME DispatchInv, Followed, NEW x \in Item, Event(x)
    PROVE  Followed'
<1>1. ring' = Append(ring, x)
  BY RingHasRoom DEF Event, DispatchInv
<1>2. CheckStays
  BY <1>1, AppendCheck DEF DispatchInv
<1> QED BY <1>2, StayFollowed DEF Event, Waits, pairs, switches

(* ... the end of a handler, which leaves the queue to what started it, ... *)
LEMMA HandlerReturnFollowed ==
    ASSUME DispatchInv, Followed, AstpReturns \/ SigReturns
    PROVE  Followed'
<1>1. stack # <<>> /\ Top.fn = "handler" /\ stack' = Popped /\ queue' = queue
  BY DEF AstpReturns, SigReturns, In, pairs
<1>2. TypeOK /\ StartsSound
  BY DEF DispatchInv, Followed
<1>3. /\ Depth \in Nat \ {0} /\ Depth = Len(stack) /\ Top = stack[Depth] /\ Len(Popped) = Depth - 1
      /\ Moved(Popped, Depth - 1, stack, {}, 0 - FrameWeight[Top])
  BY <1>1, <1>2, TopTyped
<1>4. Depth \in 1 .. Len(stack)
  BY <1>3
<1>5. Depth > 1 /\ Starter(stack[Depth - 1])
  BY <1>1, <1>2, <1>3, <1>4 DEF StartsSound
<1>6. PICK k : k = Depth - 1
  OBVIOUS
<1>7. k \in 1 .. Len(stack') /\ stack'[k] = stack[k]
  <2>1. k \in 1 .. Depth - 1
    BY <1>3, <1>5, <1>6
  <2>2. stack' = Popped /\ Popped[k] = stack[k]
    BY <1>1, <1>3, <2>1 DEF Moved
  <2> QED BY <1>3, <2>1, <2>2
<1>8. DueSound'
  BY <1>5, <1>6, <1>7, DueNow
<1> QED BY <1>1, <1>8, PopFollowed

(* ... and a scan that ends, or passes a blocked entry.                     *)
LEMMA ScanFollowed ==
    ASSUME DispatchInv, Followed, ScanEnds \/ ScanSkips
    PROVE  Followed'
<1>1. stack # <<>> /\ Top.fn = "Do_ast_queue" /\ In("Do_ast_queue") /\ queue' = queue /\ TypeOK
  BY DEF ScanEnds, ScanSkips, Looking, In, pairs, DispatchInv
<1>2. CASE ScanEnds
  <2>1. stack' = Popped /\ DueSound'
    BY <1>2 DEF ScanEnds, DueSound
  <2> QED BY <1>1, <2>1, PopFollowed
<1>3. CASE ScanSkips
  <2>1. PICK l : l = queue[Place].id
    OBVIOUS
  <2>2. l \in 0 .. MaxRaise
    <3>1. Place \in 1 .. Len(queue)
      <4>1. Place \in Nat \ {0} /\ Len(queue) \in Nat
        BY <1>1, ScanPlace, LenProperties DEF TypeOK
      <4> QED BY <1>3, <4>1 DEF ScanSkips
    <3>2. queue[Place].id \in 1 .. MaxRaise
      <4>1. \A e \in Entry : e.id \in 1 .. MaxRaise
        BY DEF Entry
      <4>2. queue[Place] \in Entry
        BY <1>1, <3>1, ElementOfSeq DEF TypeOK
      <4> QED BY <4>1, <4>2
    <3> QED BY <2>1, <3>2
  <2> DEFINE a == [fn |-> "Do_ast_queue", pc |-> "check", async |-> Top.async, lptr |-> l]
  <2>3. stack' = Append(Popped, a) /\ a \in Activation
    <3>1. [stack EXCEPT ![Depth].lptr = l, ![Depth].pc = "check"] = Append(Popped, a) /\ a \in Activation
      BY <1>1, <2>2, ScanGoto
    <3>2. stack' = [stack EXCEPT ![Depth].lptr = l, ![Depth].pc = "check"]
      BY <1>3, <2>1 DEF ScanSkips
    <3> HIDE DEF a
    <3> QED BY <3>1, <3>2
  <2>4. a.fn = "Do_ast_queue" /\ Starter(a)
    BY DEF Starter, IsScan
  <2> HIDE DEF a
  <2> QED BY <1>1, <2>3, <2>4, TopFollowed
<1> QED BY <1>2, <1>3

-----------------------------------------------------------------------------
(* No ast is on its way once its activation has gone.                       *)
LEMMA NoneLeft ==
    ASSUME TypeOK, AddsSound, EntersSound, NEW n, NEW F, NEW d, Moved(stack', n, stack, F, d),
           n < Len(stack) \/ (~In("Add") /\ ~In("Raise_astp")),
           NEW i \in 1 .. Len(stack'), stack'[i].fn \in {"Add", "Raise_astp"}
    PROVE  i \in n + 1 .. Len(stack') /\ stack'[i] \in F
<1>1. /\ \A j \in 1 .. n : stack'[j] = stack[j] /\ j \in 1 .. Len(stack)
      /\ \A j \in n + 1 .. Len(stack') : stack'[j] \in F
      /\ \A j \in 1 .. Len(stack') : j \in 1 .. n \/ j \in n + 1 .. Len(stack')
      /\ n \in Nat /\ Len(stack) \in Nat
  BY MovedParts
<1>2. ASSUME i \in 1 .. n
      PROVE  FALSE
  <2>1. i \in 1 .. Len(stack) /\ stack[i].fn \in {"Add", "Raise_astp"} /\ i <= n
    BY <1>1, <1>2
  <2>2. i = Len(stack) /\ (In("Add") \/ In("Raise_astp"))
    BY <2>1, AddOnTop, EnterOnTop
  <2> QED BY <1>1, <2>1, <2>2
<1> QED BY <1>1, <1>2

(* What started the activation on top will look at the queue after it.      *)
LEMMA StarterBelow ==
    ASSUME TypeOK, StartsSound, stack # <<>>, Top.fn \in {"handler", "Raise_astp", "Add"},
           NEW F, NEW d, Moved(stack', Depth - 1, stack, F, d)
    PROVE  /\ DueSound'
           /\ Depth > 1 /\ Starter(stack'[Depth - 1])
<1>1. Depth \in Nat \ {0} /\ Depth = Len(stack) /\ Top = stack[Depth] /\ Depth \in 1 .. Len(stack)
  <2>1. Depth \in Nat \ {0} /\ Depth = Len(stack) /\ Top = stack[Depth]
    BY TopTyped
  <2> QED BY <2>1
<1>2. Depth > 1 /\ Starter(stack[Depth - 1])
  BY <1>1 DEF StartsSound
<1>3. PICK k : k = Depth - 1
  OBVIOUS
<1>4. k \in 1 .. k
  BY <1>1, <1>2, <1>3
<1>5. k \in 1 .. Len(stack') /\ stack'[k] = stack[k]
  <2> DEFINE n == Depth - 1
  <2>1. Moved(stack', n, stack, F, d) /\ n = k
    BY <1>3
  <2> HIDE DEF n
  <2> QED BY <1>4, <2>1, MovedParts
<1>6. Starter(stack'[k])
  BY <1>2, <1>3, <1>5
<1>7. DueSound'
  BY <1>5, <1>6, DueNow
<1> QED BY <1>2, <1>3, <1>6, <1>7

(* An ast that gets on the queue, ...                                       *)
LEMMA AddAstFollowed ==
    ASSUME DispatchInv, Followed, AddAst
    PROVE  Followed'
<1>0. TypeOK /\ AddsSound /\ QueueSound /\ StartsSound /\ SortedSound /\ EntersSound
  BY DEF DispatchInv, Followed
<1>1. stack # <<>> /\ Top.fn = "Add" /\ stack' = Popped
  BY DEF AddAst, In
<1>2. /\ Depth \in Nat \ {0} /\ Depth = Len(stack) /\ Top = stack[Depth] /\ Top \in Activation
      /\ Moved(stack', Depth - 1, stack, {}, 0 - FrameWeight[Top]) /\ Depth \in 1 .. Len(stack)
  <2>1. /\ Depth \in Nat \ {0} /\ Depth = Len(stack) /\ Top = stack[Depth] /\ Top \in Activation
        /\ Moved(stack', Depth - 1, stack, {}, 0 - FrameWeight[Top])
    BY <1>0, <1>1, TopTyped
  <2> QED BY <2>1
<1> PICK e : e = Top.entry
  OBVIOUS
<1>3. e \in Entry /\ queue' = Append(queue, e) /\ \A j \in 1 .. Len(queue) : queue[j].id < e.id
  <2>1. e \in Entry
    BY <1>1, <1>2, FrameFields
  <2>2. queue' = Append(queue, e)
    BY <1>0, UpToEnd DEF AddAst
  <2>3. \A j \in 1 .. Len(queue) : queue[j].id < e.id
    BY <1>0, <1>1, <1>2 DEF SortedSound
  <2> QED BY <2>1, <2>2, <2>3
<1>4. /\ queue \in Seq(Entry) /\ Len(queue) \in Nat /\ Len(queue') = Len(queue) + 1
      /\ queue'[Len(queue) + 1] = e /\ \A i \in 1 .. Len(queue) : queue'[i] = queue[i]
  BY <1>0, <1>3, AppendProperties, LenProperties DEF TypeOK
<1> DEFINE n == Depth - 1  F == {}  d == 0 - FrameWeight[Top]
<1>5. Moved(stack', n, stack, F, d) /\ n < Len(stack)
  BY <1>2
<1>6. DueSound'
  BY <1>0, <1>1, <1>2, StarterBelow
<1> HIDE DEF n, F, d
<1>7. ASSUME NEW i \in 1 .. Len(stack'), stack'[i].fn \in {"Add", "Raise_astp"}
      PROVE  FALSE
  <2>1. stack'[i] \in F
    BY <1>0, <1>5, <1>7, NoneLeft
  <2> QED BY <2>1 DEF F
<1>8. StartsSound'
  <2>1. \A i \in n + 1 .. Len(stack') : FALSE
    <3>1. \A i \in n + 1 .. Len(stack') : stack'[i] \in F
      BY <1>0, <1>5, MovedParts
    <3> QED BY <3>1 DEF F
  <2> QED BY <1>0, <1>5, <2>1, StartsKept
<1>9. SortedSound'
  <2>1. ASSUME NEW i \in 1 .. Len(queue'), NEW j \in 1 .. Len(queue'), i < j
        PROVE  queue'[i].id < queue'[j].id
    <3>1. i \in 1 .. Len(queue) /\ (j \in 1 .. Len(queue) \/ j = Len(queue) + 1)
      BY <1>4, <2>1
    <3>2. CASE j \in 1 .. Len(queue)
      BY <1>0, <1>4, <2>1, <3>1, <3>2 DEF SortedSound
    <3>3. CASE j = Len(queue) + 1
      BY <1>3, <1>4, <3>1, <3>3
    <3> QED BY <3>1, <3>2, <3>3
  <2> QED BY <1>7, <2>1 DEF SortedSound
<1>10. EntersSound'
  BY <1>7 DEF EntersSound
<1> QED BY <1>6, <1>8, <1>9, <1>10 DEF Followed

(* ... an astp that starts, ...                                             *)
LEMMA EnterFollowed ==
    ASSUME DispatchInv, Followed, Enter
    PROVE  Followed'
<1>0. TypeOK /\ AddsSound /\ StartsSound /\ SortedSound /\ EntersSound
  BY DEF DispatchInv, Followed
<1>1. /\ stack # <<>> /\ Top.fn = "Raise_astp" /\ stack' = Append(Popped, Handler(Top.entry))
      /\ queue' = queue
  BY DEF Enter, In, pairs
<1>2. Top \in Activation /\ Depth \in Nat \ {0} /\ Depth = Len(stack)
  BY <1>0, <1>1, TopTyped
<1>3. PICK a \in Activation : a = Handler(Top.entry) /\ a.fn = "handler"
  <2>1. Top.entry \in Entry
    BY <1>1, <1>2, FrameFields
  <2> QED BY <2>1, FrameKinds DEF Handler
<1> DEFINE n == Depth - 1  F == {a}  d == FrameWeight[a] - FrameWeight[Top]
<1>4. stack' = Append(Popped, a)
  BY <1>1, <1>3
<1>5. Moved(stack', n, stack, F, d) /\ n < Len(stack) /\ Len(stack') = Depth
  <2>1. Moved(stack', n, stack, F, d) /\ Len(stack') = Depth
    BY <1>0, <1>1, <1>4, TopBecomes
  <2> QED BY <1>2, <2>1
<1>6. DueSound' /\ Depth > 1 /\ Starter(stack'[Depth - 1])
  BY <1>0, <1>1, <1>5, StarterBelow
<1>7. \A i \in n + 1 .. Len(stack') : i = Depth
  BY <1>2, <1>5
<1> HIDE DEF n, F, d
<1>8. ASSUME NEW i \in 1 .. Len(stack'), stack'[i].fn \in {"Add", "Raise_astp"}
      PROVE  FALSE
  <2>1. stack'[i] \in F
    BY <1>0, <1>5, <1>8, NoneLeft
  <2> QED BY <1>3, <1>8, <2>1 DEF F
<1>9. StartsSound'
  BY <1>0, <1>5, <1>6, <1>7, StartsKept
<1>10. SortedSound'
  BY <1>0, <1>1, <1>8 DEF SortedSound
<1>11. EntersSound'
  BY <1>8 DEF EntersSound
<1> QED BY <1>6, <1>9, <1>10, <1>11 DEF Followed

-----------------------------------------------------------------------------
(* What makes up for a queued ast, when nothing blocks it: the check that   *)
(* an external call has left in the ring.                                   *)
LEMMA OnlyCalled ==
    ASSUME NEW x, Accounted(x), ~Blocked(x)
    PROVE  x \in External /\ CheckDue
  BY DEF Accounted, Blocked, CallbackBlocks, RecursionBlocks, CheckDue

(* An ast may run with an earlier raise of it on the queue only then.       *)
LEMMA RunsOver ==
    ASSUME DispatchInv, NEW j \in 1 .. Len(queue), MayRun(queue[j].item, FALSE)
    PROVE  queue[j].item \in External /\ CheckDue
<1>1. queue[j].item \notin Never /\ Watched /\ ~Blocked(queue[j].item)
  BY DEF DispatchInv, QueueSound, MayRun, Watched
<1>2. Accounted(queue[j].item)
  BY <1>1 DEF DispatchInv, IgnoreAccounted
<1> QED BY <1>1, <1>2, OnlyCalled

(* Scans run the entries of the queue from its head.                        *)
LEMMA ScanRunsFirst ==
    ASSUME DispatchInv, SortedSound, Looking, Place \in 1 .. Len(queue),
           MayRun(queue[Place].item, TRUE),
           NEW j \in 1 .. Len(queue), queue[j].item = queue[Place].item,
           queue[j].id < queue[Place].id
    PROVE  FALSE
<1>0. TypeOK /\ In("Do_ast_queue")
  BY DEF DispatchInv, Looking
<1> PICK p \in 1 .. Len(queue) : p = Place
  OBVIOUS
<1>1. Len(queue) \in Nat /\ queue \in Seq(Entry)
  BY <1>0, LenProperties DEF TypeOK
<1>2. queue[j].id \in Nat /\ queue[p].id \in Nat
  BY <1>1, EntryFields
<1>3. ~(p < j) /\ j # p
  <2>1. p < j => queue[p].id < queue[j].id
    BY DEF SortedSound
  <2> QED BY <1>2, <2>1
<1>4. j \in 1 .. p - 1
  BY <1>1, <1>3
<1>5. j \in 1 .. Place - 1
  BY <1>4
<1>6. Below(queue[j].item, Depth, stack, sig_flag)
  BY <1>0, <1>5, ScanPlace
<1>7. Depth \in 1 .. Len(stack)
  <2>1. stack # <<>>
    BY <1>0 DEF In
  <2>2. Depth \in Nat \ {0} /\ Depth = Len(stack)
    BY <1>0, <2>1, TopTyped
  <2> QED BY <2>2
<1> QED BY <1>0, <1>6, <1>7, RunsNotBelow

(* ... an ast that is dealt with, ...                                       *)
LEMMA DispatchFollowed ==
    ASSUME DispatchInv, Followed, NEW x \in Item, NEW st \in Seq(Activation), NEW n, NEW F,
           Dispatched(x, st, n, F)
    PROVE  Followed'
<1> DEFINE e == [item |-> x, id |-> seen + 1]
<1>0. /\ TypeOK /\ QueueSound /\ AddsSound /\ StartsSound /\ SortedSound /\ EntersSound
      /\ queue' = queue /\ ~In("Add") /\ ~In("Raise_astp")
      /\ Len(st) \in Nat \ {0} /\ Starter(st[Len(st)])
      /\ \A a \in F : a.fn \in Plain \ {"Do_ast_queue"}
      /\ Moved(st, n, stack, F, 0)
  BY DEF DispatchInv, Followed, Dispatched
<1>1. seen \in Nat /\ e \in Entry /\ e.item = x /\ e.id = seen + 1
  BY <1>0 DEF TypeOK, Dispatched, Dispatch, Entry
<1>2. \/ MayRun(x, FALSE) /\ stack' = Append(st, Started(e))
      \/ stack' = Append(st, Adding(e))
  <2>1. Raise(st, e) = Append(st, Started(e))
    BY DEF Raise, Started
  <2> QED BY <2>1 DEF Dispatched, Dispatch
<1> HIDE DEF e
<1>3. /\ Started(e) \in Activation /\ Started(e).fn \in {"handler", "Raise_astp"}
      /\ Started(e).entry = e
      /\ Adding(e) \in Activation /\ Adding(e).fn = "Add" /\ Adding(e).entry = e
  <2>1. Started(e) \in Activation /\ Adding(e) \in Activation /\ Started(e).fn \in {"handler", "Raise_astp"}
    BY <1>0, <1>1, RaiseParts, FrameKinds
  <2> QED BY <2>1 DEF Started, Handler, Entering, Adding
<1> PICK f \in {Started(e), Adding(e)} :
       /\ stack' = Append(st, f)
       /\ f.fn = "Raise_astp" => MayRun(x, FALSE)
  BY <1>2, <1>3
<1>4. f \in Activation /\ f.fn \in {"handler", "Raise_astp", "Add"} /\ f.entry = e
  BY <1>3
<1> DEFINE z == 0  G == F \cup {f}  d == z + FrameWeight[f]
<1>5. /\ Moved(stack', n, stack, G, d)
      /\ Len(stack') = Len(st) + 1 /\ stack'[Len(st) + 1] = f
      /\ \A i \in 1 .. Len(st) : stack'[i] = st[i]
  <2>1. z \in Int /\ Moved(st, n, stack, F, z) /\ stack \in Seq(Activation)
    BY <1>0 DEF TypeOK
  <2> HIDE DEF z
  <2>2. Moved(Append(st, f), n, stack, F \cup {f}, z + FrameWeight[f])
    BY <1>4, <2>1, MovedPush
  <2>3. /\ Len(Append(st, f)) = Len(st) + 1 /\ Append(st, f)[Len(st) + 1] = f
        /\ \A i \in 1 .. Len(st) : Append(st, f)[i] = st[i]
    BY <1>4, AppendProperties
  <2> QED BY <2>2, <2>3
<1>6. /\ \A i \in 1 .. Len(stack') : i \in 1 .. Len(st) \/ i = Len(st) + 1
      /\ Len(st) \in 1 .. Len(stack') /\ (Len(st) + 1) - 1 = Len(st) /\ Len(st) + 1 > 1
  BY <1>0, <1>5
<1>7. Starter(stack'[Len(st)])
  BY <1>0, <1>5
<1>8. DueSound'
  BY <1>6, <1>7, DueNow
<1>9. \A i \in n + 1 .. Len(stack') : i \in 1 .. Len(st) => stack'[i] \in F
  <2>1. \A i \in n + 1 .. Len(st) : st[i] \in F
    BY <1>0 DEF Moved
  <2> QED BY <1>5, <2>1
<1>10. StartsSound'
  <2>1. ASSUME NEW i \in n + 1 .. Len(stack'), stack'[i].fn \in {"handler", "Raise_astp", "Add"}
        PROVE  i > 1 /\ Starter(stack'[i - 1])
    <3>1. i \in 1 .. Len(stack')
      <4>1. n \in Nat /\ Len(stack') \in Nat
        BY <1>0, <1>5, MovedParts
      <4> QED BY <4>1
    <3>2. i = Len(st) + 1
      BY <1>0, <1>6, <1>9, <2>1, <3>1 DEF Plain
    <3> QED BY <1>6, <1>7, <3>2
  <2> HIDE DEF G, d
  <2> QED BY <1>0, <1>5, <2>1, StartsKept
<1>11. ASSUME NEW i \in 1 .. Len(stack'), stack'[i].fn \in {"Add", "Raise_astp"}
       PROVE  stack'[i] = f /\ i = Len(stack')
  <2>1. i \in n + 1 .. Len(stack')
    <3> HIDE DEF G, d
    <3> QED BY <1>0, <1>5, <1>11, NoneLeft
  <2>2. i = Len(st) + 1
    BY <1>0, <1>6, <1>9, <1>11, <2>1 DEF Plain
  <2> QED BY <1>5, <2>2
<1>12. SortedSound'
  <2>1. \A j \in 1 .. Len(queue) : queue[j].id < e.id
    <3>1. \A j \in 1 .. Len(queue) : queue[j].id <= seen /\ queue[j].id \in Nat
      BY <1>0, EntryFields DEF QueueSound, TypeOK
    <3> QED BY <1>1, <3>1
  <2>2. \A i \in 1 .. Len(stack') : stack'[i].fn = "Add" => stack'[i].entry = e
    BY <1>4, <1>11
  <2> QED BY <1>0, <2>1, <2>2 DEF SortedSound
<1>13. EntersSound'
  <2>1. ASSUME NEW i \in 1 .. Len(stack'), stack'[i].fn = "Raise_astp"
        PROVE  i = Len(stack') /\ stack'[i].entry.item = x /\ MayRun(x, FALSE)
    BY <1>1, <1>4, <1>11, <2>1
  <2>2. CheckDue => CheckDue'
    BY DEF Dispatched, CheckStays, CheckDue
  <2>3. ASSUME MayRun(x, FALSE), NEW j \in 1 .. Len(queue), queue[j].item = x
        PROVE  queue[j].item \in External /\ CheckDue'
    BY <2>2, <2>3, RunsOver
  <2> QED BY <1>0, <2>1, <2>3 DEF EntersSound
<1> QED BY <1>8, <1>10, <1>12, <1>13 DEF Followed

(* ... in either way, ...                                                   *)
LEMMA DispatchesFollowed ==
    ASSUME DispatchInv, Followed, TakeAst \/ \E x \in Item : RaiseSync(x)
    PROVE  Followed'
  BY TakeAstParts, RaiseSyncParts, DispatchFollowed

-----------------------------------------------------------------------------
(* ... an entry that is taken off the queue and run, ...                    *)
LEMMA ScanRunsFollowed ==
    ASSUME DispatchInv, Followed, ScanRuns
    PROVE  Followed'
<1>0. /\ TypeOK /\ QueueSound /\ AddsSound /\ StartsSound /\ SortedSound /\ EntersSound
  BY DEF DispatchInv, Followed
<1> PICK p : p = Place
  OBVIOUS
<1> PICK e : e = queue[p]
  OBVIOUS
<1> DEFINE f == Started(e)
           a == [fn |-> "Do_ast_queue", pc |-> "check", async |-> Top.async, lptr |-> 0]
<1>1. /\ Looking /\ stack # <<>> /\ In("Do_ast_queue") /\ p <= Len(queue)
      /\ MayRun(e.item, TRUE) /\ queue' = RemoveAt(queue, p)
      /\ stack' = Raise([stack EXCEPT ![Depth].lptr = 0, ![Depth].pc = "check"], e)
  BY DEF ScanRuns, Looking, Removing, In
<1>2. Len(queue) \in Nat /\ queue \in Seq(Entry) /\ p \in 1 .. Len(queue) /\ e \in Entry
  <2>1. Len(queue) \in Nat /\ queue \in Seq(Entry)
    BY <1>0, LenProperties DEF TypeOK
  <2>2. p \in 1 .. Len(queue)
    BY <1>1, <2>1, ScanPlace
  <2> QED BY <2>1, <2>2, EntryFields
<1>3. /\ f \in Activation /\ f.fn \in {"handler", "Raise_astp"} /\ f.entry = e
      /\ \A st : Raise(st, e) = Append(st, f)
  <2>1. f \in Activation /\ f.fn \in {"handler", "Raise_astp"} /\ \A st : Raise(st, e) = Append(st, f)
    BY <1>0, <1>2, RaiseParts
  <2> QED BY <2>1 DEF Started, Handler, Entering
<1>4. stack' = Append(Append(Popped, a), f) /\ a \in Activation /\ a.fn = "Do_ast_queue" /\ Starter(a)
  <2>1. 0 \in 0 .. MaxRaise
    BY AstQueueAssumption
  <2>2. [stack EXCEPT ![Depth].lptr = 0, ![Depth].pc = "check"] = Append(Popped, a) /\ a \in Activation
    BY <1>0, <1>1, <2>1, ScanGoto
  <2>3. a.fn = "Do_ast_queue" /\ Starter(a)
    BY DEF Starter, IsScan
  <2> HIDE DEF f, a
  <2> QED BY <1>1, <1>3, <2>2, <2>3
<1> HIDE DEF a, f
<1> DEFINE n == Depth - 1  F == {a, f}  d == (FrameWeight[a] - FrameWeight[Top]) + FrameWeight[f]
<1>5. /\ Moved(stack', n, stack, F, d) /\ Depth \in Nat \ {0} /\ Depth = Len(stack)
      /\ Len(stack') = Depth + 1 /\ stack'[Depth] = a /\ stack'[Depth + 1] = f
  <2>1. a \in Activation /\ f \in Activation /\ stack # <<>> /\ TypeOK
    BY <1>0, <1>1, <1>3, <1>4
  <2>2. stack' = Append(Append(Popped, a), f)
    BY <1>4
  <2> QED BY <2>1, <2>2, TopThen
<1>6. /\ n < Len(stack) /\ Depth \in 1 .. Len(stack')
      /\ \A i \in n + 1 .. Len(stack') : i = Depth \/ (i = Depth + 1 /\ i - 1 = Depth /\ i > 1)
  BY <1>5
<1> HIDE DEF n, F, d
<1>7. DueSound'
  <2>1. PICK k \in 1 .. Len(stack') : stack'[k] = a
    BY <1>5, <1>6
  <2> QED BY <1>4, <2>1, DueNow
<1>8. StartsSound'
  <2>1. \A i \in n + 1 .. Len(stack') :
           stack'[i].fn \in {"handler", "Raise_astp", "Add"} => i > 1 /\ Starter(stack'[i - 1])
    BY <1>4, <1>5, <1>6
  <2> QED BY <1>0, <1>5, <2>1, StartsKept
<1>9. ASSUME NEW i \in 1 .. Len(stack'), stack'[i].fn \in {"Add", "Raise_astp"}
      PROVE  i = Len(stack') /\ stack'[i] = f
  <2>1. i \in n + 1 .. Len(stack')
    BY <1>0, <1>5, <1>6, <1>9, NoneLeft
  <2> QED BY <1>4, <1>5, <1>6, <1>9, <2>1
<1>10. /\ queue' \in Seq(Entry) /\ Len(queue') = Len(queue) - 1
       /\ \A k \in 1 .. Len(queue) - 1 : queue'[k] = IF k < p THEN queue[k] ELSE queue[k + 1]
  BY <1>1, <1>2, RemoveAtProperties
<1>11. SortedSound'
  <2>1. \A i, j \in 1 .. Len(queue') : i < j => queue'[i].id < queue'[j].id
    <3> DEFINE g(k) == IF k < p THEN k ELSE k + 1
    <3>1. /\ \A k \in 1 .. Len(queue') : g(k) \in 1 .. Len(queue) /\ queue'[k] = queue[g(k)]
          /\ \A i, j \in 1 .. Len(queue') : i < j => g(i) < g(j)
      BY <1>2, <1>10
    <3> HIDE DEF g
    <3> QED BY <1>0, <3>1 DEF SortedSound
  <2>2. \A i \in 1 .. Len(stack') : stack'[i].fn # "Add"
    BY <1>3, <1>9
  <2> QED BY <2>1, <2>2 DEF SortedSound
<1>12. EntersSound'
  <2>1. ASSUME NEW j \in 1 .. Len(queue'), queue'[j].item = e.item, queue'[j].id < e.id
        PROVE  FALSE
    <3>1. PICK l \in 1 .. Len(queue) : queue'[j] = queue[l]
      <4>1. \A k \in 1 .. Len(queue) - 1 : k \in 1 .. Len(queue) /\ k + 1 \in 1 .. Len(queue)
        BY <1>2
      <4> QED BY <1>10, <4>1
    <3>2. Place \in 1 .. Len(queue) /\ e = queue[Place]
      BY <1>2
    <3>3. MayRun(queue[Place].item, TRUE) /\ queue[l].item = queue[Place].item /\ queue[l].id < queue[Place].id
      BY <1>1, <2>1, <3>1, <3>2
    <3> QED BY <1>0, <1>1, <3>2, <3>3, ScanRunsFirst
  <2>2. \A i \in 1 .. Len(stack') : stack'[i].fn = "Raise_astp" => i = Len(stack') /\ stack'[i].entry = e
    BY <1>3, <1>9
  <2> QED BY <2>1, <2>2 DEF EntersSound
<1> QED BY <1>7, <1>8, <1>11, <1>12 DEF Followed

(* ... the call of Clear_ast_queue, during which asts are disabled, ...     *)
LEMMA ClearFollowed ==
    ASSUME DispatchInv, Followed, RaiseMishap \/ Setpop
    PROVE  Followed'
<1>0. TypeOK
  BY DEF DispatchInv
<1> PICK then \in {"mishap", "unwind"} : Clear(then) /\ UserCode
  BY DEF RaiseMishap, Setpop, Does
<1> DEFINE c == Clearing(then, asts_enabled)  n == Len(stack)  F == {c, Async}
           d == FrameWeight[c] + FrameWeight[Async]
<1>1. queue' = queue /\ ~asts_enabled' /\ ~In("Add") /\ ~In("Raise_astp")
  BY DEF Clear, pairs, UserCode, In
<1>2. c \in Activation /\ c.fn = "Clear_ast_queue" /\ Async \in Activation /\ Async.fn = "Async_raise_signal"
  <2>1. c \in Activation
    BY <1>0, FrameKinds DEF TypeOK
  <2>2. Async \in Activation
    BY FreshKinds DEF Fresh
  <2> QED BY <2>1, <2>2 DEF Clearing, Async
<1>3. stack' = Append(Append(stack, c), Async)
  <2>1. IsSequence(stack)
    BY <1>0 DEF IsSequence, TypeOK
  <2> QED BY <2>1, TwoAppended DEF Clear
<1> HIDE DEF c
<1>4. Moved(stack', n, stack, F, d)
  BY <1>0, <1>2, <1>3, Pushed
<1>5. Calm(n, F, d)
  BY <1>1, <1>2, <1>4 DEF Calm
<1>6. DueSound'
  BY <1>1 DEF DueSound
<1> HIDE DEF n, F, d
<1> QED BY <1>5, <1>6, CalmKept DEF Followed

(* ... and its end, with a queue that will be looked at.                    *)
LEMMA ClearEntriesFollowed ==
    ASSUME DispatchInv, Followed, ClearEntries,
           asts_enabled' => (queue_end' = 0 => ignore'),
           \A k \in 1 .. Len(stack') : stack'[k].fn \notin {"handler", "Raise_astp", "Add"}
    PROVE  Followed'
<1>0. TypeOK /\ SortedSound
  BY DEF DispatchInv, Followed
<1>1. StartsSound' /\ EntersSound'
  BY DEF StartsSound, EntersSound
<1>2. SortedSound'
  <2>1. From(queue', queue, Len(queue))
    <3>1. queue \in Seq(Entry) /\ queue' = Survivors(queue)
      BY <1>0 DEF ClearEntries, TypeOK
    <3> QED BY <3>1, SurvivorsFrom
  <2>2. \A i, j \in 1 .. Len(queue') : i < j => queue'[i].id < queue'[j].id
    BY <1>0, <2>1 DEF From, SortedSound
  <2> QED BY <2>2 DEF SortedSound
<1>3. DueSound'
  <2> SUFFICES ASSUME asts_enabled', ~ignore'
               PROVE  CheckDue'
    BY DEF DueSound
  <2>1. Ring!Arrive(QueueCheck)
    BY DEF ClearEntries
  <2>2. stack # <<>> /\ Top \in Activation /\ Top.fn = "Clear_ast_queue"
    BY <1>0, TopTyped DEF ClearEntries, In
  <2>3. FrameWeight[Top] >= 1
    BY <2>2, FrameWeights
  <2>4. ring' = Append(ring, QueueCheck)
    BY <1>0, <2>1, <2>2, <2>3, RingHasRoom DEF DispatchInv
  <2> QED BY <1>0, <2>4, AppendCheck
<1> QED BY <1>1, <1>2, <1>3 DEF Followed

(* What a mishap or setpop goes on with.                                    *)
LEMMA ClearsFollowed ==
    ASSUME DispatchInv, Followed,
           ClearInMishap \/ ClearAndUnwind \/ ClearAndReset \/ ClearAndRestart
    PROVE  Followed'
<1>0. TypeOK /\ ClearEntries /\ In("Clear_ast_queue")
  BY DEF ClearInMishap, ClearAndUnwind, ClearAndReset, ClearAndRestart, ClearEntries, DispatchInv
<1>1. CASE ClearInMishap
  <2>1. Popped = <<>> /\ Mishap \in Activation /\ Mishap.fn = "mishap"
    BY <1>0, <1>1, ClearTop, FrameKinds DEF ClearInMishap, Mishap
  <2> DEFINE s == <<>>
  <2>2. s \in Seq(Activation) /\ Len(s) = 0 /\ stack' = Append(s, Mishap)
    BY <1>1, <2>1 DEF ClearInMishap
  <2> HIDE DEF s
  <2>3. Len(stack') = 1 /\ stack'[1] = Mishap
    BY <2>1, <2>2, AppendProperties
  <2>4. \A k \in 1 .. Len(stack') : stack'[k].fn = "mishap"
    BY <2>1, <2>3
  <2> QED BY <1>0, <1>1, <2>4, ClearEntriesFollowed DEF ClearInMishap
<1>2. CASE ClearAndUnwind \/ ClearAndReset
  <2>1. PICK then, en : stack' = <<Clearing(then, en), Async>> /\ ~asts_enabled'
    <3>1. ~asts_enabled
      BY <1>0, ClearTop
    <3> QED BY <1>2, <3>1 DEF ClearAndUnwind, ClearAndReset, switches
  <2>2. Clearing(then, en).fn = "Clear_ast_queue" /\ Async.fn = "Async_raise_signal"
    BY DEF Clearing, Async
  <2>3. /\ Len(stack') = 2 /\ stack'[1] = Clearing(then, en) /\ stack'[2] = Async
    BY <2>1, TwoOnly
  <2>4. \A k \in 1 .. Len(stack') : stack'[k].fn \in {"Clear_ast_queue", "Async_raise_signal"}
    <3>1. \A k \in 1 .. Len(stack') : k = 1 \/ k = 2
      BY <2>3
    <3> QED BY <2>2, <2>3, <3>1
  <2> QED BY <1>0, <2>1, <2>4, ClearEntriesFollowed
<1>3. CASE ClearAndRestart
  <2>1. Len(stack') = 0
    BY <1>3, NoFrames DEF ClearAndRestart
  <2>2. \A k \in 1 .. Len(stack') : FALSE
    BY <2>1
  <2> QED BY <1>0, <1>3, <2>2, ClearEntriesFollowed DEF ClearAndRestart
<1> QED BY <1>1, <1>2, <1>3

-----------------------------------------------------------------------------
(* Every step keeps this too, ...                                           *)
LEMMA FollowNext ==
    ASSUME Tame, DispatchInv, FollowInv, [Next]_vars
    PROVE  FollowInv'
<1>0. Followed /\ TrapSound'
  BY TrapStep DEF FollowInv
<1> SUFFICES Followed'
  BY <1>0 DEF FollowInv
<1>1. CASE Dispatching
  <2>1. CASE CheckPoint
    BY <1>0, <2>1, CheckPointFollowed
  <2>2. CASE TakeAst \/ TakeCheck
    BY <1>0, <2>2, DispatchesFollowed, TakeCheckFollowed
  <2>3. CASE RingEmpty \/ MishapEnds \/ CallbackReturns
    BY <1>0, <2>3, ReturnsFollowed
  <2>4. CASE ThenQueue \/ RaiseSyncEnds
    BY <1>0, <2>4, CallsFollowed
  <2>5. CASE Enter \/ AddAst
    BY <1>0, <2>5, EnterFollowed, AddAstFollowed
  <2>6. CASE AstpReturns \/ SigReturns
    BY <1>0, <2>6, HandlerReturnFollowed
  <2>7. CASE ScanEnds \/ ScanSkips \/ ScanRuns
    BY <1>0, <2>7, ScanFollowed, ScanRunsFollowed
  <2>8. CASE ClearInMishap \/ ClearAndUnwind \/ ClearAndReset \/ ClearAndRestart
    BY <1>0, <2>8, ClearsFollowed
  <2> QED BY <1>1, <2>1, <2>2, <2>3, <2>4, <2>5, <2>6, <2>7, <2>8 DEF Dispatching
<1>2. CASE UserSteps
  <2>1. CASE \E x \in Item : RaiseSync(x)
    BY <1>0, <2>1, DispatchesFollowed
  <2>2. CASE \E s \in Sig, v \in BOOLEAN : SetSigFlag(s, v)
    BY <1>0, <2>2, SetSigFlagFollowed
  <2>3. ~(\E v \in BOOLEAN : SetAstsEnabled(v)) /\ ~ClearQueue /\ ~ExitHandler
    BY DEF SetAstsEnabled, ClearQueue, ExitHandler, Does, Tame
  <2>4. CASE CallExtern
    BY <1>0, <2>4, CallExternFollowed
  <2>5. CASE RaiseMishap \/ Setpop
    BY <1>0, <2>5, ClearFollowed
  <2> QED BY <1>2, <2>1, <2>2, <2>3, <2>4, <2>5 DEF UserSteps
<1>3. CASE \E x \in Item : Event(x)
  BY <1>0, <1>3, EventFollowed
<1>4. CASE UNCHANGED vars
  <2> USE <1>4 DEF vars
  <2>1. StartsSound' /\ SortedSound'
    BY <1>0 DEF Followed, StartsSound, SortedSound, Starter, IsScan
  <2>2. DueSound' /\ EntersSound'
    BY <1>0 DEF Followed, DueSound, EntersSound, CheckDue, Starter, IsScan
  <2> QED BY <2>1, <2>2 DEF Followed
<1> QED BY <1>1, <1>2, <1>3, <1>4 DEF Next

(* ... from the start.                                                      *)
LEMMA InitFollow == Init => FollowInv
<1> SUFFICES ASSUME Init
             PROVE  FollowInv
  OBVIOUS
<1>1. /\ \A i \in 1 .. Len(stack) : FALSE
      /\ \A i \in 1 .. Len(queue) : FALSE
      /\ ring = <<>> /\ ignore
  BY NoFrames DEF Init
<1>2. TrapSound /\ StartsSound /\ DueSound
  BY <1>1 DEF TrapSound, StartsSound, DueSound
<1>3. SortedSound /\ EntersSound
  BY <1>1 DEF SortedSound, EntersSound
<1> QED BY <1>2, <1>3 DEF FollowInv, Followed

(* With nothing left to do, the queue holds only what is blocked.           *)
LEMMA InvParksNothing ==
    ASSUME DispatchInv, FollowInv
    PROVE  NothingParked
<1> SUFFICES ASSUME stack = <<>>, ~trap, NEW i \in 1 .. Len(queue), Free(queue[i].item)
             PROVE  FALSE
  <2>1. DOMAIN queue = 1 .. Len(queue)
    BY LenProperties DEF DispatchInv, TypeOK
  <2> QED BY <2>1 DEF NothingParked
<1>1. (\A j \in 1 .. Len(stack) : FALSE) /\ (\A j \in 1 .. Len(ring) : FALSE)
  <2>1. ring = <<>>
    BY DEF FollowInv, TrapSound
  <2> QED BY <2>1, NoFrames
<1>2. asts_enabled
  BY <1>1 DEF DispatchInv, ClearsSound
<1>3. ignore
  BY <1>1, <1>2 DEF FollowInv, Followed, DueSound, CheckDue
<1>4. Accounted(queue[i].item) /\ queue[i].item \notin Never
  BY <1>2, <1>3 DEF DispatchInv, IgnoreAccounted, Watched, QueueSound
<1>5. ~Blocked(queue[i].item)
  BY <1>4 DEF Free
<1>6. CheckDue
  BY <1>4, <1>5, OnlyCalled
<1> QED BY <1>1, <1>6 DEF CheckDue

(* No step runs an ast over an earlier raise of it, unless a check is due.  *)
LEMMA StepsInOrder ==
    ASSUME DispatchInv, FollowInv, [Next]_vars, NEW x \in Item, Overtaken(x)
    PROVE  Called(x)
<1>0. /\ TypeOK /\ Followed /\ last_run' # last_run
      /\ queue \in Seq(Entry) /\ last_run \in [Item -> 0 .. MaxRaise]
      /\ last_run'[x] # last_run[x]
  BY DEF DispatchInv, FollowInv, Overtaken, TypeOK
<1> SUFFICES x \in External /\ CheckDue
  BY DEF Called, Contains, CheckDue
<1>1. CASE TakeAst \/ \E y \in Item : RaiseSync(y)
  <2>1. PICK y \in Item, st \in Seq(Activation), n \in Nat, F \in SUBSET Activation : Dispatched(y, st, n, F)
    BY <1>1, TakeAstParts, RaiseSyncParts
  <2> DEFINE e == [item |-> y, id |-> seen + 1]
  <2>2. MayRun(y, FALSE) /\ last_run' = RunsNow(e) /\ queue' = queue
    BY <1>0, <2>1 DEF Dispatched, Dispatch
  <2>3. y = x
    BY <1>0, <2>2 DEF RunsNow
  <2>4. PICK j \in DOMAIN queue : queue[j].item = x
    BY <2>2 DEF Overtaken
  <2>5. j \in 1 .. Len(queue)
    BY <1>0, LenProperties
  <2> QED BY <2>2, <2>3, <2>4, <2>5, RunsOver
<1>2. CASE Enter
  <2>1. /\ stack # <<>> /\ Top.fn = "Raise_astp" /\ queue' = queue
        /\ last_run' = [last_run EXCEPT ![Top.entry.item] = Top.entry.id]
    BY <1>2 DEF Enter, In, pairs
  <2>2. Top.entry.item = x /\ last_run'[x] = Top.entry.id
    BY <1>0, <2>1
  <2>3. PICK j \in DOMAIN queue : queue[j].item = x /\ queue[j].id < Top.entry.id
    BY <2>1, <2>2 DEF Overtaken
  <2>4. j \in 1 .. Len(queue)
    BY <1>0, LenProperties
  <2>5. Depth \in 1 .. Len(stack) /\ Top = stack[Depth]
    <3>1. Depth \in Nat \ {0} /\ Depth = Len(stack) /\ Top = stack[Depth]
      BY <1>0, <2>1, TopTyped
    <3> QED BY <3>1
  <2> QED BY <1>0, <2>1, <2>2, <2>3, <2>4, <2>5 DEF Followed, EntersSound
<1>3. CASE ScanRuns
  <2> PICK p : p = Place
    OBVIOUS
  <2> PICK e : e = queue[p]
    OBVIOUS
  <2>1. /\ Looking /\ In("Do_ast_queue") /\ p <= Len(queue) /\ MayRun(e.item, TRUE)
        /\ queue' = RemoveAt(queue, p) /\ last_run' = RunsNow(e)
    BY <1>3 DEF ScanRuns, Looking, Removing
  <2>2. p \in 1 .. Len(queue) /\ Len(queue) \in Nat
    BY <1>0, <2>1, ScanPlace, LenProperties
  <2>3. e.item = x /\ last_run'[x] = e.id
    BY <1>0, <2>1 DEF RunsNow
  <2>4. PICK j \in DOMAIN queue' : queue'[j].item = x /\ queue'[j].id < e.id
    BY <2>3 DEF Overtaken
  <2>5. PICK l \in 1 .. Len(queue) : queue'[j] = queue[l]
    <3>1. /\ queue' \in Seq(Entry) /\ Len(queue') = Len(queue) - 1
          /\ \A k \in 1 .. Len(queue) - 1 : queue'[k] = IF k < p THEN queue[k] ELSE queue[k + 1]
      BY <1>0, <2>1, <2>2, RemoveAtProperties
    <3>2. j \in 1 .. Len(queue) - 1
      BY <3>1, LenProperties
    <3>3. \A k \in 1 .. Len(queue) - 1 : k \in 1 .. Len(queue) /\ k + 1 \in 1 .. Len(queue)
      BY <2>2
    <3> QED BY <3>1, <3>2, <3>3
  <2>6. Place \in 1 .. Len(queue) /\ e = queue[Place]
    BY <2>2
  <2>7. MayRun(queue[Place].item, TRUE) /\ queue[l].item = queue[Place].item /\ queue[l].id < queue[Place].id
    BY <2>1, <2>3, <2>4, <2>5, <2>6
  <2> QED BY <1>0, <2>1, <2>6, <2>7, ScanRunsFirst DEF Followed
<1>4. CASE Dispatching /\ ~TakeAst /\ ~Enter /\ ~ScanRuns
  <2>1. CASE CheckPoint \/ TakeCheck \/ RingEmpty \/ ThenQueue \/ AstpReturns \/ SigReturns \/ AddAst
    BY <1>0, <2>1 DEF CheckPoint, TakeCheck, RingEmpty, ThenQueue, AstpReturns, SigReturns, AddAst
  <2>2. CASE ScanEnds \/ ScanSkips \/ RaiseSyncEnds \/ MishapEnds \/ CallbackReturns
    BY <1>0, <2>2 DEF ScanEnds, ScanSkips, RaiseSyncEnds, MishapEnds, CallbackReturns
  <2>3. CASE ClearInMishap \/ ClearAndUnwind \/ ClearAndReset \/ ClearAndRestart
    BY <1>0, <2>3 DEF ClearInMishap, ClearAndUnwind, ClearAndReset, ClearAndRestart, ClearEntries
  <2> QED BY <1>4, <2>1, <2>2, <2>3 DEF Dispatching
<1>5. CASE UserSteps /\ ~\E y \in Item : RaiseSync(y)
  <2>1. CASE \E s \in Sig, v \in BOOLEAN : SetSigFlag(s, v)
    BY <1>0, <2>1 DEF SetSigFlag
  <2>2. CASE \E v \in BOOLEAN : SetAstsEnabled(v)
    BY <1>0, <2>2 DEF SetAstsEnabled
  <2>3. CASE ClearQueue \/ ExitHandler \/ CallExtern
    BY <1>0, <2>3 DEF ClearQueue, ExitHandler, CallExtern
  <2>4. CASE RaiseMishap \/ Setpop
    BY <1>0, <2>4 DEF RaiseMishap, Setpop, Clear
  <2> QED BY <1>5, <2>1, <2>2, <2>3, <2>4 DEF UserSteps
<1>6. CASE \E y \in Item : Event(y)
  BY <1>0, <1>6 DEF Event
<1>7. CASE UNCHANGED vars
  BY <1>0, <1>7 DEF vars
<1> QED BY <1>1, <1>2, <1>3, <1>4, <1>5, <1>6, <1>7 DEF Next

(* When the dispatch is over and no trap is pending, every ast left on      *)
(* Sys_ast_queue is one that some condition still blocks: no return from a  *)
(* handler, a scan, a mishap or setpop has forgotten one.                   *)
THEOREM NothingIsParked == Tame => (Spec => []NothingParked)
<1> SUFFICES ASSUME Tame
             PROVE  Spec => []NothingParked
  OBVIOUS
<1>1. Init => DispatchInv /\ FollowInv
  BY InitDispatch, InitFollow
<1>2. DispatchInv /\ FollowInv /\ [Next]_vars => DispatchInv' /\ FollowInv'
  BY DispatchNext, FollowNext
<1>3. DispatchInv /\ FollowInv => NothingParked
  BY InvParksNothing
<1> QED BY <1>1, <1>2, <1>3, PTL DEF Spec

(* Raise_astp and Do_ast_queue handle the raises of an ast in the order in  *)
(* which they were made, except that one queued in an external call may be  *)
(* overtaken until the AST_QUEUE_CHECK that the call leaves is found.       *)
THEOREM RunInOrder == Tame => (Spec => InOrder)
<1> SUFFICES ASSUME Tame
             PROVE  Spec => InOrder
  OBVIOUS
<1>1. Init => DispatchInv /\ FollowInv
  BY InitDispatch, InitFollow
<1>2. DispatchInv /\ FollowInv /\ [Next]_vars => DispatchInv' /\ FollowInv'
  BY DispatchNext, FollowNext
<1>3. DispatchInv /\ FollowInv /\ [Next]_vars
         => [\A x \in Item : Overtaken(x) => Called(x)]_vars
  BY StepsInOrder
<1> QED BY <1>1, <1>2, <1>3, PTL DEF Spec, InOrder

-----------------------------------------------------------------------------
(* The ring. *)

(* Advance stays among the slots, and moves. *)
LEMMA AdvanceType ==
    ASSUME NEW p \in Slots
    PROVE  /\ Advance(p) \in Slots
           /\ Advance(p) # p
  BY RingAssumption DEF Slots, Advance

(* The slot of every waiting ast is one of the ring's, and not the slot    *)
(* that the next ast goes into.                                            *)
LEMMA SlotOfType ==
    ASSUME astq_add \in Slots, astq_rem \in Slots,
           NEW i \in 1 .. Count
    PROVE  /\ SlotOf(i) \in Slots
           /\ SlotOf(i) # astq_add
           /\ Count \in 0 .. QLEN - 1
  BY RingAssumption DEF Slots, Count, SlotOf

(* The number of waiting asts is between none and one less than the slots. *)
LEMMA CountType ==
    ASSUME astq_add \in Slots, astq_rem \in Slots
    PROVE  /\ Count \in 0 .. QLEN - 1
           /\ Count = 0 <=> astq_rem = astq_add
  BY RingAssumption DEF Slots, Count

(* An addition lengthens the queue by one unless it was full, in which     *)
(* case every waiting ast moves up one place and the oldest is gone.       *)
LEMMA AddShape ==
    ASSUME RingTypeOK, NEW a \in Ast, PopAddAst(a)
    PROVE  /\ Count < QLEN - 1 =>
                /\ Count' = Count + 1
                /\ \A i \in 1 .. Count : SlotOf(i)' = SlotOf(i)
                /\ \A i \in Nat : i = Count + 1 => SlotOf(i)' = astq_add
           /\ Count = QLEN - 1 =>
                /\ Count' = Count
                /\ \A i \in 1 .. Count - 1 : SlotOf(i)' = SlotOf(i + 1)
                /\ \A i \in Nat : i = Count => SlotOf(i)' = astq_add
<1>1. /\ astq_add' = Advance(astq_add)
      /\ astq_rem' = IF astq_add' = astq_rem THEN Advance(astq_rem) ELSE astq_rem
  BY DEF PopAddAst
<1>2. astq_add \in 0 .. QLEN - 1 /\ astq_rem \in 0 .. QLEN - 1
  BY DEF RingTypeOK, Slots
<1>2a. Count \in 0 .. QLEN - 1
  BY CountType DEF RingTypeOK
<1>3. CASE Count < QLEN - 1
  <2>1. Advance(astq_add) # astq_rem
    BY <1>2, <1>3, RingAssumption DEF Advance, Count
  <2>2. astq_rem' = astq_rem
    BY <1>1, <2>1
  <2>3. Count' = Count + 1
    BY <1>1, <1>2, <1>3, <2>1, <2>2, RingAssumption DEF Advance, Count
  <2>4. \A i \in 1 .. Count : SlotOf(i)' = SlotOf(i)
    BY <2>2 DEF SlotOf
  <2>5. \A i \in Nat : i = Count + 1 => SlotOf(i)' = astq_add
    BY <1>1, <1>2, <1>3, <2>2, RingAssumption DEF Count, SlotOf
  <2> QED
    <3>1. Count # QLEN - 1
      BY <1>3, <1>2a, RingAssumption
    <3> QED
      BY <1>3, <2>3, <2>4, <2>5, <3>1
<1>4. CASE Count = QLEN - 1
  <2>1. Advance(astq_add) = astq_rem
    BY <1>2, <1>4, RingAssumption DEF Advance, Count
  <2>2. astq_rem' = Advance(astq_rem)
    BY <1>1, <2>1
  <2> QED
    BY <1>1, <1>2, <1>4, <2>1, <2>2, RingAssumption DEF Advance, Count, SlotOf
<1> QED
  BY <1>3, <1>4, <1>2a, RingAssumption

(* A removal moves every waiting ast up one place. *)
LEMMA RemShape ==
    ASSUME RingTypeOK, PopRemAst
    PROVE  /\ Count > 0
           /\ Count' = Count - 1
           /\ \A i \in 1 .. Count - 1 : SlotOf(i)' = SlotOf(i + 1)
<1>1. /\ astq_rem # astq_add
      /\ astq_add' = astq_add
      /\ astq_rem' = Advance(astq_rem)
  BY DEF PopRemAst
<1>2. astq_add \in 0 .. QLEN - 1 /\ astq_rem \in 0 .. QLEN - 1
  BY DEF RingTypeOK, Slots
<1> QED
  BY <1>1, <1>2, RingAssumption DEF Advance, Count, SlotOf

-----------------------------------------------------------------------------
(* The variables stay within what the C declarations allow, and a waiting  *)
(* slot always holds an ast some handler added (c_core.c:2356-2396).       *)
THEOREM TypeCorrect == RingSpec => []RingTypeOK
<1>1. RingInit => RingTypeOK
  <2> SUFFICES ASSUME RingInit PROVE RingTypeOK
    OBVIOUS
  <2>1. 0 \in Slots /\ astq_add = 0 /\ astq_rem = 0
    BY RingAssumption DEF RingInit, Slots
  <2>2. \A i \in 1 .. Count : FALSE
    BY <2>1 DEF Count
  <2> QED
    BY <2>1, <2>2 DEF RingInit, RingTypeOK
<1>2. RingTypeOK /\ [RingNext]_ringvars => RingTypeOK'
  <2> SUFFICES ASSUME RingTypeOK, [RingNext]_ringvars PROVE RingTypeOK'
    OBVIOUS
  <2>1. ASSUME NEW a \in Ast, PopAddAst(a) PROVE RingTypeOK'
    <3>1. /\ astq' \in [Slots -> Ast \cup {NoAst}]
          /\ astq_add' \in Slots
          /\ astq_rem' \in Slots
          /\ signals_pending' \in BOOLEAN
      BY <2>1, AdvanceType DEF RingTypeOK, PopAddAst
    <3>2. ASSUME NEW s \in Slots PROVE astq'[s] = IF s = astq_add THEN a ELSE astq[s]
      BY <2>1 DEF RingTypeOK, PopAddAst
    <3>3. Count \in 0 .. QLEN - 1
      BY CountType DEF RingTypeOK
    <3>4. ASSUME NEW i \in 1 .. Count' PROVE (astq[SlotOf(i)])' \in Ast
      <4>1. CASE Count < QLEN - 1
        <5>1. CASE i \in 1 .. Count
          <6>1. SlotOf(i)' = SlotOf(i)
            BY <2>1, <4>1, <5>1, AddShape
          <6>2. SlotOf(i) \in Slots /\ SlotOf(i) # astq_add
            BY <5>1, SlotOfType DEF RingTypeOK
          <6> QED
            BY <6>1, <6>2, <3>2, <5>1 DEF RingTypeOK
        <5>2. CASE i = Count + 1
          <6>1. SlotOf(i)' = astq_add
            BY <2>1, <4>1, <5>2, AddShape
          <6> QED
            BY <6>1, <3>2 DEF RingTypeOK
        <5> QED
          BY <2>1, <3>3, <3>4, <4>1, <5>1, <5>2, AddShape
      <4>2. CASE Count = QLEN - 1
        <5>1. CASE i \in 1 .. Count - 1
          <6>1. SlotOf(i)' = SlotOf(i + 1) /\ i + 1 \in 1 .. Count
            BY <2>1, <3>3, <4>2, <5>1, AddShape
          <6>2. SlotOf(i + 1) \in Slots /\ SlotOf(i + 1) # astq_add
            BY <6>1, SlotOfType DEF RingTypeOK
          <6> QED
            BY <6>1, <6>2, <3>2 DEF RingTypeOK
        <5>2. CASE i = Count
          <6>1. SlotOf(i)' = astq_add
            BY <2>1, <4>2, <5>2, AddShape
          <6> QED
            BY <6>1, <3>2 DEF RingTypeOK
        <5> QED
          BY <2>1, <3>3, <3>4, <4>2, <5>1, <5>2, AddShape
      <4> QED
        BY <3>3, <4>1, <4>2, RingAssumption
    <3> QED
      BY <3>1, <3>4 DEF RingTypeOK
  <2>2. CASE PopRemAst
    <3>1. /\ astq' = astq
          /\ astq_add' \in Slots
          /\ astq_rem' \in Slots
          /\ signals_pending' \in BOOLEAN
      BY <2>2, AdvanceType DEF RingTypeOK, PopRemAst
    <3>2. ASSUME NEW i \in 1 .. Count' PROVE (astq[SlotOf(i)])' \in Ast
      <4>1. Count \in 0 .. QLEN - 1
        BY CountType DEF RingTypeOK
      <4>2. SlotOf(i)' = SlotOf(i + 1) /\ i + 1 \in 1 .. Count
        BY <2>2, <3>2, <4>1, RemShape
      <4> QED
        BY <3>1, <4>2 DEF RingTypeOK
    <3> QED
      BY <3>1, <3>2 DEF RingTypeOK
  <2>3. CASE PopRemEmpty
    BY <2>3 DEF PopRemEmpty, RingTypeOK, Count, SlotOf
  <2>4. CASE UNCHANGED ringvars
    BY <2>4 DEF ringvars, RingTypeOK, Count, SlotOf
  <2> QED
    BY <2>1, <2>2, <2>3, <2>4 DEF RingNext
<1> QED
  BY <1>1, <1>2, PTL DEF RingSpec

(* No waiting ast is ever unannounced, whatever the size of the ring and   *)
(* however the handlers and the check points interleave: the flag Pop      *)
(* tests at its check points is raised while the ring holds anything.      *)
THEOREM Announced == RingSpec => []PendingAnnounced
<1>1. RingInit => PendingAnnounced
  BY DEF RingInit, PendingAnnounced
<1>2. PendingAnnounced /\ [RingNext]_ringvars => PendingAnnounced'
  BY DEF PendingAnnounced, RingNext, PopAddAst, PopRemAst, PopRemEmpty, ringvars
<1> QED
  BY <1>1, <1>2, PTL DEF RingSpec

-----------------------------------------------------------------------------
(* The waiting asts, as the sequence the abstract queue holds. *)
LEMMA WaitingSeq ==
    ASSUME RingTypeOK
    PROVE  /\ Waiting \in Seq(Ast)
           /\ Len(Waiting) = Count
           /\ \A i \in 1 .. Count : Waiting[i] = astq[SlotOf(i)]
<1>1. Count \in Nat
  BY CountType DEF RingTypeOK
<1>2. Waiting \in [1 .. Count -> Ast]
  BY DEF Waiting, RingTypeOK
<1>3. \A n \in Nat : \A f \in [1 .. n -> Ast] : f \in Seq(Ast) /\ Len(f) = n
  BY SMT
<1> QED
  BY <1>1, <1>2, <1>3 DEF Waiting

(* The same of the next state. *)
LEMMA WaitingSeqNext ==
    ASSUME RingTypeOK'
    PROVE  /\ Waiting' \in Seq(Ast)
           /\ Len(Waiting') = Count'
           /\ \A i \in 1 .. Count' : Waiting'[i] = astq'[SlotOf(i)']
           /\ Count' \in 0 .. QLEN - 1
<1>1. Count' \in 0 .. QLEN - 1
  <2>1. astq_add' \in Slots /\ astq_rem' \in Slots
    BY DEF RingTypeOK
  <2>2. \A a, r \in Slots :
           (IF r <= a THEN a - r ELSE a - r + QLEN) \in 0 .. QLEN - 1
    BY RingAssumption DEF Slots
  <2> QED
    BY <2>1, <2>2 DEF Count
<1>2. Waiting' \in [1 .. Count' -> Ast]
  BY DEF Waiting, RingTypeOK
<1>3. \A n \in Nat : \A f \in [1 .. n -> Ast] : f \in Seq(Ast) /\ Len(f) = n
  BY SMT
<1> QED
  BY <1>1, <1>2, <1>3 DEF Waiting

(* _pop_add_ast is an arrival at the abstract queue: an append, after the  *)
(* oldest ast has gone if the ring was full. *)
LEMMA AddRefines ==
    ASSUME RingTypeOK, RingTypeOK', NEW a \in Ast, PopAddAst(a)
    PROVE  Fifo!Arrive(a)
<1> DEFINE kept == IF Len(Waiting) = QLEN - 1 THEN Tail(Waiting) ELSE Waiting
<1>1. /\ Waiting \in Seq(Ast)
      /\ Len(Waiting) = Count
      /\ \A i \in 1 .. Count : Waiting[i] = astq[SlotOf(i)]
      /\ Count \in 0 .. QLEN - 1
  BY WaitingSeq, CountType DEF RingTypeOK
<1>2. /\ Waiting' \in Seq(Ast)
      /\ Len(Waiting') = Count'
      /\ \A i \in 1 .. Count' : Waiting'[i] = astq'[SlotOf(i)']
      /\ Count' \in 0 .. QLEN - 1
  BY WaitingSeqNext
<1>3. \A s \in Slots : astq'[s] = IF s = astq_add THEN a ELSE astq[s]
  BY DEF RingTypeOK, PopAddAst
<1>4. \A i \in 1 .. Count : SlotOf(i) \in Slots /\ SlotOf(i) # astq_add
  BY SlotOfType DEF RingTypeOK
<1>5. astq_add \in Slots
  BY DEF RingTypeOK
<1>6. Waiting' = Append(kept, a)
  <2>1. CASE Count < QLEN - 1
    <3>1. kept = Waiting
      BY <1>1, <2>1, RingAssumption
    <3>2. /\ Count' = Count + 1
          /\ \A i \in 1 .. Count : SlotOf(i)' = SlotOf(i)
          /\ \A i \in Nat : i = Count + 1 => SlotOf(i)' = astq_add
      BY <2>1, AddShape
    <3>3. \A i \in 1 .. Count : Waiting'[i] = Waiting[i]
      BY <1>1, <1>2, <1>3, <1>4, <3>2
    <3>4. \A i \in Nat : i = Count + 1 => Waiting'[i] = a
      BY <1>1, <1>2, <1>3, <1>5, <3>2
    <3> QED
      <4>1. /\ Append(Waiting, a) \in Seq(Ast)
            /\ Len(Append(Waiting, a)) = Count + 1
            /\ \A i \in 1 .. Count : Append(Waiting, a)[i] = Waiting[i]
            /\ \A i \in Nat : i = Count + 1 => Append(Waiting, a)[i] = a
        BY <1>1, AppendProperties
      <4>2. \A i \in 1 .. Count + 1 : Waiting'[i] = Append(Waiting, a)[i]
        BY <1>1, <3>3, <3>4, <4>1
      <4> HIDE DEF kept
      <4> QED
        BY <1>2, <3>1, <3>2, <4>1, <4>2, SeqEqual
  <2>2. CASE Count = QLEN - 1
    <3>1. kept = Tail(Waiting)
      BY <1>1, <2>2
    <3>2. /\ Count' = Count
          /\ \A i \in 1 .. Count - 1 : SlotOf(i)' = SlotOf(i + 1)
          /\ \A i \in Nat : i = Count => SlotOf(i)' = astq_add
      BY <2>2, AddShape
    <3>3. \A i \in 1 .. Count - 1 : Waiting'[i] = Waiting[i + 1]
      <4> SUFFICES ASSUME NEW i \in 1 .. Count - 1
                   PROVE  Waiting'[i] = Waiting[i + 1]
        OBVIOUS
      <4>1. i + 1 \in 1 .. Count /\ i \in 1 .. Count
        BY <1>1
      <4> QED
        BY <4>1, <1>1, <1>2, <1>3, <1>4, <3>2
    <3>4. \A i \in Nat : i = Count => Waiting'[i] = a
      BY <1>1, <1>2, <1>3, <1>5, <2>2, <3>2, RingAssumption
    <3> QED
      <4>0. Waiting # <<>>
        BY <1>1, <2>2, RingAssumption
      <4>1. /\ Tail(Waiting) \in Seq(Ast)
            /\ Len(Tail(Waiting)) = Count - 1
            /\ \A i \in 1 .. Count - 1 : Tail(Waiting)[i] = Waiting[i + 1]
        BY <1>1, <4>0, HeadTailProperties
      <4>2. /\ Append(Tail(Waiting), a) \in Seq(Ast)
            /\ Len(Append(Tail(Waiting), a)) = Count
            /\ \A i \in 1 .. Count - 1 :
                   Append(Tail(Waiting), a)[i] = Tail(Waiting)[i]
            /\ \A i \in Nat : i = Count => Append(Tail(Waiting), a)[i] = a
        BY <1>1, <4>1, AppendProperties
      <4>3. \A i \in 1 .. Count : Waiting'[i] = Append(Tail(Waiting), a)[i]
        BY <1>1, <3>3, <3>4, <4>1, <4>2
      <4> HIDE DEF kept
      <4> QED
        BY <1>2, <3>1, <3>2, <4>2, <4>3, SeqEqual
  <2> QED
    BY <1>1, <2>1, <2>2, RingAssumption
<1> QED
  BY <1>6 DEF Fifo!Arrive, PopAddAst

(* _pop_rem_ast, returning 1, takes the head of the abstract queue. *)
LEMMA RemRefines ==
    ASSUME RingTypeOK, RingTypeOK', PopRemAst
    PROVE  Fifo!Take
<1>1. /\ Waiting \in Seq(Ast)
      /\ Len(Waiting) = Count
      /\ \A i \in 1 .. Count : Waiting[i] = astq[SlotOf(i)]
      /\ Count \in 0 .. QLEN - 1
  BY WaitingSeq, CountType DEF RingTypeOK
<1>2. /\ Waiting' \in Seq(Ast)
      /\ Len(Waiting') = Count'
      /\ \A i \in 1 .. Count' : Waiting'[i] = astq'[SlotOf(i)']
  BY WaitingSeqNext
<1>3. /\ Count > 0
      /\ Count' = Count - 1
      /\ \A i \in 1 .. Count - 1 : SlotOf(i)' = SlotOf(i + 1)
  BY RemShape
<1>4. Waiting # <<>>
  BY <1>1, <1>3
<1>5. /\ Tail(Waiting) \in Seq(Ast)
      /\ Len(Tail(Waiting)) = Count - 1
      /\ \A i \in 1 .. Count - 1 : Tail(Waiting)[i] = Waiting[i + 1]
  BY <1>1, <1>4, HeadTailProperties
<1>6. \A i \in 1 .. Count - 1 : Waiting'[i] = Tail(Waiting)[i]
  <2> SUFFICES ASSUME NEW i \in 1 .. Count - 1
               PROVE  Waiting'[i] = Tail(Waiting)[i]
    OBVIOUS
  <2>1. i + 1 \in 1 .. Count
    BY <1>1
  <2> QED
    BY <2>1, <1>1, <1>2, <1>3, <1>5 DEF PopRemAst
<1>7. Waiting' = Tail(Waiting)
  BY <1>1, <1>2, <1>3, <1>5, <1>6, SeqEqual
<1> QED
  BY <1>4, <1>7 DEF Fifo!Take, PopRemAst

(* The ring is the bounded first-in first-out queue of AstFifo for every   *)
(* size of ring: _pop_rem_ast hands over the asts in the order in which    *)
(* _pop_add_ast took them, and only an addition to a full ring loses one.  *)
THEOREM RingImplementsFifo == RingSpec => ImplementsFifo
<1>1. RingInit => Fifo!Init
  <2> SUFFICES ASSUME RingInit PROVE Fifo!Init
    OBVIOUS
  <2>1. Count = 0
    BY DEF RingInit, Count
  <2>2. Waiting = <<>>
    BY <2>1 DEF Waiting
  <2> QED
    BY <2>2 DEF RingInit, Fifo!Init
<1>2. RingTypeOK /\ RingTypeOK' /\ [RingNext]_ringvars => [Fifo!Next]_Fifo!vars
  <2> SUFFICES ASSUME RingTypeOK, RingTypeOK', [RingNext]_ringvars
               PROVE  [Fifo!Next]_Fifo!vars
    OBVIOUS
  <2>1. ASSUME NEW a \in Ast, PopAddAst(a) PROVE Fifo!Next
    BY <2>1, AddRefines DEF Fifo!Next
  <2>2. CASE PopRemAst
    BY <2>2, RemRefines DEF Fifo!Next
  <2>3. CASE PopRemEmpty
    <3>1. Count = 0 /\ Waiting' = Waiting
      BY <2>3 DEF PopRemEmpty, Waiting, Count, SlotOf, RingTypeOK, Slots
    <3>2. Waiting = <<>>
      BY <3>1 DEF Waiting
    <3> QED
      BY <2>3, <3>1, <3>2 DEF PopRemEmpty, Fifo!Next, Fifo!FindEmpty
  <2>4. CASE UNCHANGED ringvars
    BY <2>4 DEF ringvars, Fifo!vars, Waiting, Count, SlotOf
  <2> QED
    BY <2>1, <2>2, <2>3, <2>4 DEF RingNext
<1> QED
  BY <1>1, <1>2, TypeCorrect, PTL DEF RingSpec, ImplementsFifo, Fifo!Spec
=============================================================================
