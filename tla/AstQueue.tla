------------------------------ MODULE AstQueue ------------------------------
(***************************************************************************)
(* The dispatch of asynchronous traps in signals.p.  Pop takes asts from   *)
(* the ring at its check points (Async_raise_signal), runs the handlers    *)
(* that nothing blocks, queues the others on Sys_ast_queue, and scans that *)
(* queue (Do_ast_queue) when something may have become unblocked.  Every   *)
(* handler is user code with check points of its own, so the procedures    *)
(* of the dispatch nest: `stack' holds their activations, innermost last.  *)
(***************************************************************************)
EXTENDS Naturals, Sequences, SequencesExt, FiniteSets

CONSTANTS
    Astp,           \* ast procedures
    Recursive,      \* those with ASTP_BLOCK_RECURSIVE
    Never,          \* those with ASTP_BLOCK_NEVER
    ErrorDelete,    \* those with ASTP_ERROR_DELETE
    External,       \* those with ASTP_BLOCK_IN_EXTERNAL
    Sig,            \* signals, each with sys_signal_flag initially true
    MainOps,        \* what the main program does of
    HandlerOps,     \* ... and what handlers do of AllOps
    GcInDispatch,   \* may the pairs Raise_astp and Add allocate cause a
                    \* collection, and so a check point
    MaxRaise,       \* bound: asts raised
    MaxOp           \* bound: changes of flags by user code

AllOps == {"raise", "enable", "disable", "asts", "clear", "exit",
           "mishap", "setpop", "callback"}

(* The ast AST_QUEUE_CHECK, which stands for no handler. *)
QueueCheck == "AST_QUEUE_CHECK"

ASSUME AstQueueAssumption ==
    /\ Recursive \subseteq Astp /\ Never \subseteq Astp
    /\ ErrorDelete \subseteq Astp /\ External \subseteq Astp
    /\ QueueCheck \notin Astp \cup Sig
    /\ Astp \cap Sig = {}
    /\ MainOps \subseteq AllOps /\ HandlerOps \subseteq AllOps
    /\ GcInDispatch \in BOOLEAN
    /\ MaxRaise \in Nat /\ MaxOp \in Nat

VARIABLES
    ring,           \* the ring of c_core.c
    trap,           \* _trap, the flag a check point tests
    queue,          \* the entries reached from the head of Sys_ast_queue
    queue_end,      \* the entry Sys_ast_queue_end points to; 0: the head
    ignore,         \* _ignore_ast_queue: no entry needs looking at
    queue_flags,    \* _ast_queue_flags: what has blocked an ast since it was cleared
    asts_enabled,   \* _asts_enabled
    disable,        \* the _DISABLE_INTERRUPTS bit of _disable
    sig_flag,       \* Sys_signal_flags: may the signal be handled
    stack,          \* activations of the dispatch and of handlers
    raised,         \* how many asts there have been
    seen,           \* how many Pop has dealt with; numbers them
    ops,            \* how many flag changes user code has made
    last_run,       \* the number of the latest run of each ast
    cleared         \* the numbers of the asts `[] -> pop_ast_queue' cleared

vars == <<ring, trap, queue, queue_end, ignore, queue_flags, asts_enabled,
          disable, sig_flag, stack, raised, seen, ops, last_run, cleared>>

Item == Astp \cup Sig

(* An ast, and the number it got when Pop first dealt with it. *)
Entry == [item : Item, id : 1 .. MaxRaise]

(* The ring, as its specification promises it. *)
Ring == INSTANCE AstFifo WITH
            Cap <- MaxRaise + 3 * MaxOp, Ast <- Item \cup {QueueCheck},
            fifo <- ring, announced <- trap

pending  == <<ring, trap>>
pairs    == <<queue, queue_end>>
switches == <<asts_enabled, disable, sig_flag>>
counts   == <<raised, seen, ops, cleared>>

Init ==
    /\ ring = <<>>
    /\ trap = FALSE
    /\ queue = <<>>
    /\ queue_end = 0
    /\ ignore = TRUE
    /\ queue_flags = {}
    /\ asts_enabled = TRUE
    /\ disable = FALSE
    /\ sig_flag = [s \in Sig |-> TRUE]
    /\ stack = <<>>
    /\ raised = 0
    /\ seen = 0
    /\ ops = 0
    /\ last_run = [x \in Item |-> 0]
    /\ cleared = {}

-----------------------------------------------------------------------------
(* Activations. *)

Async      == [fn |-> "Async_raise_signal", pc |-> "loop"]
Scan(a)    == [fn |-> "Do_ast_queue", pc |-> "check", async |-> a, lptr |-> 0]
Sync       == [fn |-> "sys_raise_ast", pc |-> "check"]
Callback   == [fn |-> "callback"]
Mishap     == [fn |-> "mishap", pc |-> "check"]
Adding(e)  == [fn |-> "Add", entry |-> e]

(* Clear_ast_queue(false), with what happens when it returns, and the      *)
(* value of _asts_enabled that it restores. *)
Clearing(then, enabled) ==
    [fn |-> "Clear_ast_queue", then |-> then, enabled |-> enabled]

(* Raise_astp on its way to the handler, and the handler itself. *)
Entering(e) == [fn |-> "Raise_astp", entry |-> e]
Handler(e)  == [fn |-> "handler", entry |-> e]

Depth == Len(stack)
Top   == stack[Depth]
In(f) == stack # <<>> /\ Top.fn = f

Popped   == Front(stack)
Goto(pc) == [stack EXCEPT ![Depth].pc = pc]

UserCode == stack = <<>> \/ In("handler") \/ In("callback")

(* ast_executing_list, which each handler's activation localises. *)
Executing ==
    {stack[i].entry.item : i \in {j \in 1 .. Depth : stack[j].fn = "handler"}}

-----------------------------------------------------------------------------
(* Blocking. *)

(* A bug a maintainer could introduce: only the innermost handler looked at. *)
InnermostBlocks(p) ==
    LET hs == {j \in 1 .. Depth : stack[j].fn = "handler"}
    IN  /\ p \in Recursive /\ hs # {}
        /\ stack[CHOOSE j \in hs : \A k \in hs : k <= j].entry.item = p

RecursionBlocks(p) == p \in Recursive /\ p \in Executing

(* _call_stack_seg_hi /== _call_stack_hi *)
InCallback == \E i \in 1 .. Depth : stack[i] = Callback

CallbackBlocks(p) == p \in External /\ InCallback

(* The condition of the ast itself, whatever the global switches say. *)
Blocked(x) ==
    IF x \in Sig THEN ~sig_flag[x] ELSE CallbackBlocks(x) \/ RecursionBlocks(x)

(* Raise_astp and Raise_sig run the handler at once; `queued' when called  *)
(* with a place on the queue. *)
MayRun(x, queued) ==
    \/ x \in Never
    \/ /\ asts_enabled
       /\ queued \/ ignore
       /\ ~Blocked(x)

(* What Raise_astp notes in _ast_queue_flags when it leaves x blocked. *)
Noted(x, queued) ==
    IF x \in Never \cup Sig \/ ~asts_enabled \/ ~(queued \/ ignore) THEN {}
    ELSE IF CallbackBlocks(x) THEN {"QC_CALLBACK"}
    ELSE IF RecursionBlocks(x) THEN {"QC_RECURSIVE"}
    ELSE {}

(* The activations after st with which e's handler starts. *)
Raise(st, e) ==
    Append(st, IF e.item \in Sig THEN Handler(e) ELSE Entering(e))

(* A signal blocks itself while its handler runs. *)
RaiseFlags(e) ==
    IF e.item \in Sig THEN [sig_flag EXCEPT ![e.item] = FALSE] ELSE sig_flag

RunsNow(e) == IF e.item \in Sig THEN [last_run EXCEPT ![e.item] = e.id] ELSE last_run

(* An ast just raised: run, or on its way to the queue. *)
Dispatch(x, st) ==
    LET e == [item |-> x, id |-> seen + 1]
    IN  /\ seen' = seen + 1
        /\ \/ /\ MayRun(x, FALSE)
              /\ stack' = Raise(st, e)
              /\ sig_flag' = RaiseFlags(e)
              /\ last_run' = RunsNow(e)
              /\ UNCHANGED queue_flags
           \/ /\ ~MayRun(x, FALSE)
              /\ stack' = Append(st, Adding(e))
              /\ queue_flags' = queue_flags \cup Noted(x, FALSE)
              /\ UNCHANGED <<sig_flag, last_run>>

(* Do_ast_queue(a) called with st the activations below it: it returns at  *)
(* once while asts are disabled. *)
CallScan(st, a, enabled) ==
    /\ stack' = IF enabled THEN Append(st, Scan(a)) ELSE st
    /\ queue_flags' = IF enabled THEN {} ELSE queue_flags

-----------------------------------------------------------------------------
(* Bugs a maintainer could introduce, each of which some property catches. *)

(* The new pair linked in after the head of the queue. *)
AddAstFirst ==
    /\ In("Add")
    /\ queue' = <<Top.entry>> \o queue
    /\ queue_end' = IF queue = <<>> THEN Top.entry.id ELSE queue_end
    /\ stack' = Popped
    /\ UNCHANGED <<pending, ignore, queue_flags, switches, counts, last_run>>

(* A non-local exit that restores only the innermost signal handler. *)
ExitHandlerInnermost ==
    /\ stack # <<>> /\ In("handler")
    /\ "exit" \in HandlerOps
    /\ sig_flag' = [s \in Sig |-> sig_flag[s] \/ s = Top.entry.item]
    /\ ignore' = (ignore /\ Top.entry.item \notin Sig)
    /\ stack' = <<>>
    /\ UNCHANGED <<pending, pairs, queue_flags, asts_enabled, disable, counts, last_run>>

-----------------------------------------------------------------------------
(* Events, and the check points that see them. *)

(* A C handler puts an ast in the ring. *)
Event(x) ==
    /\ raised < MaxRaise
    /\ raised' = raised + 1
    /\ Ring!Arrive(x)
    /\ UNCHANGED <<pairs, ignore, queue_flags, switches, stack, seen, ops,
                   last_run, cleared>>

(* Procedures of the dispatch that check on the way. *)
CheckInDispatch ==
    \/ (In("sys_raise_ast") \/ In("mishap")) /\ Top.pc = "check"
    \/ In("Do_ast_queue") /\ Top.pc = "check" /\ ~Top.async
    \/ GcInDispatch /\ (In("Add") \/ In("Raise_astp"))

CheckPoint ==
    /\ trap /\ ~disable
    /\ \/ UserCode /\ stack' = Append(stack, Async)
       \/ /\ CheckInDispatch
          /\ stack' = Append(IF "pc" \in DOMAIN Top THEN Goto("checked") ELSE stack, Async)
    /\ UNCHANGED <<pending, pairs, ignore, queue_flags, switches, counts, last_run>>

(* Past the check: it found nothing to do, or has been made. *)
Checked == Top.pc = "checked" \/ ~trap \/ disable

-----------------------------------------------------------------------------
(* Async_raise_signal. *)

TakeAst ==
    /\ In("Async_raise_signal") /\ Top.pc = "loop"
    /\ Ring!Take /\ Head(ring) # QueueCheck
    /\ Dispatch(Head(ring), Goto("handled"))
    /\ UNCHANGED <<pairs, ignore, asts_enabled, disable, raised, ops, cleared>>

(* AST_QUEUE_CHECK: the queue is to be looked at. *)
TakeCheck ==
    /\ In("Async_raise_signal") /\ Top.pc = "loop"
    /\ Ring!Take /\ Head(ring) = QueueCheck
    /\ ignore' = FALSE
    /\ stack' = Goto("handled")
    /\ UNCHANGED <<pairs, queue_flags, switches, counts, last_run>>

RingEmpty ==
    /\ In("Async_raise_signal") /\ Top.pc = "loop"
    /\ Ring!FindEmpty
    /\ stack' = Popped
    /\ UNCHANGED <<pairs, ignore, queue_flags, switches, counts, last_run>>

ThenQueue ==
    /\ In("Async_raise_signal") /\ Top.pc = "handled"
    /\ IF ignore
       THEN stack' = Goto("loop") /\ UNCHANGED queue_flags
       ELSE CallScan(Goto("loop"), TRUE, asts_enabled)
    /\ UNCHANGED <<pending, pairs, ignore, switches, counts, last_run>>

-----------------------------------------------------------------------------
(* Raise_astp and Raise_sig. *)

(* The ast is on the executing list: its procedure starts. *)
Enter ==
    /\ In("Raise_astp")
    /\ stack' = Append(Popped, Handler(Top.entry))
    /\ last_run' = [last_run EXCEPT ![Top.entry.item] = Top.entry.id]
    /\ UNCHANGED <<pending, pairs, ignore, queue_flags, switches, counts>>

(* The procedure returns: an ast it blocked, or the signal, may now run. *)
AstpReturns ==
    /\ In("handler") /\ Top.entry.item \in Astp
    /\ ignore' = (ignore /\ "QC_RECURSIVE" \notin queue_flags)
    /\ stack' = Popped
    /\ UNCHANGED <<pending, pairs, queue_flags, switches, counts, last_run>>

SigReturns ==
    /\ In("handler") /\ Top.entry.item \in Sig
    /\ sig_flag' = [sig_flag EXCEPT ![Top.entry.item] = TRUE]
    /\ ignore' = FALSE
    /\ stack' = Popped
    /\ UNCHANGED <<pending, pairs, queue_flags, asts_enabled, disable, counts, last_run>>

(* Add puts the ast after the pair Sys_ast_queue_end points to. *)
Position(id) == CHOOSE i \in DOMAIN queue : queue[i].id = id

UpTo(id) == IF id = 0 THEN <<>> ELSE SubSeq(queue, 1, Position(id))

AddAst ==
    /\ In("Add")
    /\ queue' = Append(UpTo(queue_end), Top.entry)
    /\ queue_end' = Top.entry.id
    /\ stack' = Popped
    /\ UNCHANGED <<pending, ignore, queue_flags, switches, counts, last_run>>

-----------------------------------------------------------------------------
(* Do_ast_queue. *)

(* The entry after lptr. *)
Looking ==
    /\ In("Do_ast_queue")
    /\ Top.async \/ Checked
    /\ Top.lptr # 0 => \E i \in DOMAIN queue : queue[i].id = Top.lptr

Place == IF Top.lptr = 0 THEN 1 ELSE Position(Top.lptr) + 1

ScanEnds ==
    /\ Looking
    /\ Place > Len(queue)
    /\ ignore' = TRUE
    /\ stack' = Popped
    /\ UNCHANGED <<pending, pairs, queue_flags, switches, counts, last_run>>

(* A bug: the scan started again after an entry that stays. *)
ScanSkipsBack ==
    /\ Looking
    /\ Place <= Len(queue)
    /\ ~MayRun(queue[Place].item, TRUE)
    /\ queue_flags' = queue_flags \cup Noted(queue[Place].item, TRUE)
    /\ stack' = [stack EXCEPT ![Depth].lptr = 0, ![Depth].pc = "check"]
    /\ UNCHANGED <<pending, pairs, ignore, switches, counts, last_run>>

(* A blocked entry stays, and the scan moves on. *)
ScanSkips ==
    /\ Looking
    /\ Place <= Len(queue)
    /\ ~MayRun(queue[Place].item, TRUE)
    /\ queue_flags' = queue_flags \cup Noted(queue[Place].item, TRUE)
    /\ stack' = [stack EXCEPT ![Depth].lptr = queue[Place].id, ![Depth].pc = "check"]
    /\ UNCHANGED <<pending, pairs, ignore, switches, counts, last_run>>

(* Remove, and the start of the handler. *)
Removing(e, lptr, end) ==
    /\ MayRun(e.item, TRUE)
    /\ queue' = RemoveAt(queue, Place)
    /\ queue_end' = end
    /\ stack' = Raise([stack EXCEPT ![Depth].lptr = lptr, ![Depth].pc = "check"], e)
    /\ sig_flag' = RaiseFlags(e)
    /\ last_run' = RunsNow(e)

(* Any other is removed and run, after which the scan starts again. *)
ScanRuns ==
    /\ Looking
    /\ Place <= Len(queue)
    /\ LET e == queue[Place]
       IN  Removing(e, 0, IF queue_end = e.id THEN Top.lptr ELSE queue_end)
    /\ UNCHANGED <<pending, ignore, queue_flags, asts_enabled, disable, counts>>

-----------------------------------------------------------------------------
(* What user code, the main program or a handler, does. *)

Does(op) ==
    /\ UserCode
    /\ op \in IF stack = <<>> THEN MainOps ELSE HandlerOps

(* sys_raise_ast *)
RaiseSync(x) ==
    /\ Does("raise")
    /\ raised < MaxRaise
    /\ raised' = raised + 1
    /\ Dispatch(x, Append(stack, Sync))
    /\ UNCHANGED <<pending, pairs, ignore, asts_enabled, disable, ops, cleared>>

RaiseSyncEnds ==
    /\ In("sys_raise_ast") /\ Checked
    /\ IF ignore
       THEN stack' = Popped /\ UNCHANGED queue_flags
       ELSE CallScan(Popped, FALSE, asts_enabled)
    /\ UNCHANGED <<pending, pairs, ignore, switches, counts, last_run>>

(* v -> sys_signal_flag(s), after its check point *)
SetSigFlag(s, v) ==
    /\ Does(IF v THEN "enable" ELSE "disable")
    /\ ~trap \/ disable
    /\ ops < MaxOp /\ ops' = ops + 1
    /\ sig_flag' = [sig_flag EXCEPT ![s] = v]
    /\ ignore' = (ignore /\ ~v)
    /\ IF ignore' THEN UNCHANGED <<stack, queue_flags>>
                  ELSE CallScan(stack, FALSE, asts_enabled)
    /\ UNCHANGED <<pending, pairs, asts_enabled, disable, raised, seen, cleared,
                   last_run>>

(* v -> pop_asts_enabled *)
SetAstsEnabled(v) ==
    /\ Does("asts")
    /\ ops < MaxOp /\ ops' = ops + 1
    /\ asts_enabled' = v
    /\ IF v THEN CallScan(stack, FALSE, TRUE) ELSE UNCHANGED <<stack, queue_flags>>
    /\ UNCHANGED <<pending, pairs, ignore, disable, sig_flag, raised, seen, cleared,
                   last_run>>

(* [] -> pop_ast_queue: the ring is emptied and the end of the queue moved *)
(* to its head, whose link is left as it is. *)
ClearQueue ==
    /\ Does("clear")
    /\ ops < MaxOp /\ ops' = ops + 1
    /\ cleared' = cleared \cup {queue[i].id : i \in DOMAIN queue}
    /\ ring' = <<>> /\ trap' = FALSE
    /\ queue_end' = 0
    /\ ignore' = TRUE
    /\ UNCHANGED <<queue, queue_flags, switches, stack, raised, seen, last_run>>

(* Leaving every activation: a handler of a signal gives it back its flag, *)
(* and so makes the queue worth looking at; Clear_ast_queue restores        *)
(* _asts_enabled. *)
Unmasked == Executing \cap Sig

Restored ==
    LET clears == {i \in 1 .. Depth : stack[i].fn = "Clear_ast_queue"}
    IN  IF clears = {} THEN asts_enabled ELSE stack[Min(clears)].enabled

LeaveHandlers == sig_flag' = [s \in Sig |-> sig_flag[s] \/ s \in Unmasked]

(* A non-local exit from a handler to the main program, which restores the *)
(* flags its activations localised and skips the rest of them. *)
ExitHandler ==
    /\ stack # <<>> /\ Does("exit")
    /\ LeaveHandlers
    /\ ignore' = (ignore /\ Unmasked = {})
    /\ asts_enabled' = Restored
    /\ stack' = <<>>
    /\ UNCHANGED <<pending, pairs, queue_flags, disable, counts, last_run>>

(* A call of an external procedure that calls Pop back.  The check at the   *)
(* end of the call, when no other is being made, finds the asts that were  *)
(* not to run inside it. *)
CallExtern ==
    /\ Does("callback")
    /\ ops < MaxOp /\ ops' = ops + 1
    /\ stack' = Append(stack, Callback)
    /\ UNCHANGED <<pending, pairs, ignore, queue_flags, switches, raised, seen,
                   cleared, last_run>>

Outermost == \A i \in 1 .. Depth - 1 : stack[i] # Callback

(* A bug: what the callback kept blocked is forgotten. *)
CallbackReturnsQuietly ==
    /\ In("callback")
    /\ stack' = Popped
    /\ UNCHANGED <<pending, pairs, ignore, queue_flags, switches, counts, last_run>>

CallbackReturns ==
    /\ In("callback")
    /\ IF "QC_CALLBACK" \in queue_flags /\ Outermost
       THEN Ring!Arrive(QueueCheck)
       ELSE UNCHANGED pending
    /\ stack' = Popped
    /\ UNCHANGED <<pairs, ignore, queue_flags, switches, counts, last_run>>

-----------------------------------------------------------------------------
(* Mishaps and setpop, which clear the queue of asts with ASTP_ERROR_DELETE. *)

(* Clear_ast_queue(false) disables asts and takes all there are from the   *)
(* ring before it looks at the queue. *)
Clear(then) ==
    /\ ops < MaxOp /\ ops' = ops + 1
    /\ stack' = stack \o <<Clearing(then, asts_enabled), Async>>
    /\ asts_enabled' = FALSE
    /\ UNCHANGED <<pending, pairs, ignore, queue_flags, sig_flag, raised, seen,
                   cleared, last_run>>

(* A mishap that user code catches, and goes on. *)
RaiseMishap == Does("mishap") /\ Clear("mishap") /\ UNCHANGED disable

(* setpop, which a mishap that nothing catches comes to: no check point    *)
(* does anything until it is over. *)
Setpop == Does("setpop") /\ Clear("unwind") /\ disable' = TRUE

(* The entries that stay; Kept[n] are those of the first n. *)
Survivors(entries) ==
    LET Kept[n \in 0 .. Len(entries)] ==
            IF n = 0 THEN <<>>
            ELSE IF entries[n].item \in ErrorDelete THEN Kept[n - 1]
            ELSE Append(Kept[n - 1], entries[n])
    IN  Kept[Len(entries)]

(* A bug: the end of the queue left at an entry that is removed. *)
ClearEntriesKeepsEnd ==
    /\ In("Clear_ast_queue")
    /\ queue' = Survivors(queue)
    /\ IF queue_end = 0 THEN UNCHANGED pending ELSE Ring!Arrive(QueueCheck)
    /\ UNCHANGED <<queue_end, queue_flags, counts, last_run>>

(* The end of Clear_ast_queue, once the ring is empty: what the queue     *)
(* still holds will be looked at, when a check point finds the new ast.    *)
ClearEntries ==
    /\ In("Clear_ast_queue")
    /\ queue' = Survivors(queue)
    /\ LET kept == Survivors(UpTo(queue_end))
       IN  queue_end' = IF kept = <<>> THEN 0 ELSE Last(kept).id
    /\ IF queue_end' = 0 THEN UNCHANGED pending ELSE Ring!Arrive(QueueCheck)
    /\ UNCHANGED <<queue_flags, counts, last_run>>

ClearInMishap ==
    /\ ClearEntries /\ Top.then = "mishap"
    /\ ignore' = (queue_end' = 0)
    /\ asts_enabled' = Top.enabled
    /\ stack' = Append(Popped, Mishap)
    /\ UNCHANGED <<disable, sig_flag>>

(* The queue has been cleared: setpop unwinds the call stack and is called *)
(* again at its top, where it clears the queue again. *)
ClearAndUnwind ==
    /\ ClearEntries /\ Top.then = "unwind"
    /\ LeaveHandlers
    /\ ignore' = (queue_end' = 0 /\ Unmasked = {})
    /\ asts_enabled' = FALSE
    /\ stack' = <<Clearing("reset", Restored), Async>>
    /\ UNCHANGED disable

(* setpop_reset clears it a third time. *)
ClearAndReset ==
    /\ ClearEntries /\ Top.then = "reset"
    /\ ignore' = (queue_end' = 0)
    /\ stack' = <<Clearing("restart", Top.enabled), Async>>
    /\ UNCHANGED switches

ClearAndRestart ==
    /\ ClearEntries /\ Top.then = "restart"
    /\ ignore' = (queue_end' = 0)
    /\ asts_enabled' = Top.enabled
    /\ disable' = FALSE
    /\ stack' = <<>>
    /\ UNCHANGED sig_flag

MishapEnds ==
    /\ In("mishap") /\ Checked
    /\ stack' = Popped
    /\ UNCHANGED <<pending, pairs, ignore, queue_flags, switches, counts, last_run>>

-----------------------------------------------------------------------------
Dispatching ==
    \/ CheckPoint
    \/ TakeAst \/ TakeCheck \/ RingEmpty \/ ThenQueue
    \/ Enter \/ AstpReturns \/ SigReturns \/ AddAst
    \/ ScanEnds \/ ScanSkips \/ ScanRuns
    \/ RaiseSyncEnds
    \/ ClearInMishap \/ ClearAndUnwind \/ ClearAndReset \/ ClearAndRestart
    \/ MishapEnds \/ CallbackReturns

UserSteps ==
    \/ \E x \in Item : RaiseSync(x)
    \/ \E s \in Sig, v \in BOOLEAN : SetSigFlag(s, v)
    \/ \E v \in BOOLEAN : SetAstsEnabled(v)
    \/ ClearQueue
    \/ ExitHandler
    \/ CallExtern
    \/ RaiseMishap
    \/ Setpop

Next == (\E x \in Item : Event(x)) \/ Dispatching \/ UserSteps

(* User code runs on: it reaches its check points and handlers return. *)
Fairness == WF_vars(Dispatching)

Spec == Init /\ [][Next]_vars
FairSpec == Spec /\ Fairness

-----------------------------------------------------------------------------
Activation ==
    [fn : {"Async_raise_signal"}, pc : {"loop", "handled"}]
      \cup [fn : {"Do_ast_queue"}, pc : {"check", "checked"}, async : BOOLEAN,
            lptr : 0 .. MaxRaise]
      \cup [fn : {"sys_raise_ast", "mishap"}, pc : {"check", "checked"}]
      \cup [fn : {"callback"}]
      \cup [fn : {"Clear_ast_queue"}, enabled : BOOLEAN,
            then : {"mishap", "unwind", "reset", "restart"}]
      \cup [fn : {"Add", "Raise_astp", "handler"}, entry : Entry]

TypeOK ==
    /\ ring \in Seq(Item \cup {QueueCheck}) /\ queue \in Seq(Entry)
    /\ queue_end \in 0 .. MaxRaise
    /\ trap \in BOOLEAN /\ ignore \in BOOLEAN
    /\ queue_flags \subseteq {"QC_RECURSIVE", "QC_CALLBACK"}
    /\ asts_enabled \in BOOLEAN /\ disable \in BOOLEAN
    /\ sig_flag \in [Sig -> BOOLEAN]
    /\ stack \in Seq(Activation)
    /\ raised \in 0 .. MaxRaise /\ seen \in 0 .. raised /\ ops \in 0 .. MaxOp
    /\ last_run \in [Item -> 0 .. MaxRaise]
    /\ cleared \subseteq 1 .. MaxRaise

(* Neither an ast procedure with ASTP_BLOCK_RECURSIVE nor the handler of a *)
(* signal is ever started inside itself, at whatever depth of dispatching. *)
NoReentry ==
    \A i, j \in DOMAIN stack :
        /\ i < j
        /\ stack[i].fn = "handler" /\ stack[j].fn = "handler"
        /\ stack[i].entry.item \in (Recursive \ Never) \cup Sig
        => stack[i].entry.item # stack[j].entry.item

(* The pair a scan will continue from is still on the queue when it does:  *)
(* the scans nested in its check points have not removed it.               *)
LptrOnQueue ==
    \A i \in DOMAIN stack :
        stack[i].fn = "Do_ast_queue" /\ stack[i].lptr # 0
            => \E j \in DOMAIN queue : queue[j].id = stack[i].lptr

(* Sys_ast_queue_end is the last pair reached from the head, so that what  *)
(* Add links in is reached too.                                            *)
EndIsLast == queue_end = IF queue = <<>> THEN 0 ELSE Last(queue).id

Free(x) == x \in Never \/ (asts_enabled /\ ~Blocked(x))

(* AST_QUEUE_CHECK is on its way, for what an external call kept blocked. *)
Called(x) == x \in External /\ Contains(ring, QueueCheck)

(* _ignore_ast_queue is only ever set over a queue that is all blocked, so *)
(* that a new ast that is run at once overtakes nothing.                   *)
IgnoreSound ==
    ignore => \A i \in DOMAIN queue : Free(queue[i].item) => Called(queue[i].item)

(* Back in the main program with nothing pending, every ast on the queue   *)
(* is one that some condition still blocks.                                *)
NothingParked ==
    stack = <<>> /\ ~trap => \A i \in DOMAIN queue : ~Free(queue[i].item)

(* x is handled while an earlier raise of it is on the queue. *)
Overtaken(x) ==
    /\ last_run'[x] # last_run[x]
    /\ \E i \in DOMAIN queue' : queue'[i].item = x /\ queue'[i].id < last_run'[x]

(* The raises of an ast are handled in the order in which they were made,  *)
(* except that one queued in an external call may be overtaken until the   *)
(* check that the call leaves behind is found. *)
InOrder == [][\A x \in Item : Overtaken(x) => Called(x)]_vars

(* ... and without the exception. *)
AlwaysInOrder == [][\A x \in Item : ~Overtaken(x)]_vars

(* However handlers are left, by return or by a non-local exit, a signal   *)
(* is disabled exactly while its handler is active: no path through the    *)
(* dispatch leaves a signal masked for good.  (For programs that do not    *)
(* set the flags themselves.) *)
MaskedWhileHandled == \A s \in Sig : sig_flag[s] = (s \notin Executing)

(* What `[] -> pop_ast_queue' cleared is never run. *)
ClearedStayCleared ==
    \A i \in DOMAIN stack :
        stack[i].fn = "handler" => stack[i].entry.id \notin cleared

(* What is on the queue and not blocked is taken off it in the end: the    *)
(* scans that start again after every handler come to an end themselves.   *)
Settles ==
    \A x \in Item :
        LET Runnable == Free(x) /\ \E i \in DOMAIN queue : queue[i].item = x
        IN  Runnable ~> ~Runnable

(* What the dispatch relies on wherever it is left and entered again: its  *)
(* pointers into the queue, and _ignore_ast_queue (signals.p:463-497).     *)
DispatchSound == TypeOK /\ NoReentry /\ LptrOnQueue /\ EndIsLast /\ IgnoreSound
=============================================================================
