----------------------------- MODULE OsChildren -----------------------------
(***************************************************************************)
(* The children of a Poplog process: sys_fork and its unlisted window, the *)
(* SIGCHLD that announces a death, the reaping done by Check_os_children,  *)
(* and sys_wait with its bounded park.  One Pop thread runs `at'; the      *)
(* kernel, the C signal handler and the children run beside it.  A trap    *)
(* runs on top of the thread at its check points.                          *)
(***************************************************************************)
EXTENDS Naturals, Sequences, SequencesExt, FiniteSets

CONSTANTS
    Child,          \* the pids that can be forked
    Kinds,          \* [wait, ast] pairs the program forks with: will_do_wait,
                    \* and whether it gives an ast procedure
    GcInFork,       \* may an allocation inside sys_fork collect, and so be a
                    \* check point
    HandlerForks,   \* may an ast procedure itself call sys_fork
    NoChild, AnyChild

ASSUME ChildAssumption ==
    /\ IsFiniteSet(Child)
    /\ Kinds \subseteq [wait : BOOLEAN, ast : BOOLEAN] /\ Kinds # {}
    /\ GcInFork \in BOOLEAN
    /\ HandlerForks \in BOOLEAN
    /\ NoChild \notin Child

VARIABLES
    os,             \* the kernel's view of each child
    kind,           \* how each was forked
    sigchld,        \* a SIGCHLD is pending in the kernel: at most one
    asts,           \* SIG_CHILD entries in the ring of asts
    os_process_list,
    dead,           \* the entries flagged OSPROCF_DEAD
    willWait,       \* the entries flagged OSPROCF_WILL_WAIT
    at,             \* where the Pop thread is
    forking,        \* the child sys_fork is about to list
    head,           \* the list `::' has pushed and will put that child on
    target,         \* what sys_wait was asked for: pids, or AnyChild
    waited,         \* it has parked at least once
    scan,           \* the entry Get_os_process_trap looks at next; 0: idle
    ran,            \* how many times each child's ast has been raised
    returned,       \* the children sys_wait has returned
    givenUp,        \* the children an exit from sys_wait gave up
    refused         \* the children sys_wait has called nonexistent

vars == <<os, kind, sigchld, asts, os_process_list, dead, willWait, at,
          forking, head, target, waited, scan, ran, returned,
          givenUp, refused>>

kernel  == <<os, kind, sigchld>>
entries == <<os_process_list, dead, willWait>>
thread  == <<at, forking, head, target, waited>>
results == <<ran, returned, givenUp, refused>>

Listed == ToSet(os_process_list)

(* The list l without the pair that holds the entry of c, one that is on it. *)
Unlinked(l, c) == RemoveAt(l, CHOOSE i \in DOMAIN l : l[i] = c)
Drop(c) == Unlinked(os_process_list, c)

Init ==
    /\ os = [c \in Child |-> "unborn"]
    /\ kind = [c \in Child |-> CHOOSE k \in Kinds : TRUE]
    /\ sigchld = FALSE
    /\ asts = 0
    /\ os_process_list = <<>>
    /\ dead = {}
    /\ willWait = {}
    /\ at = "user"
    /\ forking = NoChild
    /\ head = <<>>
    /\ target = AnyChild
    /\ waited = FALSE
    /\ scan = 0
    /\ ran = [c \in Child |-> 0]
    /\ returned = {}
    /\ givenUp = {}
    /\ refused = {}

-----------------------------------------------------------------------------
(* Bugs a maintainer could introduce, each of which some property catches. *)

(* The predecessor of the entry not kept up to date: the list now starts   *)
(* after the entry. *)
UnlistFromHead(c) ==
    IF c \in willWait THEN os_process_list
    ELSE SubSeq(os_process_list, scan + 1, Len(os_process_list))

(* One child reaped per SIG_CHILD. *)
ReapOneWithAst(c) ==
    /\ scan \in 1 .. Len(os_process_list)
    /\ c = os_process_list[scan]
    /\ c \notin dead
    /\ os[c] = "zombie"
    /\ kind[c].ast
    /\ dead' = dead \cup {c}
    /\ os' = [os EXCEPT ![c] = "gone"]
    /\ os_process_list' = IF c \in willWait THEN os_process_list ELSE Drop(c)
    /\ ran' = [ran EXCEPT ![c] = @ + 1]
    /\ scan' = 0
    /\ UNCHANGED <<kind, sigchld, asts, willWait, thread, returned,
                   givenUp, refused>>

(* An abandoned sys_wait that sweeps every dead entry away. *)
AbexitSweeps ==
    LET given == IF target = AnyChild THEN {} ELSE ToSet(target)
    IN  /\ os_process_list' = SelectSeq(os_process_list, LAMBDA c : c \notin dead)
        /\ willWait' = willWait \ (given \ dead)
        /\ givenUp' = givenUp \cup given

(* A park that is not followed by a rescan. *)
NoRescan ==
    /\ at = "woken" /\ scan = 0
    /\ asts = 0
    /\ at' = "testing"
    /\ UNCHANGED <<kernel, asts, entries, forking, head, target, waited, scan, results>>

-----------------------------------------------------------------------------
(* The kernel and the C handler. *)

ChildDies(c) ==
    /\ os[c] = "running"
    /\ os' = [os EXCEPT ![c] = "zombie"]
    /\ sigchld' = TRUE
    /\ UNCHANGED <<kind, asts, entries, thread, scan, results>>

(* _pop_usersig_handler adds one ast, however many deaths it stands for. *)
Deliver ==
    /\ sigchld
    /\ sigchld' = FALSE
    /\ asts' = asts + 1
    /\ UNCHANGED <<os, kind, entries, thread, scan, results>>

-----------------------------------------------------------------------------
(* sys_fork.  Between pop_fork and the entry the child is on no list. *)

Fork(c, k) ==
    /\ at = "user" /\ scan = 0
    /\ os[c] = "unborn"
    /\ os' = [os EXCEPT ![c] = "running"]
    /\ kind' = [kind EXCEPT ![c] = k]
    /\ at' = "unlisted"
    /\ forking' = c
    /\ UNCHANGED <<sigchld, asts, entries, head, target, waited, scan, results>>

(* Add_os_process_entry as far as pushing the list for `::'. *)
PushList ==
    /\ at = "unlisted" /\ scan = 0
    /\ head' = os_process_list
    /\ at' = "consing"
    /\ UNCHANGED <<kernel, asts, entries, forking, target, waited, scan, results>>

AddEntry ==
    /\ at = "consing" /\ scan = 0
    /\ os_process_list' = <<forking>> \o head
    /\ willWait' = IF kind[forking].wait THEN willWait \cup {forking} ELSE willWait
    /\ at' = "user"
    /\ forking' = NoChild
    /\ head' = <<>>
    /\ UNCHANGED <<kernel, asts, dead, target, waited, scan, results>>

-----------------------------------------------------------------------------
(* Async_raise_signal and Check_os_children. *)

CheckPoint ==
    \/ at \in {"user", "woken"}
    \/ GcInFork /\ at \in {"unlisted", "consing"}

Trap ==
    /\ CheckPoint /\ scan = 0
    /\ asts > 0
    /\ asts' = asts - 1
    /\ scan' = 1
    /\ UNCHANGED <<kernel, entries, thread, results>>

(* Get_os_process_trap passes over an entry that is flagged dead, or for   *)
(* which waitpid reports nothing. *)
PassOver ==
    /\ scan \in 1 .. Len(os_process_list)
    /\ \/ os_process_list[scan] \in dead
       \/ os[os_process_list[scan]] # "zombie"
    /\ scan' = scan + 1
    /\ UNCHANGED <<kernel, asts, entries, thread, results>>

(* It found nothing that has died: Check_os_children is done. *)
ScanEnds ==
    /\ scan > Len(os_process_list)
    /\ scan' = 0
    /\ UNCHANGED <<kernel, asts, entries, thread, results>>

(* What waitpid and the flagging do to the entry found dead. *)
Reaped(c) ==
    /\ scan \in 1 .. Len(os_process_list)
    /\ c = os_process_list[scan]
    /\ c \notin dead
    /\ os[c] = "zombie"
    /\ dead' = dead \cup {c}

Unlist(c) == IF c \in willWait THEN os_process_list ELSE Drop(c)

(* A child with an ast: it is raised and the while loop asks again. *)
ReapWithAst(c) ==
    /\ Reaped(c)
    /\ kind[c].ast
    /\ os' = [os EXCEPT ![c] = "gone"]
    /\ os_process_list' = Unlist(c)
    /\ ran' = [ran EXCEPT ![c] = @ + 1]
    /\ scan' = 1
    /\ UNCHANGED <<kind, sigchld, asts, willWait, thread, returned,
                   givenUp, refused>>

(* The same, with a procedure that forks another child. *)
ReapWithForkingAst(c, d, k) ==
    /\ HandlerForks
    /\ Reaped(c)
    /\ kind[c].ast
    /\ os[d] = "unborn"
    /\ os' = [os EXCEPT ![c] = "gone", ![d] = "running"]
    /\ kind' = [kind EXCEPT ![d] = k]
    /\ os_process_list' = <<d>> \o Unlist(c)
    /\ willWait' = IF k.wait THEN willWait \cup {d} ELSE willWait
    /\ ran' = [ran EXCEPT ![c] = @ + 1]
    /\ scan' = 1
    /\ UNCHANGED <<sigchld, asts, thread, returned,
                   givenUp, refused>>

(* A child with none: Get_os_process_trap returns the false it found in    *)
(* OSPROC_ASTP, which the while loop takes for "nothing more died". *)
ReapWithoutAst(c) ==
    /\ Reaped(c)
    /\ ~kind[c].ast
    /\ os' = [os EXCEPT ![c] = "gone"]
    /\ os_process_list' = Unlist(c)
    /\ scan' = 0
    /\ UNCHANGED <<kind, sigchld, asts, willWait, thread, results>>

-----------------------------------------------------------------------------
(* sys_wait. *)

(* The pids are tried in order; the first dead one is returned and leaves  *)
(* the list. *)
Asked == IF target = AnyChild THEN os_process_list ELSE target

(* What an exit other than the normal one does: the children asked for     *)
(* will not be waited for again (abexit), one after the other.             *)
SetNoWait(l, c) == IF c \in ToSet(l) \cap dead THEN Unlinked(l, c) ELSE l
SetNoWaitAll(l, pids) ==
    LET after[i \in 0 .. Len(pids)] == IF i = 0 THEN l ELSE SetNoWait(after[i - 1], pids[i])
    IN after[Len(pids)]

Abexit ==
    LET given == IF target = AnyChild THEN <<>> ELSE target
    IN  /\ os_process_list' = SetNoWaitAll(os_process_list, given)
        /\ willWait' = willWait \ (ToSet(given) \ dead)
        /\ givenUp' = givenUp \cup ToSet(given)

StartWait(t) ==
    /\ at = "user" /\ scan = 0
    /\ target' = t
    /\ waited' = FALSE
    /\ at' = "testing"
    /\ UNCHANGED <<kernel, asts, entries, forking, head, scan, results>>

EndWait ==
    /\ at' = "user"
    /\ target' = AnyChild
    /\ waited' = FALSE

Return(i) ==
    /\ at = "testing"
    /\ i \in DOMAIN Asked
    /\ \A j \in 1 .. i - 1 : Asked[j] \in Listed \ dead
    /\ Asked[i] \in Listed \cap dead
    /\ os_process_list' = Drop(Asked[i])
    /\ returned' = returned \cup {Asked[i]}
    /\ EndWait
    /\ UNCHANGED <<kernel, asts, dead, willWait, forking, head, scan, ran,
                   givenUp, refused>>

(* A bug: a child that is flagged dead refused like one not listed. *)
RefuseDead(i) ==
    /\ at = "testing"
    /\ i \in DOMAIN Asked
    /\ \A j \in 1 .. i - 1 : Asked[j] \in Listed \ dead
    /\ Asked[i] \notin Listed \ dead
    /\ refused' = refused \cup {Asked[i]}
    /\ IF waited THEN Abexit ELSE UNCHANGED <<os_process_list, willWait, givenUp>>
    /\ EndWait
    /\ UNCHANGED <<kernel, asts, dead, forking, head, scan, ran, returned>>

(* find_proc mishaps for a pid that is not on the list. *)
Refuse(i) ==
    /\ at = "testing"
    /\ i \in DOMAIN Asked
    /\ \A j \in 1 .. i - 1 : Asked[j] \in Listed \ dead
    /\ Asked[i] \notin Listed
    /\ refused' = refused \cup {Asked[i]}
    /\ IF waited THEN Abexit ELSE UNCHANGED <<os_process_list, willWait, givenUp>>
    /\ EndWait
    /\ UNCHANGED <<kernel, asts, dead, forking, head, scan, ran, returned>>

(* sys_wait(false) mishaps when there are no entries at all. *)
NothingToWaitFor ==
    /\ at = "testing"
    /\ Asked = <<>>
    /\ EndWait
    /\ UNCHANGED <<kernel, asts, entries, forking, head, scan, results>>

Park ==
    /\ at = "testing"
    /\ Asked # <<>>
    /\ \A i \in DOMAIN Asked : Asked[i] \in Listed \ dead
    /\ at' = "parked"
    /\ waited' = TRUE
    /\ UNCHANGED <<kernel, asts, entries, forking, head, target, scan, results>>

(* pause_popintr returns at once if an ast waits, when a signal interrupts *)
(* the poll, or when its 100 ms are over. *)
Wake ==
    /\ at = "parked"
    /\ at' = "woken"
    /\ UNCHANGED <<kernel, asts, entries, forking, head, target, waited, scan, results>>

(* The check point at the end of syshibernate is behind us: look again. *)
Rescan ==
    /\ at = "woken" /\ scan = 0
    /\ asts = 0
    /\ at' = "rescanning"
    /\ scan' = 1
    /\ UNCHANGED <<kernel, asts, entries, forking, head, target, waited, results>>

TestAgain ==
    /\ at = "rescanning" /\ scan = 0
    /\ at' = "testing"
    /\ UNCHANGED <<kernel, asts, entries, forking, head, target, waited, scan, results>>

(* An abnormal exit from the park, say by Ctrl-C. *)
Abandon ==
    /\ at = "woken" /\ scan = 0
    /\ Abexit
    /\ EndWait
    /\ UNCHANGED <<kernel, asts, dead, forking, head, scan, ran, returned, refused>>

-----------------------------------------------------------------------------
Kernel == (\E c \in Child : ChildDies(c)) \/ Deliver

Forking == (\E c \in Child, k \in Kinds : Fork(c, k)) \/ PushList \/ AddEntry

Reap == \E c \in Child :
            \/ ReapWithAst(c)
            \/ \E d \in Child, k \in Kinds : ReapWithForkingAst(c, d, k)
            \/ ReapWithoutAst(c)

Scanning == PassOver \/ ScanEnds \/ Reap

(* A pid the program holds: sys_fork has returned it. *)
Forked == {c \in Child : os[c] # "unborn" /\ c # forking}

Targets == {AnyChild} \cup {<<c>> : c \in Forked}
             \cup {<<c, d>> : c, d \in Forked}

Test == (\E i \in DOMAIN Asked : Return(i) \/ Refuse(i)) \/ NothingToWaitFor \/ Park

Waiting ==
    \/ \E t \in Targets : StartWait(t)
    \/ Test \/ Wake \/ Rescan \/ TestAgain \/ Abandon

Next == Kernel \/ Forking \/ Trap \/ Scanning \/ Waiting

(* Signals are delivered, the thread runs on, and a thread that reaches    *)
(* check points again and again with an ast waiting runs the trap at one   *)
(* of them (the code runs it at the first); the poll of the park times     *)
(* out.  Children need not die, nor the program fork or wait. *)
Fairness ==
    /\ WF_vars(Deliver)
    /\ WF_vars(PushList) /\ WF_vars(AddEntry)
    /\ SF_vars(Trap) /\ WF_vars(Scanning)
    /\ WF_vars(Test) /\ WF_vars(Wake) /\ WF_vars(Rescan) /\ WF_vars(TestAgain)

Spec == Init /\ [][Next]_vars
FairSpec == Spec /\ Fairness

-----------------------------------------------------------------------------
TypeOK ==
    /\ os \in [Child -> {"unborn", "running", "zombie", "gone"}]
    /\ kind \in [Child -> Kinds]
    /\ sigchld \in BOOLEAN
    /\ asts \in 0 .. Cardinality(Child)
    /\ os_process_list \in Seq(Child)
    /\ dead \subseteq Child /\ willWait \subseteq Child
    /\ at \in {"user", "unlisted", "consing",
               "testing", "parked", "woken", "rescanning"}
    /\ forking \in Child \cup {NoChild}
    /\ head \in Seq(Child)
    /\ target \in {AnyChild} \cup Seq(Child)
    /\ waited \in BOOLEAN
    /\ scan \in Nat
    /\ ran \in [Child -> Nat]
    /\ returned \subseteq Child /\ givenUp \subseteq Child /\ refused \subseteq Child

(* The status of a child that sys_wait may still be asked for is never     *)
(* lost: once waitpid has taken it from the kernel its entry stays on the  *)
(* list, flagged dead, until sys_wait returns it or gives it up            *)
(* (os_process.p:66-72, syswait.p:55-92).                                  *)
StatusKept ==
    \A c \in Child \ (returned \cup givenUp) :
        os[c] = "gone" /\ kind[c].wait => c \in dead /\ c \in Listed

(* Every child that has not been reaped is on the list, or is about to be  *)
(* put there: one that is not will never be asked about again, for waitpid *)
(* is only ever called for listed pids (os_process.p:39-63).               *)
ListedUntilReaped ==
    \A c \in Child :
        os[c] \in {"running", "zombie"} => c \in Listed \/ c = forking

(* sys_wait calls a pid nonexistent only if the program gave up the right  *)
(* to wait for it: it was forked with will_do_wait false, or the wait for  *)
(* it was abandoned, or its status has been returned (syswait.p:43-50).    *)
NoFalseRefusal ==
    [][\A c \in refused' \ refused :
            ~kind[c].wait \/ c \in returned \cup givenUp]_vars

(* sys_wait returns only children that were forked to be waited for.       *)
ReturnsWaitable == \A c \in returned : kind[c].wait

(* A sys_wait for a child that has died ends, whether or not its SIGCHLD   *)
(* was lost: the rescan after each bounded park finds it                   *)
(* (syswait.p:121-133).                                                    *)
WaitEnds ==
    \A c \in Child :
        at = "testing" /\ target = <<c>> /\ os[c] \in {"zombie", "gone"}
            ~> at = "user"

(* Every child that dies is reaped, without any sys_wait for it.           *)
EveryChildReaped == \A c \in Child : os[c] = "zombie" ~> os[c] = "gone"

(* A child's ast runs when it has died.                                    *)
AstRuns ==
    \A c \in Child : os[c] = "zombie" /\ kind[c].ast ~> ran[c] = 1

(* No child is ever beyond the reach of waitpid: each is listed from the   *)
(* fork until it is reaped, and the list has what its code relies on.      *)
ChildrenListed == TypeOK /\ ListedUntilReaped
=============================================================================
