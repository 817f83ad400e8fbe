------------------------------- MODULE AsyncIo -------------------------------
(***************************************************************************)
(* Asynchronous input on devices: the sets of file descriptors that c_core *)
(* keeps for sys_async_io, the SIGIO handler that turns waiting input into *)
(* asts, and sysread, which turns the checking off while it reads and on   *)
(* again after.  The SIGIO handler may run between any two statements of   *)
(* the Pop thread; `todo' holds those the thread has still to execute.     *)
(* One of the three conditions, input, is modelled.                        *)
(***************************************************************************)
EXTENDS Integers, Sequences, SequencesExt, FiniteSets

CONSTANTS
    Fd,
    NoFd,
    MaxArrivals,    \* bound: how often input arrives
    MaxSwitches     \* bound: how often devices are turned on or off

ASSUME AsyncIoAssumption ==
    /\ IsFiniteSet(Fd) /\ NoFd \notin Fd
    /\ {MaxArrivals, MaxSwitches} \subseteq Nat

VARIABLES
    waiting,        \* the fds with input waiting in the kernel
    fasync,         \* those for which the kernel sends SIGIO
    sigio,          \* a SIGIO is pending
    arrivals,       \* how often input has arrived
    robbed,         \* those whose SIGIO the child of a fork has turned off
                    \* since this process last asked for it
    intruded,       \* input or SIGIO has come while sysread or sys_async_io ran
    async_fds,      \* those with asynchronous input
    async_on_fds,   \* those checked at present
    async_ctr,
    devasts,        \* the AST_DEV entries of the ring
    todo,           \* what the thread has still to do of its current call
    trap,           \* the fd whose trap procedure is running
    read,           \* that procedure has read
    switches        \* how often a device was turned on or off

inputvars == <<waiting, fasync, sigio, arrivals, robbed, intruded, async_fds, async_on_fds,
               async_ctr, devasts, todo, trap, read, switches>>

kernelvars == <<waiting, fasync, sigio, arrivals, robbed, intruded>>
sets   == <<async_fds, async_on_fds, async_ctr>>
user   == <<trap, read, switches>>

InputInit ==
    /\ waiting = {}
    /\ fasync = {}
    /\ sigio = FALSE
    /\ arrivals = 0
    /\ robbed = {}
    /\ intruded = FALSE
    /\ async_fds = {}
    /\ async_on_fds = {}
    /\ async_ctr = 0
    /\ devasts = <<>>
    /\ todo = <<>>
    /\ trap = NoFd
    /\ read = FALSE
    /\ switches = 0

-----------------------------------------------------------------------------
(* Statements. *)

Do(f, steps) == [i \in DOMAIN steps |-> [step |-> steps[i], fd |-> f]]

Next1   == Head(todo)
At(s)   == todo # <<>> /\ Next1.step = s
Goto(f, steps) == Do(f, steps) \o Tail(todo)

(* The checking not turned on again. *)
SysreadOff(f) == Do(f, <<"off?", "read">>)

(* sysread turns checking off, reads, and turns it on. *)
Sysread(f) == Do(f, <<"off?", "read", "on?">>)

(* The updater of sys_async_io. *)
Enable(f)  == Do(f, <<"add", "enable?">>)
Disable(f) == Do(f, <<"off?", "remove">>)

-----------------------------------------------------------------------------
(* The kernel sends SIGIO when input arrives, not when FIOASYNC is set. *)
Arrive(f) ==
    /\ arrivals < MaxArrivals
    /\ arrivals' = arrivals + 1
    /\ waiting' = waiting \cup {f}
    /\ sigio' = (sigio \/ f \in fasync)
    /\ intruded' = (intruded \/ todo # <<>>)
    /\ UNCHANGED <<fasync, robbed, sets, devasts, todo, user>>

(* sigio_handler: an ast for each fd with input, which is not checked again *)
(* until it has been read. *)
Poll ==
    LET ready == IF async_ctr = 0 THEN {} ELSE async_on_fds \cap waiting
    IN  /\ devasts' = devasts \o SetToSeq(ready)
        /\ async_on_fds' = async_on_fds \ ready
        /\ async_ctr' = async_ctr - Cardinality(ready)
        /\ fasync' = fasync \ ready

Sigio ==
    /\ sigio
    /\ sigio' = FALSE
    /\ intruded' = (intruded \/ todo # <<>>)
    /\ Poll
    /\ UNCHANGED <<waiting, arrivals, robbed, async_fds, todo, user>>

-----------------------------------------------------------------------------
(* _pop_set_async_check: it looks whether there is anything to do ... *)

TestFor(s, needed, steps) ==
    /\ At(s)
    /\ todo' = IF needed THEN Goto(Next1.fd, steps) ELSE Tail(todo)
    /\ UNCHANGED <<kernelvars, sets, devasts, user>>

IsAsync == Next1.fd \in async_fds
IsOn    == Next1.fd \in async_on_fds

TestOff    == TestFor("off?", IsAsync /\ IsOn, <<"clear", "uncount", "FIOASYNC off">>)
TestOn     == TestFor("on?", IsAsync /\ ~IsOn, <<"set", "count", "FIOASYNC on">>)
TestEnable == TestFor("enable?", IsAsync /\ ~IsOn, <<"set", "count", "select">>)

(* ... and then changes the set, the counter, and the kernel's flag. *)
Mark ==
    /\ At("set") \/ At("clear")
    /\ async_on_fds' = IF At("set") THEN async_on_fds \cup {Next1.fd}
                                    ELSE async_on_fds \ {Next1.fd}
    /\ todo' = Tail(todo)
    /\ UNCHANGED <<kernelvars, async_fds, async_ctr, devasts, user>>

Count ==
    /\ At("count") \/ At("uncount")
    /\ async_ctr' = IF At("count") THEN async_ctr + 1 ELSE async_ctr - 1
    /\ todo' = Tail(todo)
    /\ UNCHANGED <<kernelvars, async_fds, async_on_fds, devasts, user>>

(* A new fd not looked at for input that has arrived before. *)
SelectNothing ==
    /\ At("select")
    /\ todo' = Goto(Next1.fd, <<"FIOASYNC on">>)
    /\ UNCHANGED <<kernelvars, sets, devasts, user>>

(* A new fd may have input already: then the handler is called as well. *)
Select ==
    /\ At("select")
    /\ todo' = Goto(Next1.fd, IF Next1.fd \in waiting
                              THEN <<"FIOASYNC on", "poll">> ELSE <<"FIOASYNC on">>)
    /\ UNCHANGED <<kernelvars, sets, devasts, user>>

(* The kernel's flag not set again after a read. *)
FioasyncOff ==
    /\ At("FIOASYNC on") \/ At("FIOASYNC off")
    /\ fasync' = fasync \ {Next1.fd}
    /\ robbed' = robbed \ {Next1.fd}
    /\ todo' = Tail(todo)
    /\ UNCHANGED <<waiting, sigio, arrivals, intruded, sets, devasts, user>>

Fioasync ==
    /\ At("FIOASYNC on") \/ At("FIOASYNC off")
    /\ fasync' = IF At("FIOASYNC on") THEN fasync \cup {Next1.fd} ELSE fasync \ {Next1.fd}
    /\ robbed' = robbed \ {Next1.fd}
    /\ todo' = Tail(todo)
    /\ UNCHANGED <<waiting, sigio, arrivals, intruded, sets, devasts, user>>

PollNow ==
    /\ At("poll")
    /\ Poll
    /\ todo' = Tail(todo)
    /\ UNCHANGED <<waiting, sigio, arrivals, robbed, intruded, async_fds, user>>

(* _pop_set_async_fd. *)
Member ==
    /\ At("add") \/ At("remove")
    /\ async_fds' = IF At("add") THEN async_fds \cup {Next1.fd} ELSE async_fds \ {Next1.fd}
    /\ todo' = Tail(todo)
    /\ UNCHANGED <<kernelvars, async_on_fds, async_ctr, devasts, user>>

(* read takes all the input there is. *)
Read ==
    /\ At("read")
    /\ waiting' = waiting \ {Next1.fd}
    /\ read' = (read \/ trap = Next1.fd)
    /\ todo' = Tail(todo)
    /\ UNCHANGED <<fasync, sigio, arrivals, robbed, intruded, sets, devasts, trap, switches>>

-----------------------------------------------------------------------------
(* What the Pop program does. *)

(* The trap only of a device that is being checked. *)
TakeAstChecked ==
    /\ todo = <<>> /\ trap = NoFd
    /\ devasts # <<>>
    /\ devasts' = Tail(devasts)
    /\ trap' = IF Head(devasts) \in async_on_fds THEN Head(devasts) ELSE NoFd
    /\ read' = FALSE
    /\ UNCHANGED <<kernelvars, sets, todo, switches>>

(* The trap of a device, if it still has one, at a check point. *)
TakeAst ==
    /\ todo = <<>> /\ trap = NoFd
    /\ devasts # <<>>
    /\ devasts' = Tail(devasts)
    /\ trap' = IF Head(devasts) \in async_fds THEN Head(devasts) ELSE NoFd
    /\ read' = FALSE
    /\ UNCHANGED <<kernelvars, sets, todo, switches>>

TrapReads ==
    /\ todo = <<>> /\ trap # NoFd
    /\ trap \in waiting
    /\ todo' = Sysread(trap)
    /\ UNCHANGED <<kernelvars, sets, devasts, user>>

TrapReturns ==
    /\ todo = <<>> /\ trap # NoFd
    /\ trap \notin waiting \/ read
    /\ trap' = NoFd
    /\ UNCHANGED <<kernelvars, sets, devasts, todo, read, switches>>

Switch(f) ==
    /\ todo = <<>> /\ trap = NoFd
    /\ switches < MaxSwitches
    /\ switches' = switches + 1
    /\ todo' = IF f \in async_fds THEN Disable(f) ELSE Enable(f)
    /\ UNCHANGED <<kernelvars, sets, devasts, trap, read>>

(* The main program reads a device itself. *)
MainReads(f) ==
    /\ todo = <<>> /\ trap = NoFd
    /\ f \in waiting
    /\ todo' = Sysread(f)
    /\ UNCHANGED <<kernelvars, sets, devasts, user>>

(* pop_fork: the child cancels its asynchronous I/O, which clears the flag *)
(* of the open files it shares with the parent, modelled here. *)
PopFork ==
    /\ todo = <<>> /\ trap = NoFd
    /\ fasync' = fasync \ async_on_fds
    /\ robbed' = robbed \cup async_on_fds
    /\ UNCHANGED <<waiting, sigio, arrivals, intruded, sets, devasts, todo, user>>

-----------------------------------------------------------------------------
Step == TestOff \/ TestOn \/ TestEnable \/ Mark \/ Count \/ Select \/ Fioasync
          \/ PollNow \/ Member \/ Read

Program == (\E f \in Fd : Switch(f) \/ MainReads(f)) \/ PopFork

InputNext == (\E f \in Fd : Arrive(f)) \/ Sigio \/ Step
          \/ TakeAst \/ TrapReads \/ TrapReturns \/ Program

(* SIGIO is delivered, the thread runs on, traps read and return, and a    *)
(* thread that reaches check points again and again runs what is in the    *)
(* ring at one of them. *)
InputFairness ==
    /\ WF_inputvars(Sigio) /\ WF_inputvars(Step)
    /\ SF_inputvars(TakeAst) /\ WF_inputvars(TrapReads) /\ WF_inputvars(TrapReturns)

InputSpec == InputInit /\ [][InputNext]_inputvars
FairInputSpec == InputSpec /\ InputFairness

-----------------------------------------------------------------------------
Steps == {"off?", "on?", "enable?", "set", "clear", "count", "uncount", "select",
          "FIOASYNC on", "FIOASYNC off", "poll", "add", "remove", "read"}

InputTypeOK ==
    /\ waiting \subseteq Fd /\ fasync \subseteq Fd /\ sigio \in BOOLEAN
    /\ arrivals \in 0 .. MaxArrivals /\ robbed \subseteq Fd /\ intruded \in BOOLEAN
    /\ async_fds \subseteq Fd /\ async_on_fds \subseteq async_fds
    /\ async_ctr \in Int
    /\ devasts \in Seq(Fd)
    /\ todo \in Seq([step : Steps, fd : Fd])
    /\ trap \in Fd \cup {NoFd} /\ read \in BOOLEAN
    /\ switches \in 0 .. MaxSwitches

(* There is input for f, and an ast in the ring or a trap still to read it. *)
Told(f) == f \in waiting /\ (f \in ToSet(devasts) \/ (f = trap /\ ~read))

(* Wherever a signal comes within the calls, a device that is left         *)
(* unchecked after them is one whose ast or trap will read it and have it  *)
(* checked again (sigio_handler, _pop_set_async_check, sysread).           *)
UncheckedAnnounced == todo = <<>> => \A f \in async_fds \ async_on_fds : Told(f)

(* And so no device stays unchecked, unless its asynchronous input is      *)
(* turned off.                                                             *)
CheckedAgain ==
    \A f \in Fd : f \in async_fds \ async_on_fds ~> f \notin async_fds \ async_on_fds

(* Between calls async_ctr is the number of fds being checked: with a      *)
(* counter too low the handler sees none and drops what arrived, and the   *)
(* child of a fork counts down past zero.  Not so once a signal has come   *)
(* within a call.                                                          *)
CtrCountsOn == todo = <<>> => async_ctr = Cardinality(async_on_fds)

Announced(f) == sigio \/ f \in ToSet(devasts)

(* Back in the main program, input waiting on an asynchronous device has   *)
(* been announced or is about to be, unless the child of a fork has turned *)
(* its SIGIO off: no input falls between the read and the checking that    *)
(* follows it, or between the switching on of two devices.  Not so once    *)
(* input has come within a call.                                           *)
NoInputMissed ==
    todo = <<>> /\ trap = NoFd =>
        \A f \in (async_fds \cap waiting) \ robbed : Announced(f)

(* The same of every asynchronous device, as long as input and signals come *)
(* between calls.  Not so after a fork.                                    *)
NoInputMissedByFork ==
    todo = <<>> /\ trap = NoFd /\ ~intruded => \A f \in async_fds \cap waiting : Announced(f)

(* The descriptors that are checked are those counted, and none of them    *)
(* has input nobody knows of, as long as input and signals come between    *)
(* calls (_pop_set_async_fd).                                              *)
InputAnnounced == InputTypeOK /\ (~intruded => CtrCountsOn /\ NoInputMissed)

(* Input on an asynchronous device is read in the end, unless the program  *)
(* turns the device off, the child of a fork its SIGIO, or a signal comes  *)
(* within a call.                                                          *)
Served ==
    \A f \in Fd :
        LET Due == f \in (waiting \cap async_fds) \ robbed /\ ~intruded
        IN  Due ~> ~Due
=============================================================================
