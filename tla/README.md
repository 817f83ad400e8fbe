# A TLA+ verification of Poplog: asynchronous run-time and X widgets

Poplog is a virtual machine with incremental compilers for Pop-11, Prolog,
Common Lisp, ML and Forth, the run-time and garbage collector written in Pop-11
itself (`pop/src`), a C run-time (`pop/extern/lib`), the editor Ved, a large
library, and a set of X widgets in C (`pop/x/Xpw`) on which Ved and the graphics
libraries draw. Most of it is sequential. Two parts are hard to test, and these
modules model them, as the Unix build compiles them:

- The asynchronous run-time. Unix signals interrupt the C run-time and the Pop
  thread anywhere, are turned into *asts* (asynchronous traps), and run
  arbitrary Pop procedures at the *check points* of whatever procedure happens
  to be executing. Timers, children, asynchronous input and user-level signal
  handling are all built on this.
- The widgets. A widget keeps several pictures of one state: the text buffers
  and the window, a pixmap and the window, graphics contexts and the resources
  they were made from, buffered clicks, focus flags, selections. Calls of the
  program, events of the server and timers of the Intrinsics change one or
  another of them, in orders no test goes through, and what belongs to the
  server must be freed once.

- [Inventory](#inventory)
- [Plan](#plan)
- [The modules](#the-modules)
- [The runs](#the-runs)
- [Bounds](#bounds)
- [Fairness](#fairness)
- [What is proved](#what-is-proved)
- [What is only model-checked, and what is not modelled](#what-is-only-model-checked-and-what-is-not-modelled)

Paths below are relative to `src/`. Run `tlc -config X.cfg M` for the modules
named with the runs, and `tlapm M.tla` for the proofs, where `M` is one of
`SequenceLemmas`, `AstQueueProofs` (which has the proofs of `AstRing` too),
`AstClientProofs` (of `OsChildren`, `SysTimer` and `AsyncIo`), `PopTimerProofs`,
`ScrTextLemmas` and `ScrTextProofs`, `ScrWidgetProofs` and `XpwWidgetProofs`.

## Inventory

How the parts of the run-time interact:

    kernel --signal--> C handlers --_pop_add_ast--> ring, _trap
       (SIGCHLD, SIGALRM, SIGVTALRM, SIGIO, ...)       |
                                                       v  check point (_CHECKINTERRUPT)
    sys_timer, sys_fork/sys_wait, sysread  <---  Async_raise_signal --> Raise_astp / Raise_sig
        ^            (tables, lists)                   |                       |
        |                                              v                       v
        +---------- user procedures <----------- Do_ast_queue (Sys_ast_queue)  handlers

and those of the widgets:

    program --XtSetValues, XpwCallMethod--> Core <- Pixmap <- Graphic       (UsersGC, colours,
       ^                                      \\                              pixmap, window)
       |callbacks                              ScrollText: text, contexts,   <--events-- X server
       +---- buffered clicks, focus, selections <---- timers of the Intrinsics

| Component | State it keeps | Operations | What is hard, and what makes it correct |
|---|---|---|---|
| Ring of asts (`c_core.c` 2336-2396) | `astq`, its add and remove pointers, `_pop_signals_pending` | `_pop_add_ast`, `_pop_rem_ast` | runs in signal handlers; overflow. Order kept, no ast unannounced |
| Dispatch (`signals.p`, `sig_queue.p`) | `Sys_ast_queue` and its end, `_ignore_ast_queue`, `_ast_queue_flags`, `_asts_enabled`, signal flags, the executing list | raise, queue, scan, enable and disable, clear | handlers have check points, so the dispatch nests in itself; non-local exits; a collection inside the dispatch. No reentry, nothing parked, order |
| Children (`os_process.p`, `sysfork.p`, `syswait.p`) | `os_process_list` and its flags | `sys_fork`, `Check_os_children`, `sys_wait` | coalesced and lost SIGCHLD, the window before a child is listed, abandoned waits. Statuses kept, waits end, traps run |
| Interval timers (`pop_timer.c`) | two queues, one free list, one `itv` | set, cancel, expire, cancel all | the two signals interrupt each other's critical sections. Entries exclusive and not lost, head armed, neither early nor never |
| `sys_timer` (`sys_timer.p`) | `_timertab`, flags, free chain | set, cancel, `Get_timer_trap` | a slot reused while an expiry of it is in the ring |
| Asynchronous input (`c_core.c` 1092-1305, `devio.p`, `sys_async_input.p`) | three descriptor sets with counters | enable, disable, `sysread`, SIGIO handler | the handler between any two statements; input between two system calls; open files shared after a fork |
| Xpw core, pixmap and graphic widgets (`XpwCore.c`, `XpwPixmap.c`, `XpwGraphic.c`, `Graphics.c`, `UsersGC.c`, `CallMethod.c`) | the context and whether it is shared, the pixmap and its status, the colormap and the list of colours | create, realize, `XtSetValues`, resize, destroy, methods, exposure | the pixmap given, replaced or switched off while the window is covered; contexts shared through the Intrinsics; a global mask of changes. The window shows the pixmap, every server resource has one owner |
| ScrollText: text and window (`Text.c`, `XpwScrText.c`) | row buffers, cursor, highlighted segment, extent of blinking text | write, insert, delete, clear, scroll, resize, exposure, blinking, pointer | rows rotated by pointers; copies in a covered window, whose answers are waited for; what is taken off for a redraw and put back. The window shows the text |
| ScrollText: colours, buttons, focus, selections (same files) | arrays of contexts and shadows; one buffer of clicks; focus flags; contexts of selections | `XtSetValues`, events, timers, `XpwSetSelection` | what is remembered goes out of date; a timer late or early; events behind the state of the server |
| Composite and transparent widgets, client messages, local bitmaps | children, shapes | layout, actions | sequential |
| External callbacks (`extern_ptr.p`, `c_callback.c`), Xt and polling (`XtPoplog.c`, `pop_poll.c`) | call-stack segments, wait flags | call out, call back, wake up | asts blocked inside a callback. Looked at when it ends |
| Errors and setpop (`errors.p`, `setpop.p`) | `_disable` | `mishap`, `setpop` | drop part of the queue, re-announce the rest, from inside handlers. Nothing parked |
| Store (`getstore*.p`, `gc*.p`, `memseg.p`, `clawback.p`) | segments, free lists | allocate, collect | an allocation may be a check point |
| Properties (`property.p`, `destroy_prop.p`) | hash tables, temporary entries | access, expand, destroy actions | entries removed by the collector while an application runs |
| Processes (`process.p`), non-local exits | saved stacks, `dlocal` values | run, suspend, resume, exit | `dlocal` actions in order on every path |
| Prolog core (`plogcore.p`, `plog_area.p`) | trail, continuation stack | bind, undo | switches of process |
| Sections, identifiers, items | dictionary | import, export, cancel | sequential |
| Images (`sr_sys.p`, `sr_incr.p`, `syslock.p`) | files | save, restore | layout |
| JSON-RPC servers (`lib/lib/jsonrpc.p`, `mcp`, `lsp`, `swank.p`) | buffers, pending requests | read frame, serve | framing, partial reads |
| Compilers, arithmetic, encodings, Ved, packages, tools | | | sequential |

`PROJECT.json` lists these with their status, and the places in the code where
something can go wrong that a test would hardly reach (`hazards`), with the
properties that watch each.

## Plan

Order of work, the most important behaviour first; the first ten are done.

1. `AstRing`, implementing `AstFifo`; proofs in `AstQueueProofs`.
2. `AstQueue`, which uses `AstFifo` for the ring.
3. `OsChildren`.
4. `PopTimer`.
5. `SysTimer`.
6. `AsyncIo`.
7. `ScrText`, implementing `TextGrid`.
8. `UsersGC`, implementing `GCAttributes`; `PixmapMirror` and `GraphicColors`;
   `XpwWidgets`, which composes the three as widget classes.
9. `ScrTextGC`, `ScrButtons`, `ScrFocus` and `Selections`, what a ScrollText
   widget remembers besides its text.
10. `AstQueue` extended with `Clear_ast_queue(false)` (mishap and setpop) and with
    external callbacks (`QC_CALLBACK`).
11. `PopTimer` composed with `SysTimer`: an abstract specification of a table of
    timers (each set timer is run once, or cancelled) that the two implement
    together, for one kind of clock.
12. Rows of variable width in `ScrText`; the association tables and quarks under
    the methods and the pixmap caches; the client messages that move the focus.
13. Processes and `dlocal`; fixed-store free lists; properties with a collector.
14. Proofs. Done: `AstRing` and its refinement, the invariants of `AstQueue` and
    the order of its runs (`InOrder`), `ChildrenListed`, `StatusKept` and
    `NoFalseRefusal` of `OsChildren`, the invariants of `PopTimer`, `SysTimer`
    and `AsyncIo`, the focus, the selections, the buttons and the colours of
    ScrollText, every property of `XpwWidgets`, every invariant of `ScrText` and
    `CursorKept`. To do: the refinement of `TextGrid` by `ScrText`.

## The modules

State variables have the names of the code where it has one, and every module
says in its comments what an action stands for. A procedure that can be
interrupted is cut into actions at the places where that matters: its check
points (Pop), or the points between two accesses to what a handler also changes
(C). `stack` (in `AstQueue`, `PopTimer`, `SysTimer`) holds activations, innermost
last; only the innermost moves.

| Module | Models | Actions and code |
|---|---|---|
| `AstFifo` | what the ring promises: a bounded queue that forgets its oldest entry, and a flag | `Arrive`, `Take`, `FindEmpty` |
| `AstRing` | the ring with its pointers; both operations run with all signals blocked, so each is one action | `PopAddAst` = `_pop_add_ast`; `PopRemAst`, `PopRemEmpty` = `_pop_rem_ast` returning 1, 0 |
| `AstQueue` | `signals.p` on top of the ring. Entries carry the number of the ast, so that runs can be told apart; the pair `lptr` points to is such a number | `Event` (a C handler), `CheckPoint`, `TakeAst`/`RingEmpty`/`ThenQueue` = `Async_raise_signal`; `Enter`, `AstpReturns` = `Raise_astp`; `SigReturns` = `Raise_sig`; `AddAst` = `Add`; `ScanRuns`/`ScanSkips`/`ScanEnds` = `Do_ast_queue`; `RaiseSync`, `SetSigFlag`, `SetAstsEnabled`, `ClearQueue`, `ExitHandler`, `RaiseMishap`, `Setpop`, `CallExtern` = what user code does; `ClearEntries` in `ClearInMishap`, `ClearAndUnwind`, `ClearAndReset`, `ClearAndRestart` = `Clear_ast_queue(false)`, with what its caller does next; `CallbackReturns` = `CALL_AFTER`; `TakeCheck` = the ast `AST_QUEUE_CHECK` |
| `OsChildren`, `MCOsChildren` | kernel, C handler, children, and one Pop thread with the trap on top of it at check points | `Fork`, `PushList`, `AddEntry` = `sys_fork`, with `::` in two halves; `Trap`, `PassOver`, `Reap...`, `ScanEnds` = `Check_os_children`; `StartWait`, `Return`, `Refuse`, `Park`, `Wake`, `Rescan`, `Abandon` = `sys_wait` |
| `PopTimer` | the C timers, clocks counted in clock intervals | `CallSet`, `Take` and `CallCancel`, `Unlink` = `pop_timer`; `Deliver`, `Handle...`, `LinkFree` = `timer_handler`; `Arm`, `SetItimer` = the rest of `next_timer`; `ForkChild`; `Tick`, `Fire` = the kernel |
| `SysTimer` | the table of slots over an abstract set of running C timers | `SetNew`, `CancelRunning`, `CancelExpired`, `Checked` = the updater of `sys_timer` and `Get_tim`; `TakeTrap`, `TakeOfFree` = `Get_timer_trap` from the dispatch; `Expire` = `_pop_timer_trap` |
| `AsyncIo` | the descriptor sets, condition 0; `todo` is the list of C statements the thread has still to execute, between any two of which `Sigio` may run | `TestOff`, `TestOn`, `TestEnable`, `Mark`, `Count`, `Select`, `Fioasync`, `PollNow` = `_pop_set_async_check`; `Member` = `_pop_set_async_fd`; `Poll` = `sigio_handler`; `Read` within `Sysread`; `Switch` = `sys_async_io`; `PopFork` = `pop_fork` |
| `TextGrid` | what the methods of the text promise: a grid of characters and a cursor | `Clear`, `Scroll`, `Write`, `Insert`, `DeleteChars`, `MoveCursor`, `Resize` |
| `ScrText`, `MCScrText` | text of fixed width in `tw`, a record with the buffers and the order of the rows, the cells of the window, the cursor, the highlighted segment (`act`), the extent of blinking text, whether a status line is set apart from the text (`apart`, `XtNstatusStyle`) and the events still to come (`ev`). A method is an action; one that copies part of a covered window waits for the server's answers (`waits`, `CopyWait`). The row copied to or from a status line set apart is copied by itself and first, as in the loop of `Text.c:2035-2043`, and there are two answers then (`CopyWindow`) | `Write`, `Insert`, `DeleteCharsAtCursor`, `Clear`, `Scroll`, `MoveCursorTo`, `Resize` = the methods; `Dispatch` = `ScrollTextRedisplay`; `CopyWait` = `_XpwTextCopyWait`; `TestActiveChange`; `DoBlink`; `Cover`, `Uncover`, `XCopyArea` = the server |
| `UsersGC` | the context of each widget, what it is set to (`gcs`), the references the Intrinsics count (`refs`), the global values and mask | `CreateGC`, `SetValuesGC`, `ChangeUsersGC`, `DestroyGC` over `_XpwUpdateUsersGC` |
| `GCAttributes` | what `UsersGC.c` promises: attributes of its own for each widget | `Create`, `SetValues`, `ChangeUsersGC`, `Destroy` |
| `PixmapMirror` | in `d`: pixmaps and windows as cells of colours, pending Expose events, windows partly covered. Operators from `d` to `d` | class Pixmap and the redisplay of Graphic; `PutImage`, `CopyFrom`, `CopyTo`, the clear methods |
| `GraphicColors` | in `c`: colormaps with their allocated cells, and each widget's list of ranges | `_XpwFreeColormap`, `_XpwFreeColors`, the colour methods |
| `XpwWidgets`, `MCXpwWidgets` | widgets of class Graphic and Pixmap: each operation is that of the three modules together | `Create`, `SetValues`, `Resize`, `Realize`, `Destroy`, `Expose`, `Methods`, `ColorMethods`, `SetGC` |
| `ScrTextGC` | resources, the arrays of contexts of one ScrollText widget (a context is the values it was made with) and its shadows | `ScrollTextInitialize`, `ScrollTextSetValues`, `ScrollTextDestroy` |
| `ScrButtons` | the one buffer of clicks and its timer; the user's hand; what the client is owed | `ButtonPress`, `ButtonRelease`, `Motion`, `Key` = the Notify...Event actions; `TimerExpires` = `button_timeout`; `Tick` |
| `ScrFocus` | the flags of the widget, the cursor on the screen; the server and its queue of events | `EventHandler`, `KeyboardFocus`, `CursorSwitched`; `FocusMoves`, `PointerMoves`, `Unmap`, `Map` = the server |
| `Selections` | the list of contexts of one selection, the owner as the Intrinsics and as the server know it | `XpwSetSelection`, `ClearSelection`, `XpwGetSelection`, `SelectionConvert`; `OtherOwns`, `SelectionClear` |
| `MCScrWidget` | the last four in one specification: `aspect`, chosen at the start, says which of them moves. They have disjoint variables and no property relates two, so that a behaviour that interleaves them shows nothing more | |

`SysTimer` and `AsyncIo` keep the ring as a sequence of their own entries,
unbounded where `AstRing` loses the oldest: the ring of the code has 63 places
and neither can fill it alone. `OsChildren` only counts its entries.

Xt runs callbacks, event handlers and timers one at a time from its event loop,
and a method runs to its end before any of them, so that in the modules of the
widgets an action is a whole handler; what interleaves with it is the server,
whose events were sent before and are handled after. The one wait inside a
method, for the answer to a copy, is an action of its own.

Definitions introduced by a comment "a bug ..." (for example
`PopAddAstNoOverflowCheck`) are not used by the specifications. They are mutated
forms of the action or operator that follows; `PROJECT.json` (`mutants`) says
which run and property finds each when it takes that definition's place.

## The runs

Runs that pass:

| Run | Module | Shows |
|---|---|---|
| `AstRing` | `AstRing` | types (`RingTypeOK`); the ring implements `AstFifo` (`ImplementsFifo`), whose flag is raised while anything is queued |
| `AstQueue` | `AstQueue` | programs that raise asts and disable signals anywhere but enable them in the main program only, with external callbacks from the main program and setpop in handlers and callbacks: `DispatchSound` (no handler is entered inside itself, `NoReentry`; the scan's and the queue's pointers are right, `LptrOnQueue`, `EndIsLast`; `_ignore_ast_queue` is only set over a queue that is all blocked, or will be looked at after an external call, `IgnoreSound`), nothing that could run is left on the queue (`NothingParked`), the raises of one ast run in order (`InOrder`, with the exception of `AstQueueCallback.cfg` below), and scans end (`Settles`) |
| `AstQueueExits` | `AstQueue` | with non-local exits, mishaps that handlers catch, setpop, collections inside the dispatch, `pop_asts_enabled` switched and the queue cleared: a signal is masked exactly while it is handled (`MaskedWhileHandled`), and still nothing is reentered |
| `OsChildren` | `MCOsChildren` | children of every kind, collections inside `sys_fork`, abandoned waits: statuses are kept for `sys_wait` (`StatusKept`), unreaped children are listed (`ChildrenListed`), no pid is refused wrongly (`NoFalseRefusal`), and a wait for a dead child ends, its SIGCHLD lost or not (`WaitEnds`) |
| `OsChildrenAsts` | `MCOsChildren` | the asts of children run, with coalesced signals and asts that fork (`AstRuns`) |
| `PopTimer` | `PopTimer` | one timer: `QueueSound` (the head of the queue is armed, `WaitingIsArmed`; no entry is lost, `NoEntryLost`; the queue is ordered, `SoonestFirst`), and timers expire (`Expires`) |
| `PopTimerBoth` | `PopTimer` | both timers, interrupting each other, and forks: no entry is on two lists (`EntriesSound`), no trap comes early (`NeverEarly`) |
| `SysTimer` | `SysTimer` | the free chain is right and no slot is lost (`SlotsSound`), a slot belongs to one timer at a time (`OwnersSound`) |
| `AsyncIo` | `AsyncIo` | input and SIGIO between any two statements of `sysread` and `sys_async_io`: a device that a call leaves unchecked has an ast or a trap that will read it (`UncheckedAnnounced`), and is checked again in the end (`CheckedAgain`). As long as they come between calls, `async_ctr` counts what is checked and waiting input is announced (`InputAnnounced`), and is read (`Served`) |
| `ScrText` | `MCScrText` | the status line set apart or not, any two calls, with blinking, highlighting, exposures and a resize between their steps: the window shows the text (`Shown`), rows have buffers of their own and blinking text is found again (`RowsSound`), each wait for the server has its answers (`WaitAnswered`), redrawing leaves the cursor alone (`CursorKept`), and the buffers implement `TextGrid` (`ImplementsGrid`) |
| `XpwWidgets` | `MCXpwWidgets` | two widgets made in any way and three calls: the window shows the pixmap (`Mirror`), pixmaps, contexts, colours and colormaps have one owner that frees them once (`PixmapsOwned`, `GCsSound`, `ColoursSound`), no request names what is not there (`NoBadRequest`), shared contexts behave as contexts of one's own (`ImplementsAttributes`) |
| `ScrWidget` | `MCScrWidget` | contexts and shadows follow every change of a resource (`ColoursCurrent`); every click is told once (`ClicksTold`), a held button is told no earlier than it is held (`TimerSound`), and what is kept back is told in the end (`BufferFlushed`); the client knows the focus and the cursor shows it (`FocusSound`); a selection is served by its owner with the string set last (`SelectionSound`) |

Type invariants and smaller facts are conjuncts of the invariants above; TLC
checks each of them.

The configurations below belong to no run (three are `AsyncIo.cfg` with the
invariant the table names). Each reproduces one limit of what the
passing runs show, with the property that TLC finds violated
(some have several, which `tlc -continue` reports one after the other).
The first three contradict what the documentation or a comment says.

| Configuration | Property | What happens |
|---|---|---|
| `AstQueueExit.cfg` | `NothingParked` | a signal handler blocks a second raise of the signal and is left by a non-local exit: the flag is restored (`signals.p:452`), but the queue is not scanned, and the second stays queued with nothing to make anyone look (`pop/ref/async:336-338`). With an ast procedure, `signals.p:414` is skipped (`ref/async:94-95` promises that a blocked trap is queued "until such time as the blocking condition is released") |
| `OsChildrenDrain.cfg` | `EveryChildReaped` | two children without asts die under one SIGCHLD; the drain loop stops after the first, because it takes the false in `OSPROC_ASTP` for the end (`os_process.p:67`; `pop/ref/sysutil:631-634`) |
| `PopTimerTwo.cfg` | `NoEntryLost` | the handler of the other timer frees an entry while `pop_timer` has the free list half changed; the entry is lost (`pop_timer.c:635`; the comment at 383-385) |
| `PopTimerTwo.cfg` | `WaitingIsArmed` | the handler of the other timer comes between the filling of `itv` and `setitimer` (`pop_timer.c:123`) |
| `AstQueueLptr.cfg` | `LptrOnQueue` | inside `Do_ast_queue` the check point at `signals.p:472` runs a handler that enables a signal; its scan removes the pair `lptr` points to |
| `AstQueueLptr.cfg` | `LptrOnQueue` | at the same check point a handler has a mishap and catches it: `Clear_ast_queue(false)` (`errors.p:712`) removes the pair `lptr` points to |
| `AstQueueLptr.cfg` | `NoReentry` | a handler enables its own signal and is started inside itself |
| `AstQueueCallback.cfg` | `AlwaysInOrder` | an ast is queued in an external callback; one more arrives before the call ends. `CALL_AFTER` (`extern_ptr.p:308-314`) puts its check behind it in the ring and leaves `_ignore_ast_queue` set, so the later one runs first |
| `AstQueueClear.cfg` | `ClearedStayCleared` | `Clear_ast_queue(true)` (`signals.p:634`) leaves the head linked to what it cleared; a scan in progress runs it |
| `AstQueueOrder.cfg` | `AlwaysInOrder` | asts disabled with one queued; one more arrives as they are enabled and runs first (`ref/async:97-99`: those queued "are executed first") |
| `AstQueueGc.cfg` | `NothingParked` | a collection while `Raise_astp` conses runs a scan that resets `_ast_queue_flags`; a blocked ast is then parked |
| `OsChildrenWindow.cfg` | `AstRuns` | a child dies between `pop_fork` and its entry (`sysfork.p:83`, `131`); the check point of a collection spends the signal; its ast never runs unless some later scan comes |
| `OsChildrenCons.cfg` | `NoFalseRefusal`, `ReturnsWaitable` | a trap runs inside `proc :: os_process_list -> os_process_list` (`os_process.p:34`): an entry it adds is lost, one it removes comes back |
| `PopTimerFork.cfg` | `NoEntryLost` | cancelling all timers in a child (`pop_timer.c:714`) leaks their entries |
| `SysTimerStale.cfg` | `ExpiryOwnsSlot` | a repeating timer is cancelled with an expiry in the ring (`sys_timer.p:94`); the slot's next owner is run by it |
| `AsyncIo.cfg` with `INVARIANT NoInputMissed` | `NoInputMissed` | within a call, input arrives between `select` (`c_core.c:1193`) and `FIOASYNC` |
| `AsyncIo.cfg` with `INVARIANT CtrCountsOn` | `CtrCountsOn` | SIGIO between the test and the change of `async_on_fds` (`c_core.c:1171`): the counter goes below the number of bits |
| `AsyncIo.cfg` with `INVARIANT NoInputMissedByFork` | `NoInputMissedByFork` | the child turns SIGIO off for the parent (`c_core.c:1336`) |
| `ScrTextStatus.cfg` | `Shown` | a status line set apart (`XtNstatusStyle`), and the text scrolled down from it, as `ScrollScreenDown` does (`Text.c:2075`): row 0 is copied by itself and first (`Text.c:2035-2043`), so that row 1 is overwritten in the window before it is copied to row 2, while the buffers have moved as they should |
| `XpwWidgetsAny.cfg` | `Mirror` | a widget copies from one whose window is partly covered, or from cells its source does not have: the server fills pixmap and window differently |
| `XpwWidgetsAny.cfg` | `PixmapsOwned` | a pixmap given to a widget whose status is none: the widget neither uses nor frees it, and forgets it with the next (`XpwPixmap.c:516-568`) |
| `XpwWidgetsAny.cfg` | `NoBadRequest` | a method that draws in the window of a widget before it is realized |
| `XpwWidgetsAny.cfg` | `ColoursSound` | `XtSetValues` of a colormap frees the old one last, which gives the window the default one (`XpwGraphic.c:231-248`) |
| `ScrWidgetAny.cfg` | `ColoursCurrent` | on a monochrome screen the cursor's context is not made again when the first alternative colour changes; a main font made equal to an alternative one leaves contexts of a font that is gone (`XpwScrText.c:749`) |
| `ScrWidgetAny.cfg` | `ClicksTold` | clicks in two widgets within the multi-click time share the buffer: told to the wrong one |
| `ScrWidgetAny.cfg` | `FocusSound` | the window itself gets the focus with the pointer in it: `PTR_FOCUS` stays behind |
| `ScrWidgetAny.cfg` | `SelectionSound` | a widget takes the selection back from another: losing it frees the context just set (`Text.c:2863`) |

The passing runs of the same module exclude the cause of each; this is how far
the promise holds:

- by a constant: `GcInFork`, `HandlerForks`, `MainOps`, `HandlerOps`, `Forks`,
  one timer instead of two. With `OsChildrenAsts` every child has an ast, since one
  without ends the drain loop. `Hasty = FALSE` in `SysTimer` is a program that
  passes a check point between the cancellation of a repeating timer and the
  next setting of any;
- by `Tame` of `AstQueueProofs` (no collection inside the dispatch; handlers do
  not enable signals, catch mishaps or leave by a non-local exit; no program
  switches asts off or assigns `pop_ast_queue`), of which `AstQueue.cfg` is an
  instance;
- by `Tame`, `TameColours`, `TameButtons`, `TameFocus` and `TameSelections` in the
  modules of the widgets, the calls in the table, which the comments of the
  modules list (`XpwWidgets` and `ScrText`: in their guards; those of `XpwWidgets`
  are in words under [what is not modelled](#what-is-only-model-checked-and-what-is-not-modelled)). `Late` in `ScrText`
  holds the kinds of events a program may leave unread when it calls a method;
- by the property: `InputAnnounced` and `Served` except the devices whose SIGIO a
  forked child has turned off, which the history variable `robbed` remembers, and
  say nothing once input or SIGIO has come within a call (`intruded`).
  `UncheckedAnnounced` and `CheckedAgain` hold without exceptions.

Deadlock is checked for `AstRing` and `OsChildren`, which never stop. The other
models count events, time or calls up to a bound and do stop there.

## Bounds

- `AstRing`: four slots and three asts. Three waiting asts and the wrap of each
  pointer in every position; the theorems remove the bound.
- `AstQueue`: two or three asts and signals, `MaxRaise` = 4 raises and
  `MaxOp` flag changes, mishaps, calls of setpop and external calls. Four raises give one handler running, a second inside
  it, one ast blocked by each and one more on top; the stack reaches any depth
  these allow.
- `OsChildren`: two children, which make signals coalesce, and lists change at
  the head and behind it while a scan is under way, with every combination of
  `will_do_wait` and ast for each.
- `PopTimer`: three entries and intervals of 0 (at once), 1 and 2 for one timer,
  two entries and intervals of 0 and 1 for both, two clock times. Three entries
  give an insertion at the head, between and at the end, and at equal times;
  within two clock times those of 0 and 1 expire, and those that repeat are put
  back among the others. At its bound the clock counts as past every deadline,
  so that the interval timer still fires.
- `SysTimer`: two slots and three owners (so that a slot is handed on and the
  table is full), `MaxRing` expiries waiting and `MaxDepth` activations.
- `AsyncIo`: two descriptors, `MaxArrivals` inputs, `MaxSwitches` calls of
  `sys_async_io`: on, off and on again with input in between. That is
  enough for SIGIO to come within calls about the one device and the other; the
  theorem removes the bounds.
- `ScrText`: three rows of two cells, two of which another window covers and
  uncovers once, texts that are plain, blink or are highlighted, `MaxOps` = 2
  calls between which everything else happens any number of times. Three rows
  are what a rotation with rows left over needs, two cells an overlap within a
  row; the eight moves go through every branch of `Scroll`, with one copy and with
  two. The theorems remove the
  bounds: any sizes, texts and areas, all moves that keep to the text
  (`MethodAssumption`), and any number of calls.
- `XpwWidgets`: a graphic and a pixmap widget of one or two cells, `MaxOps` = 3
  calls after creation (realization, destruction, exposure and covering are not
  counted), four pixmaps, three contexts, three colormaps. Three calls are
  enough for a resource to be given, replaced and freed by something else. The
  theorems remove these bounds. What they assume of the server is that it has a
  context, a pixmap and a colormap more than there are widgets (`GCAssumption`,
  `PixmapAssumption`, `ColormapAssumption`), finitely many colour cells
  (`CellAssumption`), and of the looks of cells that one never drawn in
  (`Junk`) is told from all that are drawn, inverted or not (`LookAssumption`).
- `ScrWidget`: colours: any number of changes among 20 that touch every branch
  of `ScrollTextSetValues`; buttons: two widgets, two buttons, a multi-click time
  of two ticks, `MaxClicks` = 2, a timer `MaxLate` = 1 tick late; focus:
  `MaxEvents` = 3 events on their way; selections: three widgets and another
  client, two strings, any number of calls.

`AstQueue` uses `AstFifo` with a place for each raise and each check, so the ring does not overflow
there; what an overflow does is `AstRing`'s question.

## Fairness

Safety is checked without fairness. Liveness assumes:

- weak fairness of each procedure's next step: the Pop thread and C code run on;
- for `Deliver` (signals) weak fairness, or strong fairness in `PopTimer` where
  the signal is blocked again and again by calls: the kernel delivers a pending
  signal as soon as it is unblocked;
- in `PopTimer`, strong fairness of `Tick` and `Fire`: time passes and the
  kernel's timers fire whatever the program does. The model stops time only
  while a timer is being set, and a program that keeps calling `pop_timer`
  must not be able to stop it altogether;
- strong fairness of `Trap` (`OsChildren`) and `TakeAst` (`AsyncIo`): an ast is
  taken at the first check point with `_trap` set, while the models let the
  thread pass some; what they allow is weaker than what the code does;
- that a handler returns (`AstQueue`, `AsyncIo`): user code that never returns
  stops everything below it;
- in `OsChildren`, that the poll of `pause_popintr` ends, which its 100 ms
  timeout guarantees.
- in `MCScrWidget`, weak fairness of `Tick` and `TimerExpires`: time passes, and
  the Intrinsics call a timer that is due from the event loop (`Tick` may make
  it late, by `MaxLate`).

Nothing is assumed of programs: children need not die, nor timers be set.

## What is proved

Each module of proofs extends the modules it is about. The theorems hold for
every value of the constants that the named assumption of the module allows: any
number of asts, children, timers, entries, slots, devices or widgets, stacks and
queues of any length, and any bounds, which the runs fix. A theorem has a
hypothesis where the property is false without one, and a configuration above
shows that it is.

| Theorem | Property | Hypothesis | Needed, see |
|---|---|---|---|
| `AstQueueProofs!TypeCorrect` | `RingTypeOK` | | |
| `AstQueueProofs!Announced` | `PendingAnnounced`, a part of what `AstFifo` promises | | |
| `AstQueueProofs!RingImplementsFifo` | `ImplementsFifo` | | |
| `AstQueueProofs!NeverReentered` | `NoReentry` | no handler enables a signal | `AstQueueLptr.cfg` |
| `AstQueueProofs!NeverMaskedForGood` | `MaskedWhileHandled` | the program does not set the flags of signals | the property says so |
| `AstQueueProofs!DispatchIsSound`, `NothingIsParked`, `RunInOrder` | `DispatchSound`, `NothingParked`, `InOrder` | `Tame` | `AstQueueLptr.cfg`, `AstQueueExit.cfg`, `AstQueueGc.cfg`, `AstQueueOrder.cfg`, `AstQueueClear.cfg`; without any one conjunct of `Tame`, TLC finds `DispatchSound` violated |
| `AstClientProofs!NoChildLost`, `NoStatusLost`, `RefusesRightly` | `ChildrenListed`, `StatusKept`, `NoFalseRefusal` | no ast that forks runs at the check point of a collection inside `sys_fork` | `OsChildrenCons.cfg` |
| `PopTimerProofs!EntriesAreSound`, `NeverTooEarly`, `QueuesInOrder` | `EntriesSound`, `NeverEarly`, `SoonestFirst` | | |
| `PopTimerProofs!QueueIsSound` | `QueueSound` | one timer, no fork | `PopTimerTwo.cfg`, `PopTimerFork.cfg` |
| `AstClientProofs!NoSlotLost` | `SlotsSound` | | |
| `AstClientProofs!OneOwner` | `OwnersSound` | `~Hasty` | `SysTimerStale.cfg` |
| `AstClientProofs!UncheckedIsAnnounced` | `UncheckedAnnounced` | | |
| `ScrWidgetProofs!SelectionsSound` | `SelectionSound` | `TameSelections` | `ScrWidgetAny.cfg` |
| `ScrWidgetProofs!FocusIsTold`, `FocusInvariant` | `FocusSound` | `TameFocus` | `ScrWidgetAny.cfg` |
| `ScrWidgetProofs!TimersSound` | `TimerSound` | | |
| `ScrWidgetProofs!EveryClickTold` | `ClicksTold` | `TameButtons` | `ScrWidgetAny.cfg` |
| `ScrWidgetProofs!ColoursAreCurrent` | `ColoursCurrent` | `TameColours` | `ScrWidgetAny.cfg` |
| `ScrTextProofs!TextRowsSound`, `TextWaitAnswered` | `RowsSound`, `WaitAnswered` | | |
| `ScrTextProofs!TextCursorKept` | `CursorKept` | `Tame` of `ScrText` | its guard in `DoBlink`, below |
| `ScrTextProofs!TextShown` | `Shown` | `Tame`, and no answer but NoExpose in `Late` | `ScrTextStatus.cfg`, and the limits of the text, below |
| `XpwWidgetProofs!ContextsOwned` | `GCsOwned`, the part of `GCsSound` about contexts | | |
| `XpwWidgetProofs!AttributesImplemented` | `ImplementsAttributes` | | |
| `XpwWidgetProofs!WindowsMirror`, `PixmapsHaveOwners`, `ColoursHaveOwners`, `RequestsAreGood` | `Mirror`, `PixmapsOwned`, `ColoursSound`, `NoBadRequest` | `Tame` of `XpwWidgets` | `XpwWidgetsAny.cfg` |
| `XpwWidgetProofs!WidgetsSound` | `GCsSound` | the same, for the types of pixmaps and colours only | |

How they are proved:

- `AstRing`. `RingTypeOK` is inductive because it contains that every waiting slot
  holds an ast: a removal only shortens the waiting range, and an addition
  extends it by the slot just written, moving the range by one when the ring is
  full. Lemma `SlotOfType` says that no waiting slot is the one written,
  `AddShape` and `RemShape` how the range moves. `PendingAnnounced` is inductive
  as it stands. The refinement maps `fifo` to the waiting slots in order;
  `AddRefines` and `RemRefines` map each action to one of the queue.
- `AstQueue`. `NoReentry` and `MaskedWhileHandled` are about the stack of
  activations, and every action changes it in one of few ways: by activations that are no part of
  running a handler (`Alike`), by starting a handler, by leaving one, or by
  unwinding. The invariant `StackSound` adds to `NoReentry` what makes it
  inductive: an item being entered is not on the stack either (`Separate`, which
  looks at `Raise_astp` too), a signal is disabled while its handler is on the
  stack (`HandledMasked`), and a `setpop` that will reset has nothing below it.
  `Released` is the converse of `HandledMasked`, and the part that needs the
  program to leave the flags alone.

  The other three properties relate the stack to the queue. Their invariant,
  `DispatchInv`, is built on one idea: what a scan has passed is blocked from below
  the scan (`Below`), by a handler or an external call that is still on the stack
  when the scan is on top again, or by a flag that nothing above it sets. So it
  stays on the queue while the scan lasts, and with it the pair at `lptr`
  (`ScansSound`). The same blocked asts are `Accounted` for: what will unblock each of
  them resets `_ignore_ast_queue` through `_ast_queue_flags`, the return from the
  signal's handler, or an `AST_QUEUE_CHECK` in the ring; which holds for all that
  the innermost scan has passed (`Looked`), hence for the whole queue when it sets
  `_ignore_ast_queue` (`IgnoreAccounted`). `QueueSound` and `AddsSound` are about the
  links, `ClearsSound` about mishaps and setpop. `CountSound` says that the ring has
  room for what is still to come, and that what is on it has been raised: each
  activation weighs as many checks as it may still put there (`Total`, a sum that
  is stated without recursion). An action is described once by how it moves
  the stack (`Moved`) and each conjunct is shown to survive such a move. `FollowInv`
  adds what the other two need: whoever will look at the queue (`Starter`) is under
  every handler (`StartsSound`), a queue that is not to be ignored has a starter or
  a check (`DueSound`), the queue is sorted by the numbers of the raises
  (`SortedSound`), and an astp about to start has no earlier raise on the queue
  but one of an external call whose check is in the ring (`EntersSound`).
- `OsChildren`. `IInv` adds: each SIGCHLD that is pending or in the ring stands
  for a death of its own (which bounds `asts`); the child between `pop_fork` and
  its entry is on no list, and the list it will be consed onto still holds
  everything (`ForkingSound`; what a trap has reaped meanwhile comes back with
  it, which does no harm to these properties); where the thread is while a trap
  scans; that only forked children are listed or waited for; and that an entry
  keeps its flag as long as its child may be asked for. `RefusesRightly` is an
  action property and follows from the same invariant.
- `PopTimer`. `IInv`, for any timers: what an interrupted call holds in hand (an
  entry on no list, and the chain it will link it to) and how two activations
  stacked on each other stay out of each other's way (`ActSound`, `PairSound`).
  The chain a call has in hand is part of the free list, so that an entry may be
  lost but is never on two lists. `Near` bounds times. The order of the queues
  needs no more than that the times of what is queued do not change. With one
  timer, `Lists` and `Arming` say where the missing entry is, and that the timer is
  armed or about to be, at every program counter.
- `SysTimer`. `SlotInv`: a slot is on the chain, once, exactly if it is free, and
  a slot marked as repeating has an entry that repeats. That is enough, so that no
  program can lose a slot, hasty or not. `OwnersSound` needs to know of expiries
  in the ring as well (`RingSound`): one of a timer that does not repeat is the
  only trace of its slot, one of a repeating timer may be stale only while the
  slot is free.
- `AsyncIo`. `InputInv`, with signals between any two statements: each device
  that asynchronous input is on for and that is not checked is told of, by an ast
  in the ring or by a trap that has not read yet (`Kept`). During a call this
  holds of all devices but the call's own (`Underway`), and of that one from the
  statement on that sets its bit (`Marked`): SIGIO may clear the bit again, but
  then puts the ast on the ring. A trap that reads is no longer a promise, and
  what it does next is to turn the checking on. Of the counter and of what
  `FIOASYNC` misses the theorem says nothing.
- ScrollText. The selection: there is one context for the owner, with what it has
  set, and at most one free one. The focus: the events on their way account for
  the difference between the flags and the server (`QueueSound`: the last one
  about the pointer tells the truth, and one about visibility has one about the
  pointer behind it if the pointer matters), and a widget that has focus
  flags but has not told its client is not viewable, or will hear of it. The
  buttons: `ButtonInv` relates the times of the buffer to how long the button has
  been down (`BuffSound`), so that the second timer cannot expire before twice
  the multi-click time, late timers included; `ClicksInv` says that all that is
  owed is in the buffer and that the buffer belongs to the widget the pointer
  is in. `ButtonAssumption` excludes a multi-click time of 0, with which a button
  would be held as soon as it is pressed. The colours: a context that
  `ScrollTextSetValues` does not make anew is the one the new resources give
  (`ContextSame`), a shadow likewise (`ShadowSame`). `ColourInv` adds that the two
  fonts drawn with differ, without which `SetupFonts` could drop one whose font set
  has not changed. `ColourAssumption` says which resources a call may change.
- The text of ScrollText. `TextInv` is `TextSound` and, for programs that are
  `Quiet`, `PictureOf` the widget. `TextSound` holds whatever the program does:
  the types, rows with buffers of their own, blinking text noted in its row and in
  the range of rows (`RowsIn`), and as many answers in the queue as are waited
  for, two at most. `PictureOf` has three parts. `Good`: a visible cell shows the text, or is
  blank and in an exposure that is queued. `SegmentSound`: characters of a highlighted
  word are all in the segment or all out of it, which is what lets `ClearOnActive`
  and `TestActiveChange` redraw runs of them. `QueueOf`: the widget knows whether
  it is covered, or the last event about that will tell it (`VisKnown`); a NoExpose
  stands for a copy that lost nothing (`NoneLost`); and either nothing is waited
  for and no copy is queued behind other events (`Settled`), or the answers waited
  for are the next events (`Awaited`), without which the exposures in front of them
  would be drawn at the wrong place. Procedures are described by what they leave
  alone (`SameText`, `SameCursor`, `SameFrame`) and by `Refreshed`: each cell is
  as before or as it should be, so that redrawing can only improve a picture.
  The string of `DrawString` and the runs of `DrawRowSequences` are chosen by
  attributes; `StartOf` finds the run of a cell. Copies are followed cell by cell:
  `CopyRows` is a recursive function, and its steps keep the rows that are still to be read as they
  were, whichever way it goes (`CopiedChars`); the window moves with the buffers, in one copy or in
  two whose rows the first has not touched (what `Tame` asks of a status line),
  but for the cells the server could not read, which become the exposure of its
  answer.

- Graphic widgets, contexts. `GCInv` adds to `GCsOwned` the types of widgets and
  contexts, and needs nothing of programs. Whatever a procedure does to contexts
  is one of four changes (`UsesChange`, `OwnContext`, `SharedContext`): the users
  of a context are counted before and after, and there is a free context as long
  as there are widgets (`FreeGCIsFree`). The refinement needs to know that the
  global values never reach a widget beyond the mask: `DrawnValues` says what
  Initialize and SetValues leave there, whatever was there before.
- Graphic widgets, display. `DisplayInv` is stated widget by widget: its pixmap
  (`OwnPixmap`: of its size, all drawn, nobody else's), its window
  (`OwnWindow`) and what the two have in common (`Mirrored`); the pixmaps of
  all others are a parameter of the first (`Others`). A procedure works on one
  widget, so that each lemma is about that one and a `Frame` which says that the
  rest is left alone; `OwnSound` puts the parts together. Inside XtSetValues and Resize the invariant
  does not hold: a pixmap is freed and made again before the window is drawn
  from it, and `SetPixmapValuesParts` and `ReconfiguredOwn` say which parts hold
  in between. Copying needs source and destination to read alike (`SourceLook`,
  `CopiedSound`).
- Graphic widgets, colours. `ColourInv` says that the books balance: the cells
  allocated at the server are those in the lists and those of
  `AllocStoreColor` (`Accounted`), in one place each (`Disjoint`, `Apart`), every range is of a
  live colormap (`RangesLive`), and every colormap is that of its widget
  and of its window (`MapsLive`, `MapsPrivate`, `WindowsHaveMaps`), on whose list
  alone its ranges are (`OwnRanges`). `_XpwFreeColormap` unlinks ranges while it
  walks along the list; the walk is a recursive function, and
  `OneVisited` and `FreeColorsOfDone` follow it by induction over its steps:
  what it has passed is not of the colormap, and the books balance after each.

`SequenceLemmas` holds the facts about the operators of `SequencesExt` and about
finite sets of naturals that several of these need.

## What is only model-checked, and what is not modelled

Only model-checked: `ImplementsGrid` of `ScrText`, and `InputAnnounced` of
`AsyncIo`, which says nothing once a signal has come within a call (its parts are
false then, see the table). For the grid: for the moves of the run the
buffers are a grid of characters; for others the buffers themselves differ from
it (`copy_row_chars`, below), so that a theorem would need a narrower promise. Liveness (`Settles`, `AstRuns`,
`WaitEnds`, `Expires`, `Served`, `CheckedAgain`, `BufferFlushed`) stays with TLC, since the prover
does not reason about fairness. Induction over data is out of reach in general, as
the provers cannot instantiate the library's induction theorems; `SequenceLemmas`
does without, by the least element of a set of naturals (`NatSetInduction`,
`IteratesExist`).

Not modelled, within the components above:

- In the dispatch: vectors as signal flags; assigning a list other than `[]` to
  `pop_ast_queue`; the stack-length check after handlers, which mishaps; `dlocal`
  exit code that takes control while setpop unwinds; abnormal exits that return
  into external code; the wakeup of the Xt wait state (`signals.p:375`). A mishap
  is modelled as one that the user code around it catches; one that nothing
  catches ends in `Setpop`, or in `ExitHandler`.
- In `pop_timer`: returning the time that remains, jumps of the real clock, the
  half clock interval by which expiry is rounded (a clock interval is the unit).
- In `sys_timer`: `Clear_timers`, and sleeping. C timers are an abstract set
  there; that C keeps its promise is `PopTimer`'s subject, without the composition.
- In the children: `sys_vfork`, a failing fork, Windows. `waitpid` interrupted
  by a signal is repeated, which the model leaves out.
- In asynchronous input: conditions 1 and 2, a read that leaves input behind or
  waits for it, changes of the pointers `async_maxfd`. The counter's increment is
  taken for one instruction, as compilers for the supported processors make it.
- In the text of ScrollText: variable width, a blinking cursor, `no_blink`,
  `WriteTrailSpaces`, `no_draw_mode`, a status line set apart or put back by
  `XtSetValues` (it is chosen when the widget is created), a second widget in the chain of those that
  blink, callbacks that call methods. Known limits, excluded: text
  that moves down over itself from a status line set apart is wrong in the window
  (`ScrTextStatus.cfg`); `DoBlink`
  overwrites `did_cursor` with each row (`Text.c:1337`), so that the cursor stays off
  if text blinks in its row and in one below; when a block of columns moves up or
  down from a row that ends before the first of them, `copy_row_chars` cuts
  off what the row it moves to has right of the block, in the buffer but not in the
  window (`Text.c:1621-1675`); a highlighted row
  that is scrolled or written in leaves inverted cells; deleting more characters
  than follow the cursor clears what is before it (`Text.c:2679-2694`); an
  Expose event, or a change of visibility, that comes while a copy waits for its
  answer can leave cells undrawn (`XpwScrText.c:1836-1856`); scrolling by two or
  more rows past an edge gets a negative size.
- In the graphic widgets: loading of fonts, cursors and pixmaps, `XtNusersGC`,
  callbacks, geometry of shapes. Known limits, excluded: the pixmap
  `XtUnspecifiedPixmap` replaced by another is freed; a pixmap given to a widget
  with status none never is; a widget that has a pixmap is given none; the
  tiling changes as the pixmap of a widget that had none is switched on; a
  colormap is given to a widget without a window, or that has one of its own;
  a method draws in a window before it is realized; cells are copied from a
  window that is partly covered or from outside the source; the cut methods do nothing in a graphic widget
  whose pixmap alone is drawn in; a range of one colour divides by zero; pixel 0
  and the cells of `AllocStoreColor` are never freed; two widgets given one
  colormap free it twice.
- In the rest of ScrollText: the geometry half of `XtSetValues`, background
  pixmaps, the shape of the pointer, the text of keys, targets of a selection
  other than the string. Known limits, excluded: the timer outlives its widget; a
  button released while the window is not visible is not told; keys flush the
  clicks of the keyboard's widget; a focus callback that switches the cursor has
  its change written over; `XtOwnSelection` refused frees the context of another
  widget.

Other components are listed in the inventory with the reasons in `PROJECT.json`.
