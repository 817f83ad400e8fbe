----------------------------- MODULE ScrButtons -----------------------------
(***************************************************************************)
(* The mouse buttons of ScrollText widgets (XpwScrText.c).  A press is     *)
(* told to the client at once; what follows on the same button is kept     *)
(* back until the multi-click time has passed, to be told as so many       *)
(* clicks, or as a button that is held.  The buffer and its timer belong   *)
(* to all widgets of the program.                                          *)
(*                                                                         *)
(* Times are differences: lead is buff_expire_time - timer_expire_time,    *)
(* due the time until the timer of the Intrinsics expires, and late how    *)
(* long it has been expired without having been called.                    *)
(***************************************************************************)
EXTENDS Integers, SequencesExt

CONSTANTS
    TextWidgets, Buttons,
    MultiClick,     \* XtGetMultiClickTime, in ticks
    Positions,      \* the places of the mouse
    MaxClicks,      \* clicks kept back at once
    MaxLate,        \* how late a timer may be
    TameButtons     \* no other widget is used within the multi-click time

ASSUME ButtonAssumption ==
    /\ TextWidgets # {}
    /\ 0 \notin Buttons         \* which stands for no button
    /\ MultiClick \in Nat \ {0}
    /\ {MaxClicks, MaxLate} \subseteq Nat

VARIABLES
    buff,           \* buff_button, buff_nclicks, buff_mode and the times
    mouse,          \* the position the client was told last
    hand,           \* the buttons down, for how long, the pointer's widget and position
    owed,           \* presses and releases of each button, less those told of
    said            \* the last button callback

buttonvars == <<buff, mouse, hand, owed, said>>

NoButton == 0
NoTimer == -1
Empty == [button |-> NoButton, nclicks |-> 0, mode |-> "RELEASE", lead |-> 0,
          due |-> NoTimer, for |-> NoButton, late |-> 0]

Now(b) == IF b.due = NoTimer THEN 0 ELSE b.due - b.late   \* timer_expire_time less the time
LongAgo(n) == IF n < 2 * MultiClick THEN n + 1 ELSE n

-----------------------------------------------------------------------------
(* What a client is told comes out of an operation as a sequence: here the *)
(* number of clicks, the mode and the button, as in the callback's data.   *)
Tell(nclicks, mode, button) == <<[nclicks |-> nclicks, mode |-> mode, button |-> button]>>

(* Presses and releases a callback stands for. *)
Presses(c) == (IF c.nclicks = 0 THEN IF c.mode = "PRESS" THEN 1 ELSE 0
               ELSE c.nclicks - IF c.mode = "RELEASE" THEN 1 ELSE 0)
Releases(c) == IF c.nclicks = 0 THEN IF c.mode = "RELEASE" THEN 1 ELSE 0 ELSE c.nclicks

(* Bugs a maintainer could introduce, here and below: a held button is not *)
(* given time to be held.                                                  *)
ButtonTimeoutAtOnce(b, w) ==
    LET holds == b.lead <= 0 /\ b.nclicks = 0 /\ b.mode # "HOLD"
    IN IF b.button = NoButton THEN b
       ELSE IF b.lead > 0
       THEN [b EXCEPT !.lead = 0, !.due = b.lead, !.for = w]
       ELSE [b EXCEPT !.mode = IF holds THEN "HOLD" ELSE @, !.due = NoTimer]

(* button_timeout, up to its call of flush_button: the timer is started    *)
(* again if there is time left, and once more to see if a button is held.  *)
ButtonTimeout(b, w) ==
    LET holds == b.lead <= 0 /\ b.nclicks = 0 /\ b.mode # "HOLD"
        interval == IF holds THEN b.lead + MultiClick ELSE b.lead
        held == [b EXCEPT !.mode = IF holds THEN "HOLD" ELSE @]
    IN IF b.button = NoButton THEN b
       ELSE IF interval > 0
       THEN [held EXCEPT !.lead = b.lead - interval, !.due = interval, !.for = w]
       ELSE [held EXCEPT !.due = NoTimer]

(* Clicks are told only when the timer has expired; a button is told to be *)
(* held again and again.                                                   *)
FlushExpired(b, w, timed_out) ==
    [b |-> Empty,
     told |-> IF timed_out /\ b.nclicks # 0 THEN Tell(b.nclicks, b.mode, b.button) ELSE <<>>]

FlushRepeating(b, w, timed_out) ==
    [b |-> IF b.mode # "RELEASE" /\ timed_out
           THEN ButtonTimeout([b EXCEPT !.nclicks = 0, !.mode = "PRESS", !.due = NoTimer], w)
           ELSE Empty,
     told |-> Tell(b.nclicks, b.mode, b.button)]

(* flush_button: what was kept back is told, and a button that is down     *)
(* after clicks is waited for again.                                       *)
Flush(b, w, timed_out) ==
    IF b.button = NoButton THEN [b |-> [b EXCEPT !.nclicks = 0, !.mode = "RELEASE"], told |-> <<>>]
    ELSE IF b.nclicks # 0
    THEN [b |-> IF b.mode = "PRESS" /\ timed_out
                THEN ButtonTimeout([b EXCEPT !.nclicks = 0, !.due = NoTimer], w)
                ELSE Empty,
          told |-> Tell(b.nclicks, b.mode, b.button)]
    ELSE [b |-> Empty,
          told |-> IF timed_out /\ b.mode = "HOLD" THEN Tell(0, "HOLD", b.button) ELSE <<>>]

(* What is owed of button b when its client has been told of c. *)
Less(o, b, c) ==
    IF c.button # b THEN o
    ELSE [presses |-> o.presses - Presses(c), releases |-> o.releases - Releases(c)]

Owing(o, b, callbacks) ==
    LET left[i \in 0 .. Len(callbacks)] ==
            IF i = 0 THEN o ELSE Less(left[i - 1], b, callbacks[i])
    IN left[Len(callbacks)]

(* The client of w is told, and the rest of the step is done. *)
Told(w, callbacks, done) ==
    /\ owed' = [owed EXCEPT ![w] = [b \in Buttons |-> Owing(done[b], b, callbacks)]]
    /\ said' = IF callbacks = <<>> THEN said
               ELSE LET c == Last(callbacks)
                    IN [mode |-> c.mode, nclicks |-> c.nclicks,
                        down |-> IF c.button \in hand'.down THEN hand'.for ELSE 0]

Pressed(w, b) == [owed[w] EXCEPT ![b].presses = @ + 1]
Released(w, b) == [owed[w] EXCEPT ![b].releases = @ + 1]

-----------------------------------------------------------------------------
(* NotifyButtonEvent.  A press or a release of the button of the buffer is *)
(* kept back, anything else is told after what was kept back.              *)
ButtonPress(b) ==
    LET w == hand.in
        fl == Flush(buff, w, FALSE)
        kept == buff.button = b
    IN /\ b \notin hand.down
       /\ kept => buff.nclicks < MaxClicks
       /\ hand' = [hand EXCEPT !.down = @ \cup {b}, !.for = 0]
       /\ IF kept
          THEN /\ buff' = [buff EXCEPT !.mode = "PRESS", !.lead = MultiClick - Now(buff)]
               /\ Told(w, <<>>, Pressed(w, b))
               /\ UNCHANGED mouse
          ELSE /\ buff' = ButtonTimeout([fl.b EXCEPT !.button = b, !.mode = "PRESS",
                                                     !.lead = MultiClick, !.late = 0], w)
               /\ mouse' = hand.pos
               /\ Told(w, fl.told \o Tell(0, "PRESS", b), Pressed(w, b))

ButtonRelease(b) ==
    LET w == hand.in
        fl == Flush([buff EXCEPT !.lead = MultiClick - Now(buff)], w, FALSE)
    IN /\ b \in hand.down
       /\ hand' = [hand EXCEPT !.down = @ \ {b}]
       /\ IF buff.button = b /\ buff.mode # "HOLD"
          THEN /\ buff' = [buff EXCEPT !.nclicks = @ + 1, !.mode = "RELEASE",
                                       !.lead = MultiClick - Now(buff)]
               /\ Told(w, <<>>, Released(w, b))
               /\ UNCHANGED mouse
          ELSE /\ buff' = fl.b
               /\ mouse' = hand.pos
               /\ Told(w, fl.told \o Tell(0, "RELEASE", b), Released(w, b))

(* NotifyMotionEvent: the pointer of a buffered button may move, unless    *)
(* the button is being held; without a buffer the client is told.          *)
Motion(pos) ==
    LET w == hand.in
        dragging == hand.down # {}
        ignored == buff.button # NoButton
                    /\ ~(dragging /\ buff.mode = "HOLD" /\ pos # mouse)
        fl == Flush(buff, w, FALSE)
    IN /\ pos # hand.pos
       /\ hand' = [hand EXCEPT !.pos = pos]
       /\ IF ignored THEN UNCHANGED <<buff, mouse>> /\ Told(w, <<>>, owed[w])
          ELSE /\ buff' = IF dragging /\ buff.button # NoButton THEN fl.b ELSE buff
               /\ mouse' = pos
               /\ Told(w, IF dragging /\ buff.button # NoButton THEN fl.told ELSE <<>>, owed[w])

(* NotifyKeyboardEvent: the key comes after the buttons. *)
Key ==
    LET w == hand.in
        fl == Flush(buff, w, FALSE)
    IN /\ hand' = hand
       /\ buff' = fl.b
       /\ mouse' = hand.pos
       /\ Told(w, fl.told, owed[w])

(* The timer of the Intrinsics calls button_timeout. *)
TimerExpires ==
    LET b == ButtonTimeout([buff EXCEPT !.due = NoTimer], buff.for)
        fl == Flush(b, buff.for, TRUE)
    IN /\ buff.due = 0
       /\ hand' = hand
       /\ IF b.button # NoButton /\ b.due = NoTimer
          THEN buff' = fl.b /\ Told(buff.for, fl.told, owed[buff.for])
          ELSE buff' = b /\ Told(buff.for, <<>>, owed[buff.for])
       /\ UNCHANGED mouse

(* Time passes, and the timer may be late. *)
Tick ==
    /\ buff.due # NoTimer \/ hand.down # {}
    /\ buff' = CASE buff.due = NoTimer -> buff
                 [] buff.due > 0 -> [buff EXCEPT !.due = @ - 1]
                 [] OTHER -> [buff EXCEPT !.late = @ + 1]
    /\ buff'.late <= MaxLate
    /\ hand' = [hand EXCEPT !.for = LongAgo(@)]
    /\ UNCHANGED <<mouse, owed, said>>

(* The pointer goes to another widget; a button that is down keeps it in.  *)
EnterWidget(w) ==
    /\ hand.down = {} /\ w # hand.in
    /\ TameButtons => buff.button = NoButton
    /\ hand' = [hand EXCEPT !.in = w]
    /\ UNCHANGED <<buff, mouse, owed, said>>

InitButtons ==
    /\ buff = Empty
    /\ mouse \in Positions
    /\ hand = [down |-> {}, for |-> 0, in |-> CHOOSE w \in TextWidgets : TRUE, pos |-> mouse]
    /\ owed = [w \in TextWidgets |-> [b \in Buttons |-> [presses |-> 0, releases |-> 0]]]
    /\ said = [mode |-> "RELEASE", nclicks |-> 0, down |-> 0]

NextButtons ==
    \/ \E b \in Buttons : ButtonPress(b) \/ ButtonRelease(b)
    \/ \E pos \in Positions : Motion(pos)
    \/ \E w \in TextWidgets : EnterWidget(w)
    \/ Key \/ TimerExpires \/ Tick

-----------------------------------------------------------------------------
(* Whatever button is used when, the client of a widget learns of every    *)
(* press and release in it exactly once: all that is owed is in the        *)
(* buffer (flush_button, NotifyButtonEvent).                               *)
ClicksTold ==
    \A w \in TextWidgets, b \in Buttons :
        LET kept == IF w = hand.in /\ b = buff.button THEN buff.nclicks ELSE 0
        IN owed[w][b] = [presses |-> IF kept > 0 /\ buff.mode = "RELEASE" THEN kept - 1 ELSE kept,
                         releases |-> kept]

(* A button is told to be held only if it has been down for twice the      *)
(* multi-click time since it was pressed last (button_timeout).            *)
HoldIsHeld == said.mode = "HOLD" => said.down >= 2 * MultiClick

(* A timer runs exactly as long as something is kept back: there is none   *)
(* that would tell too early of the next press (flush_button).             *)
TimerForBuffer == (buff.button # NoButton) = (buff.due # NoTimer)

(* The timer of the buffer tells of a held button no earlier than it says  *)
(* and runs for no click that has been told (button_timeout).              *)
TimerSound == HoldIsHeld /\ TimerForBuffer

(* What is kept back of a button is told in the end (button_timeout). *)
BufferFlushed == \A b \in Buttons : (buff.button = b) ~> (buff.button # b)
=============================================================================
