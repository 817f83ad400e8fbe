------------------------------ MODULE ScrFocus ------------------------------
(***************************************************************************)
(* What a ScrollText widget knows of the keyboard focus (EventHandler of   *)
(* XpwScrText.c): it can have the focus itself, through the pointer being  *)
(* in it, and by being given it by the Intrinsics.  The client is told of  *)
(* changes, but not while the window cannot be seen, and the cursor is     *)
(* drawn as a solid one while the widget has the focus.                    *)
(*                                                                         *)
(* The server's side is external: the focus is on a window above the       *)
(* widget's or elsewhere; events are queued in the order they happen in.   *)
(* XtSetKeyboardFocus makes its events at once.                            *)
(***************************************************************************)
EXTENDS Naturals, Sequences, SequencesExt

CONSTANTS
    MaxEvents,      \* events queued at once
    TameFocus       \* the widget's window is not focused itself; callbacks leave the cursor

VARIABLES
    fw,             \* flags of the widget, the cursor as drawn, and what the client heard
    server          \* focus, pointer, visibility, the keyboard's widget and the queue

focusvars == <<fw, server>>

HAVE_FOCUS == {"ACT_FOCUS", "PTR_FOCUS", "SYN_FOCUS"}
Have(flags) == flags \cap HAVE_FOCUS # {}
Shape(flags) == IF "CURSOR_ON" \notin flags THEN "off" ELSE IF Have(flags) THEN "solid" ELSE "hollow"

(* _XpwTextCursorOn: drawn only if it is not drawn already. *)
TextCursorOn(u, on) ==
    LET flags == IF on THEN u.flags \cup {"CURSOR_ON"} ELSE u.flags \ {"CURSOR_ON"}
    IN IF on = ("CURSOR_ON" \in u.flags) THEN u ELSE [u EXCEPT !.flags = flags, !.drawn = Shape(flags)]

-----------------------------------------------------------------------------
(* Bugs a maintainer could introduce, here and below: the pointer always   *)
(* brings the focus with it.                                               *)
FlagOfPointer(e) ==
    CASE e.type \in {"FocusIn", "FocusOut"} -> e.kind
      [] e.type \in {"EnterNotify", "LeaveNotify"} -> "PTR_FOCUS"
      [] OTHER -> "none"

(* Which flag an event is about, and how it changes it; "none" for events  *)
(* that say nothing of the focus.                                          *)
FlagOf(e) ==
    CASE e.type \in {"FocusIn", "FocusOut"} -> e.kind
      [] e.type \in {"EnterNotify", "LeaveNotify"} -> IF e.focus THEN "PTR_FOCUS" ELSE "none"
      [] OTHER -> "none"
Comes(e) == e.type \in {"FocusIn", "EnterNotify", "VisibilityNotify"}

FocusCallback(u, have) ==
    [u EXCEPT !.flags = IF have THEN @ \cup {"CALLBACK_YES"} ELSE @ \ {"CALLBACK_YES"},
              !.heard = have,
              !.again = have /\ u.heard]

(* A change of the focus: the cursor is redrawn in its other shape, and    *)
(* the client told, if it is not that a window that cannot be seen has     *)
(* got the focus.                                                          *)
FocusChanged(u, flags, viewable) ==
    LET off == TextCursorOn(u, FALSE)
        w == TextCursorOn([off EXCEPT !.flags = flags \ {"CURSOR_ON"}], "CURSOR_ON" \in u.flags)
    IN IF Have(flags) /\ ~viewable THEN w ELSE FocusCallback(w, Have(flags))

(* No change, but perhaps the client has not been told yet. *)
SameFocus(u, flags, e) ==
    LET w == [u EXCEPT !.flags = flags]
    IN IF ~Comes(e) \/ "CALLBACK_YES" \in flags THEN w
       ELSE IF e.type # "VisibilityNotify"
       THEN IF "SYN_FOCUS" \in flags THEN [w EXCEPT !.flags = @ \ {"PTR_FOCUS"}] ELSE w
       ELSE FocusCallback(w, Have(flags))

(* cursor: what the client's callback for the active segment does with the *)
(* cursor when the pointer leaves; the flags have been read before it.     *)
Handled(u, e, viewable, cursor) ==
    LET v == IF e.type = "LeaveNotify" /\ cursor # "as it is" THEN TextCursorOn(u, cursor = "on") ELSE u
        f == FlagOf(e)
        flags == IF f = "none" THEN u.flags ELSE IF Comes(e) THEN u.flags \cup {f} ELSE u.flags \ {f}
    IN IF f = "none" /\ (e.type # "VisibilityNotify" \/ ~Have(u.flags) \/ "CALLBACK_YES" \in u.flags)
       THEN v
       ELSE IF Have(flags) # Have(u.flags) THEN FocusChanged(v, flags, viewable)
       ELSE SameFocus(v, flags, e)

EventHandler ==
    /\ server.queue # <<>>
    /\ server' = [server EXCEPT !.queue = Tail(@)]
    /\ \E cursor \in IF TameFocus THEN {"as it is"} ELSE {"as it is", "on", "off"} :
        fw' = Handled([fw EXCEPT !.again = FALSE], Head(server.queue), server.viewable, cursor)

(* XtSetKeyboardFocus on a window above, and off it: an event is made up   *)
(* and handled.                                                            *)
KeyboardFocus ==
    /\ server' = [server EXCEPT !.keyboard = ~@]
    /\ fw' = Handled([fw EXCEPT !.again = FALSE],
                     [type |-> IF server.keyboard THEN "FocusOut" ELSE "FocusIn", kind |-> "SYN_FOCUS"],
                     server.viewable, "as it is")

(* The client switches the cursor. *)
CursorSwitched ==
    /\ fw' = TextCursorOn([fw EXCEPT !.again = FALSE], "CURSOR_ON" \notin fw.flags)
    /\ UNCHANGED server

-----------------------------------------------------------------------------
(* The server (external). *)
Happens(now, events) ==
    /\ Len(server.queue) + Len(events) <= MaxEvents
    /\ server' = [now EXCEPT !.queue = @ \o events]
    /\ UNCHANGED fw

Crossing(type) == <<[type |-> type, focus |-> server.focus # "elsewhere"]>>
Focus(type, kind) == <<[type |-> type, kind |-> kind]>>

(* Of the windows below the focus, those with the pointer are told. *)
FocusMoves(to) ==
    /\ to # server.focus
    /\ Happens([server EXCEPT !.focus = to],
         CASE to = "window" -> Focus("FocusIn", "ACT_FOCUS")
           [] server.focus = "window" -> Focus("FocusOut", "ACT_FOCUS")
           [] OTHER -> IF server.inside
                       THEN Focus(IF to = "above" THEN "FocusIn" ELSE "FocusOut", "PTR_FOCUS")
                       ELSE <<>>)

PointerMoves ==
    /\ server.viewable
    /\ Happens([server EXCEPT !.inside = ~@],
               Crossing(IF server.inside THEN "LeaveNotify" ELSE "EnterNotify"))

(* A window above is unmapped, or mapped under the pointer or elsewhere. *)
Unmap ==
    /\ server.viewable /\ server.focus # "window"
    /\ Happens([server EXCEPT !.viewable = FALSE, !.inside = FALSE],
               IF server.inside THEN Crossing("LeaveNotify") ELSE <<>>)

Map(inside) ==
    /\ ~server.viewable
    /\ Happens([server EXCEPT !.viewable = TRUE, !.inside = inside],
               <<[type |-> "VisibilityNotify"]>>
                   \o IF inside THEN Crossing("EnterNotify") ELSE <<>>)

InitFocus ==
    /\ fw = [flags |-> {}, drawn |-> "off", heard |-> FALSE, again |-> FALSE]
    /\ server = [focus |-> "elsewhere", inside |-> FALSE, viewable |-> FALSE, keyboard |-> FALSE,
                 queue |-> <<>>]

NextFocus ==
    \/ EventHandler \/ KeyboardFocus \/ CursorSwitched
    \/ \E to \in {"above", "elsewhere"} \cup IF TameFocus THEN {} ELSE {"window"} : FocusMoves(to)
    \/ PointerMoves \/ Unmap \/ \E inside \in BOOLEAN : Map(inside)

-----------------------------------------------------------------------------
(* When all events are handled and the window can be seen, what the client *)
(* heard last is whether the widget has the focus, and that is the truth   *)
(* (EventHandler).                                                         *)
FocusTold ==
    server.queue = <<>> /\ server.viewable => fw.heard = Have(fw.flags)

FocusTrue ==
    server.queue = <<>> =>
        Have(fw.flags) = (server.keyboard \/ (server.focus = "above" /\ server.inside))

(* The client is never told that it has the focus when it knows already    *)
(* (the flag CALLBACK_YES).                                                *)
ToldOnce == ~fw.again

(* The cursor on the screen is the one the flags say: there, and solid, or *)
(* not (EventHandler, _XpwTextCursorOn).                                   *)
CursorDrawn == fw.drawn = Shape(fw.flags)

(* What the client believes of the focus is the truth, it is told once, and *)
(* the cursor shows it.                                                     *)
FocusSound == FocusTold /\ FocusTrue /\ ToldOnce /\ CursorDrawn
=============================================================================
