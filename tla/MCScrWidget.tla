---------------------------- MODULE MCScrWidget ----------------------------
(***************************************************************************)
(* What ScrollText widgets remember between calls and events: contexts,    *)
(* buffered clicks, focus and selections.  The four parts have variables   *)
(* and calls of their own and no property relates two of them, so that a   *)
(* behaviour here moves one of them only, the one chosen at the start.     *)
(***************************************************************************)
EXTENDS ScrTextGC, ScrButtons, ScrFocus, Selections

VARIABLE aspect

vars == <<aspect, colourvars, buttonvars, focusvars, selectionvars>>

Apart(others) == UNCHANGED <<aspect, others>>
OfButtons == aspect = "buttons" /\ Apart(<<colourvars, focusvars, selectionvars>>)

Next ==
    \/ aspect = "colours" /\ NextColours /\ Apart(<<buttonvars, focusvars, selectionvars>>)
    \/ NextButtons /\ OfButtons
    \/ aspect = "focus" /\ NextFocus /\ Apart(<<colourvars, buttonvars, selectionvars>>)
    \/ aspect = "selections" /\ NextSelections /\ Apart(<<colourvars, buttonvars, focusvars>>)

Init ==
    /\ aspect \in {"colours", "buttons", "focus", "selections"}
    /\ InitColours /\ InitButtons /\ InitFocus /\ InitSelections

Spec == Init /\ [][Next]_vars /\ WF_vars(TimerExpires /\ OfButtons) /\ WF_vars(Tick /\ OfButtons)

-----------------------------------------------------------------------------
(* Resources: two pixels and three fonts.  The colours of the alternatives *)
(* are given or not, and some of them inverted by default.                 *)
FontsOf(main, alt) == [f \in Fonts |-> IF f = 0 THEN main ELSE alt]
NoAlt == [c \in 1 .. NAllColors - 1 |-> [fg |-> NoPixel, bg |-> NoPixel]]
Colour == [foreground |-> 1, background |-> 2, status_foreground |-> 2, status_background |-> 1,
           cursor_color |-> NoPixel, alt_colors |-> NoAlt, default_color_mask |-> {},
           draw_shadow_mask |-> {0}, monochrome |-> FALSE,
           fonts |-> FontsOf(0, 1), fontsets |-> FontsOf(0, 1)]
Monochrome == [Colour EXCEPT !.monochrome = TRUE, !.draw_shadow_mask = {},
                             !.default_color_mask = {0, 2}]
MCFirstResources == {Colour, Monochrome}

ToPixel(field) == {[f \in {field} |-> x] : x \in {1, 2}}
MCChanges ==
    UNION {ToPixel(f) : f \in {"foreground", "background", "status_foreground", "status_background"}}
    \cup {[foreground |-> 2, background |-> 1]}
    \cup {[cursor_color |-> x] : x \in {1, NoPixel}}
    \cup {[alt_colors |-> a] : a \in {NoAlt, [NoAlt EXCEPT ![1].bg = 1], [NoAlt EXCEPT ![1].fg = 2],
                                      [NoAlt EXCEPT ![2].fg = 2, ![3].bg = 1]}}
    \cup {[default_color_mask |-> m] : m \in {{}, {2}, {0, 3}}}
    \cup {[draw_shadow_mask |-> m] : m \in {{}, {0}}}
    \cup {[fontsets |-> FontsOf(p, q)] : p \in {0, 2}, q \in {0, 1, NoFont}}
=============================================================================
