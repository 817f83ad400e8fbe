---------------------------- MODULE MCXpwWidgets ----------------------------
(* A graphic widget w1 beside a pixmap widget w2, or another graphic one w3. *)
EXTENDS XpwWidgets, TLC

CONSTANTS w1, w2, w3

MCClass == [w \in Widget |-> IF w = w2 THEN "pixmap" ELSE "graphic"]

Initial == [status |-> "On", size |-> 1, pixmap |-> NullPixmap, tiled |-> FALSE]

MCInitArgs == {[Initial EXCEPT !.pixmap = "given"] @@ [foreground |-> 2],
               [Initial EXCEPT !.status = "HasNone"]}

(* And a pixmap given to a widget that shows none.                         *)
MCAnyInitArgs == MCInitArgs \cup {[Initial EXCEPT !.status = "HasNone", !.pixmap = "given"]}

MCArgs == {[foreground |-> 2, function |-> "invert"], [background |-> 3, status |-> "Only"],
           [status |-> "HasNone", tiled |-> TRUE], [status |-> "On", pixmap |-> "given"],
           [pixmap |-> UnspecifiedPixmap], [colormap |-> "new"]}

MCGCArgs == {[foreground |-> 2, function |-> "copy"]}
=============================================================================
