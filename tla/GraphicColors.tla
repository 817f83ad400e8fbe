--------------------------- MODULE GraphicColors ---------------------------
(***************************************************************************)
(* The colours of graphic widgets (Graphics.c, XpwGraphic.c): each widget  *)
(* remembers the ranges of colour cells it has allocated, with the         *)
(* colormap they are from, and frees them with that colormap or when it is *)
(* destroyed.  The methods do nothing while a widget shows its pixmap only. *)
(***************************************************************************)
EXTENDS PixmapMirror, Sequences, SequencesExt

CONSTANTS
    Colormap, DefaultColormap,
    Cell            \* the colour cells of a colormap, 0 among them

(* The server has a colormap for each widget and one more.                 *)
ASSUME ColormapAssumption ==
    /\ DefaultColormap \notin Colormap /\ NoWindow \notin Colormap \cup {DefaultColormap}
    /\ \A S \in SUBSET Colormap :
            IsFiniteSet(S) /\ Cardinality(S) <= Cardinality(Widget) => Colormap \ S # {}

ASSUME CellAssumption == IsFiniteSet(Cell) /\ Cell \subseteq Nat /\ 0 \in Cell

VARIABLE c      \* the colours: see InitColors

LiveColormaps(e) == DOMAIN e.cells
Private(e, w) == e.colormap[w] # DefaultColormap
FreshColormap(e) == CHOOSE m \in Colormap : m \notin LiveColormaps(e)

BadColor(e) == [e EXCEPT !.bad = TRUE]

(* XFreeColors, XFreeColormap, XSetWindowColormap. *)
FreeCells(e, m, cells) ==
    IF m \notin LiveColormaps(e) \/ ~(cells \subseteq e.cells[m]) THEN BadColor(e)
    ELSE [e EXCEPT !.cells[m] = @ \ cells]

XFreeColormap(e, m) ==
    IF m \notin LiveColormaps(e) THEN BadColor(e)
    ELSE [e EXCEPT !.cells = Without(@, m),
                   !.stored = {s \in @ : s.cmap # m}]

SetWindowColormap(e, w, m) ==
    IF e.window[w] = NoWindow \/ m \notin LiveColormaps(e) THEN BadColor(e)
    ELSE [e EXCEPT !.window[w] = m]

-----------------------------------------------------------------------------
(* _XpwFreeColors of the i-th range in the list; cell 0 is never freed. *)
FreeColors(e, w, i) ==
    LET range == e.allocated[w][i]
    IN [FreeCells(e, range.cmap, range.cells \ {0}) EXCEPT !.allocated[w] = RemoveAt(@, i)]

(* The walk along the list that frees the ranges of colormap m: what is    *)
(* left after n of them, and the next to look at.                          *)
Visited(s, w, m) ==
    IF s.left.allocated[w][s.at].cmap = m
    THEN [left |-> FreeColors(s.left, w, s.at), at |-> s.at]
    ELSE [left |-> s.left, at |-> s.at + 1]

FreeColorsOf(e, w, m) ==
    LET walk[n \in 0 .. Len(e.allocated[w])] ==
            IF n = 0 THEN [left |-> e, at |-> 1] ELSE Visited(walk[n - 1], w, m)
    IN walk[Len(e.allocated[w])].left

FreeAllColors(e, w) ==
    LET freed[n \in 0 .. Len(e.allocated[w])] ==
            IF n = 0 THEN e ELSE FreeColors(freed[n - 1], w, 1)
    IN freed[Len(e.allocated[w])]

(* Bugs a maintainer could introduce, here and below: the ranges of the    *)
(* colormap are left in the list.                                          *)
FreeColormapOnly(e, w) ==
    IF ~Private(e, w) THEN e
    ELSE SetWindowColormap([XFreeColormap(e, e.colormap[w]) EXCEPT
                                !.colormap[w] = DefaultColormap], w, DefaultColormap)

FreeColormap(e, w) ==
    LET v == FreeColorsOf(e, w, e.colormap[w])
    IN IF ~Private(e, w) THEN v
       ELSE SetWindowColormap([XFreeColormap(v, v.colormap[w]) EXCEPT
                                    !.colormap[w] = DefaultColormap], w, DefaultColormap)

CreateColormap(e, w) ==
    LET v == IF Private(e, w) THEN FreeColormap(e, w) ELSE e
        m == FreshColormap(v)
    IN SetWindowColormap([v EXCEPT !.colormap[w] = m, !.cells = With(@, m, {})], w, m)

(* A range of n cells; the server gives the lowest that are free, and none *)
(* of a colormap that has not so many.                                     *)
FreeCellsOf(e, m) == Cell \ e.cells[m]

LowestCells(e, m, n) ==
    CHOOSE s \in SUBSET FreeCellsOf(e, m) :
        Cardinality(s) = n /\ \A x \in s, y \in FreeCellsOf(e, m) \ s : x < y

AllocColorRange(e, w, n) ==
    LET m == e.colormap[w]
        cells == LowestCells(e, m, n)
    IN IF m \notin LiveColormaps(e) THEN BadColor(e)
       ELSE IF Cardinality(FreeCellsOf(e, m)) < n THEN e
       ELSE [e EXCEPT !.cells[m] = @ \cup cells,
                      !.allocated[w] = Append(@, [cmap |-> m, cells |-> cells])]

(* A single cell, that the widget does not remember. *)
AllocStoreColor(e, w) ==
    LET m == e.colormap[w]
        cell == CHOOSE x \in LowestCells(e, m, 1) : TRUE
    IN IF m \notin LiveColormaps(e) THEN BadColor(e)
       ELSE IF FreeCellsOf(e, m) = {} THEN e
       ELSE [e EXCEPT !.cells[m] = @ \cup {cell},
                      !.stored = @ \cup {[cmap |-> m, cell |-> cell]}]

-----------------------------------------------------------------------------
(* Realize gives the window the colormap of the widget. *)
RealizeColors(e, w) == [e EXCEPT !.window[w] = e.colormap[w]]

(* SetValues with a colormap the program has made.  The old one is freed   *)
(* last, which resets the colormap of the window.                          *)
SetColormap(e, w) ==
    LET m == FreshColormap(e)
        made == [e EXCEPT !.cells = With(@, m, {})]
        freed == FreeColormap(SetWindowColormap(made, w, m), w)
    IN [freed EXCEPT !.colormap[w] = m]

DestroyColors(e, w) ==
    LET freed == FreeAllColors(e, w)
        v == IF Private(e, w) THEN XFreeColormap(freed, e.colormap[w]) ELSE freed
    IN [v EXCEPT !.colormap[w] = DefaultColormap, !.window[w] = NoWindow]

InitColors ==
    c = [colormap |-> [w \in Widget |-> DefaultColormap],
         window |-> [w \in Widget |-> NoWindow],    \* colormaps of the windows
         allocated |-> [w \in Widget |-> <<>>],     \* allocated_colors
         cells |-> With(<<>>, DefaultColormap, {0}),          \* allocated at the server
         stored |-> {},                             \* of them, by AllocStoreColor
         bad |-> FALSE]

-----------------------------------------------------------------------------
TypeOKColors ==
    /\ LiveColormaps(c) \subseteq Colormap \cup {DefaultColormap}
    /\ \A w \in Widget : \A i \in DOMAIN c.allocated[w] :
        c.allocated[w][i].cells \subseteq Cell

(* A cell that a widget allocated is in one range of one widget's list     *)
(* until it is freed, which is before its colormap is (_XpwFreeColors).    *)
ColoursOwned ==
    /\ \A m \in LiveColormaps(c) :
        c.cells[m] \ ({0} \cup {s.cell : s \in {x \in c.stored : x.cmap = m}}) =
            UNION {UNION {range.cells \ {0} : range \in
                            {r \in Range(c.allocated[w]) : r.cmap = m}} : w \in Widget}
    /\ \A w, x \in Widget : \A i \in DOMAIN c.allocated[w], j \in DOMAIN c.allocated[x] :
        LET a == c.allocated[w][i]  b == c.allocated[x][j]
        IN /\ a.cmap \in LiveColormaps(c)
           /\ a.cmap = b.cmap /\ (a.cells \intersect b.cells) \ {0} # {} => w = x /\ i = j

(* A colormap lives as long as it is the one of its widget, and the window *)
(* of the widget has it (_XpwFreeColormap, CreateColormap, Destroy).       *)
ColormapsOwned ==
    /\ LiveColormaps(c) = {DefaultColormap} \cup {c.colormap[w] : w \in Widget}
    /\ \A w, x \in Widget : c.colormap[w] = c.colormap[x] => w = x \/ ~Private(c, w)
    /\ \A w \in Widget : c.window[w] # NoWindow => c.window[w] = c.colormap[w]
=============================================================================
