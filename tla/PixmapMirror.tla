---------------------------- MODULE PixmapMirror ----------------------------
(***************************************************************************)
(* Pixmap and graphic widgets (XpwPixmap.c, XpwGraphic.c, Graphics.c): what *)
(* is drawn in the window of a graphic widget is drawn in a pixmap of the  *)
(* same size too, from which the window is restored after an exposure.  A  *)
(* pixmap widget has the pixmap and no window.                             *)
(*                                                                         *)
(* An area is a row of cells; XpwCallMethod applies a method in the class  *)
(* graphic and then, unless the method is marked Cut, in the class pixmap. *)
(* Each operator here takes the state of the display and returns it as the *)
(* requests of one call leave it, in their order.                          *)
(***************************************************************************)
EXTENDS UsersGC, Integers

CONSTANTS
    Pixmap,             \* pixmaps of the server
    NullPixmap, UnspecifiedPixmap,
    NoWindow,
    Tile, Ink, Junk,    \* the look of a cell, other than a pixel: tiled, as in
                        \* an image, and in a pixmap never drawn in
    Covered             \* the cells another window may cover

(* The server has a pixmap for each widget and one more. *)
ASSUME PixmapAssumption ==
    /\ NullPixmap \notin Pixmap /\ UnspecifiedPixmap \notin Pixmap /\ NullPixmap # UnspecifiedPixmap
    /\ \A S \in SUBSET Pixmap :
            IsFiniteSet(S) /\ Cardinality(S) <= Cardinality(Widget) => Pixmap \ S # {}

(* Junk is no look that anything is drawn with, and stays what it is when  *)
(* it is inverted.                                                         *)
ASSUME LookAssumption ==
    /\ Pixel \cup {Tile, Ink, Junk} \subseteq Int
    /\ Junk \notin Pixel \cup {Tile, Ink} /\ 100 - Junk = Junk

VARIABLE d      \* the display: see InitDisplay

Graphic(w) == Class[w] = "graphic"
Cells(n) == 0 .. n - 1
All(e, w) == Cells(e.pm[w].size)

Created(e, w) == e.pm[w].size > 0
HasPixmap(e, w) == e.pm[w].status \in {"On", "Only"}
Realized(e, w) == e.win[w] # NoWindow
Visible(e, w) == All(e, w) \ (IF e.hidden THEN Covered ELSE {})

Bad(e) == [e EXCEPT !.bad = TRUE]

-----------------------------------------------------------------------------
(* Requests. *)

(* An image drawn over another. *)
Over(image, look) == [c \in DOMAIN image |-> IF c \in DOMAIN look THEN look[c] ELSE image[c]]

DrawPixmap(e, id, look) ==
    IF id \notin DOMAIN e.pixmaps THEN Bad(e)
    ELSE [e EXCEPT !.pixmaps[id] = Over(@, look)]

DrawWindow(e, w, look) ==
    IF ~Realized(e, w) THEN Bad(e)
    ELSE [e EXCEPT !.win[w] = Over(@, [c \in DOMAIN look \intersect Visible(e, w) |-> look[c]])]

Solid(cells, colour) == [c \in cells |-> colour]

NewPixmap(e) == CHOOSE id \in Pixmap : id \notin DOMAIN e.pixmaps
AddPixmap(e, n, colour) == [e EXCEPT !.pixmaps = With(@, NewPixmap(e), Solid(Cells(n), colour))]
CreatePixmap(e, n) == AddPixmap(e, n, Junk)

XFreePixmap(e, id) ==
    IF id \notin DOMAIN e.pixmaps THEN Bad(e)
    ELSE [e EXCEPT !.pixmaps = Without(@, id)]

(* XClearArea with exposures. *)
ClearWindowArea(e, w, cells) ==
    [DrawWindow(e, w, Solid(cells, 0)) EXCEPT
        !.pending[w] = @ \cup ({cells \intersect All(e, w)} \ {{}})]

(* What there is to copy of a drawable, at an offset. *)
Source(e, pixmap, cells, offset) ==
    IF pixmap \notin DOMAIN e.pixmaps THEN <<>>
    ELSE [c \in {k \in cells : k - offset \in DOMAIN e.pixmaps[pixmap]} |->
            e.pixmaps[pixmap][c - offset]]

-----------------------------------------------------------------------------
(* The widgets' procedures.                                                *)

PrivateColour(e, w) == IF e.pm[w].tiled THEN Tile ELSE e.pm[w].pen

(* A pixmap of the widget's size filled by its private gc. *)
FilledPixmap(e, w) ==
    DrawPixmap(CreatePixmap(e, e.pm[w].size), NewPixmap(e),
               Solid(All(e, w), PrivateColour(e, w)))

(* The old pixmap is kept.                                                 *)
ResizePixmapKeeps(e, w) ==
    LET old == e.pm[w].pixmap
        new == NewPixmap(e)
        filled == FilledPixmap(e, w)
    IN IF e.pm[w].status = "HasNone" THEN e
       ELSE [DrawPixmap(filled, new, Source(e, old, All(e, w), 0)) EXCEPT !.pm[w].pixmap = new]

(* Resize of class pixmap: the contents move to a new pixmap. *)
ResizePixmap(e, w) ==
    LET old == e.pm[w].pixmap
        new == NewPixmap(e)
        filled == FilledPixmap(e, w)
        copied == DrawPixmap(filled, new, Source(e, old, All(e, w), 0))
    IN IF e.pm[w].status = "HasNone" THEN e
       ELSE [XFreePixmap(IF old \in DOMAIN e.pixmaps THEN copied ELSE Bad(copied), old)
                EXCEPT !.pm[w].pixmap = new]

(* Redisplay with the pixmap on; otherwise the client's callback draws. *)
Redisplay(e, w, cells) ==
    IF e.pm[w].status # "On" THEN e
    ELSE DrawWindow(IF e.pm[w].pixmap \in DOMAIN e.pixmaps THEN e ELSE Bad(e), w,
                    Source(e, e.pm[w].pixmap, cells, 0))

HasGiven(pixmap) == pixmap \notin {NullPixmap, UnspecifiedPixmap}

(* Initialize of class pixmap; what is given is a pixmap of the program or *)
(* NullPixmap, and becomes the widget's.                                   *)
InitializePixmap(e0, w, args, fg, bg) ==
    LET tiled == args.tiled
        e == [e0 EXCEPT !.pm[w] = [status |-> args.status, size |-> args.size,
                                   pixmap |-> args.pixmap, tiled |-> tiled,
                                   pen |-> IF tiled THEN fg ELSE bg]]
        new == NewPixmap(e)
        filled == FilledPixmap(e, w)
    IN IF args.status = "HasNone" THEN e
       ELSE [IF ~HasGiven(args.pixmap) THEN filled
             ELSE XFreePixmap(DrawPixmap(filled, new, Source(e, args.pixmap, All(e, w), 0)),
                              args.pixmap)
                EXCEPT !.pm[w].pixmap = new]

(* SetValues of class pixmap. *)
Retiled(e, w, tiled) == [e EXCEPT !.pm[w].tiled = tiled]

Replaced(e, w, pixmap) ==
    [IF e.pm[w].pixmap # NullPixmap THEN XFreePixmap(e, e.pm[w].pixmap) ELSE e
        EXCEPT !.pm[w].pixmap = pixmap]

(* The new status is taken over, the pixmap stays as it is. *)
StatusChangedOnly(e, w, status) == [e EXCEPT !.pm[w].status = status]

StatusChanged(e, w, status) ==
    LET v == [e EXCEPT !.pm[w].status = status]
    IN IF status = "HasNone"
       THEN [IF HasGiven(v.pm[w].pixmap) THEN XFreePixmap(v, v.pm[w].pixmap) ELSE v
                EXCEPT !.pm[w].pixmap = UnspecifiedPixmap]
       ELSE IF HasGiven(v.pm[w].pixmap) THEN v
       ELSE [FilledPixmap(v, w) EXCEPT !.pm[w].pixmap = NewPixmap(v)]

SetPixmapValues(e, w, args) ==
    LET tiled == IF "tiled" \in DOMAIN args THEN args.tiled ELSE e.pm[w].tiled
        pixmap == IF "pixmap" \in DOMAIN args THEN args.pixmap ELSE e.pm[w].pixmap
        newpixmap == pixmap # e.pm[w].pixmap
        status == IF newpixmap /\ pixmap = UnspecifiedPixmap THEN "HasNone"
                  ELSE IF "status" \in DOMAIN args THEN args.status ELSE e.pm[w].status
        changed == status # e.pm[w].status
        redraw == tiled # e.pm[w].tiled \/ (newpixmap /\ pixmap # UnspecifiedPixmap)
        v1 == Retiled(e, w, tiled)
        v2 == IF newpixmap THEN Replaced(v1, w, pixmap) ELSE v1
        v3 == IF redraw THEN ResizePixmap([v2 EXCEPT !.pm[w].status = status], w) ELSE v2
        v4 == IF changed THEN StatusChanged(v3, w, status) ELSE v3
    IN IF (redraw \/ (changed /\ status = "On")) /\ Graphic(w) /\ Realized(e, w)
       THEN Redisplay(v4, w, All(e, w)) ELSE v4

(* The Intrinsics: a widget whose background has changed is cleared. *)
SetValuesPixmap(e, w, args, background) ==
    LET v == SetPixmapValues(e, w, args)
    IN IF Graphic(w) /\ Realized(e, w) /\ (background \/ v.pm[w].tiled # e.pm[w].tiled)
       THEN ClearWindowArea(v, w, All(e, w)) ELSE v

(* Realize, and the window is mapped. *)
RealizeWindow(e, w) ==
    [e EXCEPT !.win[w] = Solid(All(e, w), 0), !.pending[w] = {All(e, w)}]

(* The window gets another size, which clears and exposes all of it; then  *)
(* the resize procedures are called.                                       *)
ResizeWidget(e0, w, n) ==
    LET e == [e0 EXCEPT !.pm[w].size = n]
        v == IF Realized(e, w)
             THEN [e EXCEPT !.win[w] = Solid(Cells(n), 0), !.pending[w] = {Cells(n)}]
             ELSE e
        u == ResizePixmap(v, w)
    IN IF Realized(e, w) THEN Redisplay(u, w, Cells(n)) ELSE u

DestroyPixmap(e, w) ==
    [IF e.pm[w].status # "HasNone" THEN XFreePixmap(e, e.pm[w].pixmap) ELSE e EXCEPT
        !.pm[w] = [status |-> "HasNone", size |-> 0, pixmap |-> NullPixmap, tiled |-> FALSE,
                   pen |-> 0],
        !.win[w] = NoWindow, !.pending[w] = {}]

-----------------------------------------------------------------------------
(* Methods.                                                                *)

(* ApplyMethod of the two classes, and of which there is one. *)
InWindow(e, w) == Graphic(w) /\ e.pm[w].status # "Only"
InPixmap(e, w) == HasPixmap(e, w)

(* What users_gc makes of a cell. *)
Painted(w, look) ==
    IF Attributes(w).function = "invert" THEN 100 - look ELSE Attributes(w).foreground

(* A method that draws with users_gc, in the window, if there is one yet,  *)
(* and then in the pixmap.                                                 *)
Draw(e, w, cells) ==
    LET v == IF InWindow(e, w) /\ Realized(e, w)
             THEN DrawWindow(e, w, [c \in cells \intersect All(e, w) |-> Painted(w, e.win[w][c])])
             ELSE e
        id == e.pm[w].pixmap
    IN IF InPixmap(e, w) THEN DrawPixmap(v, id, [c \in cells \intersect All(e, w) |->
                                                    Painted(w, v.pixmaps[id][c])])
       ELSE v

(* ClearWindow and ClearArea, which is not for a widget without window.    *)
(* The pixmap's gc is left with the foreground of the widget, which later  *)
(* pixmaps are filled with.                                                *)
ClearPixmapArea(e, w, cells, fg, bg) ==
    LET v == [e EXCEPT !.pm[w].pen = bg]
    IN IF ~InPixmap(e, w) THEN e
       ELSE [DrawPixmap(v, e.pm[w].pixmap, Solid(cells, PrivateColour(v, w)))
                EXCEPT !.pm[w].pen = fg]

ClearArea(e, w, cells, fg, bg) ==
    ClearPixmapArea(IF InWindow(e, w) THEN ClearWindowArea(e, w, cells) ELSE e,
                    w, cells, fg, bg)

ClearWindow(e, w, fg, bg) ==
    IF InWindow(e, w) /\ Realized(e, w) THEN ClearArea(e, w, All(e, w), fg, bg)
    ELSE ClearPixmapArea(e, w, All(e, w), fg, bg)

(* Nothing makes the window show the image.                                *)
PutImageUnseen(e, w, cells) ==
    IF InPixmap(e, w) /\ InWindow(e, w) THEN DrawPixmap(e, e.pm[w].pixmap, Solid(cells, Ink)) ELSE e

(* _XpwSyntheticExposeEvent of some cells: the event reaches to the edge   *)
(* of the widget, and the server refuses it if there is no window.         *)
SyntheticExposeEvent(e, w, cells) ==
    LET first == CHOOSE c \in cells : \A k \in cells : c <= k
    IN [IF Realized(e, w) THEN e ELSE Bad(e) EXCEPT !.pending[w] = @ \cup {first .. e.pm[w].size - 1}]

(* PutImage is marked Cut: a graphic widget applies it once, and sends     *)
(* itself an Expose event.                                                 *)
PutImage(e, w, cells) ==
    LET drawn == DrawPixmap(e, e.pm[w].pixmap, Solid(cells, Ink))
    IN IF ~Graphic(w)
       THEN IF InPixmap(e, w) THEN drawn ELSE e
       ELSE IF ~InWindow(e, w) THEN e
       ELSE IF HasPixmap(e, w)
       THEN SyntheticExposeEvent(drawn, w, cells)
       ELSE DrawWindow(e, w, Solid(cells, Ink))

(* What is copied from cells that cannot be read is blank. *)
OnBlank(cells, look) == Over(Solid(cells, 0), look)

(* CopyTo of w, marked Cut, within the widget or to another one: to its    *)
(* window, and to its pixmap if it is a graphic widget.  Cells that cannot *)
(* be read leave a window blank and a pixmap as it was.                    *)
CopyTo(e, w, dest, cells, offset) ==
    LET from == IF HasPixmap(e, w) THEN Source(e, e.pm[w].pixmap, cells, offset)
                ELSE [c \in {k \in cells : k - offset \in Visible(e, w)} |->
                        e.win[w][c - offset]]
        applied == IF Graphic(w) THEN InWindow(e, w) ELSE InPixmap(e, w)
        readable == HasPixmap(e, w) \/ Realized(e, w)
        v == IF Realized(e, dest) THEN DrawWindow(e, dest, OnBlank(cells, from)) ELSE e
    IN IF ~applied \/ ~readable THEN e
       ELSE IF Graphic(dest) /\ HasPixmap(e, dest)
       THEN DrawPixmap(v, e.pm[dest].pixmap, from)
       ELSE v

(* CopyFrom of w is applied in both classes, each time from the source's   *)
(* pixmap, or its window.                                                  *)
CopyFrom(e, w, source, cells, offset) ==
    LET Read(x) == IF HasPixmap(x, source) THEN Source(x, x.pm[source].pixmap, cells, offset)
                   ELSE [c \in {k \in cells : k - offset \in Visible(x, source)} |->
                            x.win[source][c - offset]]
        readable == HasPixmap(e, source) \/ Realized(e, source)
        v == IF InWindow(e, w) /\ Realized(e, w)
             THEN DrawWindow(e, w, OnBlank(cells, Read(e))) ELSE e
    IN IF ~readable THEN e
       ELSE IF InPixmap(e, w) THEN DrawPixmap(v, e.pm[w].pixmap, Read(v)) ELSE v

-----------------------------------------------------------------------------
(* Events. *)

HandleExpose(e, w, cells) ==
    Redisplay([e EXCEPT !.pending[w] = @ \ {cells}], w, cells)

CoverWindows(e) ==
    [e EXCEPT !.hidden = TRUE,
              !.win = [w \in Widget |-> IF @[w] = NoWindow THEN NoWindow
                        ELSE [c \in DOMAIN @[w] |-> IF c \in Covered THEN 0 ELSE @[w][c]]]]

UncoverWindows(e) ==
    [e EXCEPT !.hidden = FALSE,
              !.pending = [w \in Widget |-> IF e.win[w] = NoWindow THEN @[w]
                            ELSE @[w] \cup ({Covered \intersect All(e, w)} \ {{}})]]

InitDisplay ==
    d = [pm |-> [w \in Widget |-> [status |-> "HasNone", size |-> 0, pixmap |-> NullPixmap,
                                   tiled |-> FALSE, pen |-> 0]],
         win |-> [w \in Widget |-> NoWindow],
         pixmaps |-> <<>>, pending |-> [w \in Widget |-> {}],
         hidden |-> FALSE, bad |-> FALSE]

-----------------------------------------------------------------------------
TypeOKDisplay ==
    /\ DOMAIN d.pixmaps \subseteq Pixmap
    /\ \A w \in Widget :
        /\ d.pm[w].status \in {"On", "Off", "HasNone", "Only"}
        /\ d.pm[w].pixmap \in Pixmap \cup {NullPixmap, UnspecifiedPixmap}
        /\ Realized(d, w) => DOMAIN d.win[w] = All(d, w)
        /\ \A cells \in d.pending[w] : cells # {}

(* With its pixmap on, a graphic widget shows what is in the pixmap, except *)
(* where it is covered or an Expose event is still to come.                *)
Mirror ==
    \A w \in Widget : Graphic(w) /\ Realized(d, w) /\ d.pm[w].status = "On" =>
        \A c \in Visible(d, w) \ UNION d.pending[w] :
            d.win[w][c] = d.pixmaps[d.pm[w].pixmap][c]

(* Each pixmap has one owner: those of the server are the current pixmaps  *)
(* of the widgets that have one, of the size of the widget, and every cell *)
(* has been drawn (Resize, SetValues, Destroy of class pixmap).            *)
PixmapsOwned ==
    /\ DOMAIN d.pixmaps = {d.pm[w].pixmap : w \in {x \in Widget : d.pm[x].status # "HasNone"}}
    /\ \A w, x \in Widget : d.pm[w].pixmap = d.pm[x].pixmap =>
                                w = x \/ d.pm[w].pixmap \notin Pixmap
    /\ \A w \in Widget : d.pm[w].status # "HasNone" =>
        LET pixmap == d.pixmaps[d.pm[w].pixmap]
        IN DOMAIN pixmap = All(d, w) /\ \A c \in DOMAIN pixmap : pixmap[c] # Junk
=============================================================================
