----------------------------- MODULE XpwWidgets -----------------------------
(***************************************************************************)
(* Widgets of the Poplog classes core, pixmap and graphic as a program     *)
(* uses them: they are made, realized, changed by XtSetValues, drawn in by *)
(* methods (CallMethod.c) and destroyed, while the window manager resizes, *)
(* covers and uncovers their windows.  A procedure of the Intrinsics calls *)
(* the procedures of the classes from core to graphic, and the other way   *)
(* round to destroy.                                                       *)
(***************************************************************************)
EXTENDS GraphicColors

CONSTANTS
    InitArgs, Args, GCArgs,     \* what a program passes
    Sizes, MaxOps,
    NoAttributes,
    Tame            \* the program avoids what the code is known to do wrong

(* What a program passes; "given" stands for a pixmap it has made, and     *)
(* what is not passed when a widget is made has its default in InitArgs.   *)
Status == {"On", "Off", "HasNone", "Only"}

ASSUME ArgsAssumption ==
    /\ \A args \in InitArgs \cup Args \cup GCArgs :
        /\ "foreground" \in DOMAIN args => args.foreground \in Pixel
        /\ "background" \in DOMAIN args => args.background \in Pixel
        /\ "function" \in DOMAIN args => args.function \in Function
    /\ \A args \in InitArgs \cup Args :
        /\ "status" \in DOMAIN args => args.status \in Status
        /\ "pixmap" \in DOMAIN args => args.pixmap \in {"given", NullPixmap, UnspecifiedPixmap}
        /\ "tiled" \in DOMAIN args => args.tiled \in BOOLEAN
    /\ \A args \in InitArgs : {"status", "size", "pixmap", "tiled"} \subseteq DOMAIN args
    /\ "given" \notin Pixmap \cup {NullPixmap, UnspecifiedPixmap}

AnySize == Sizes \cup {args.size : args \in InitArgs}

ASSUME SizesAssumption ==
    /\ AnySize \subseteq Nat \ {0} /\ MaxOps \in Nat
    /\ \A n \in AnySize : NoWindow \notin [Cells(n) -> Int]

ASSUME NoAttributesAssumption ==
    /\ NoAttributes \notin [foreground : Pixel, background : Pixel, function : Function]
    /\ NoAttributes \notin [foreground : Pixel, background : Pixel]

VARIABLE ops

vars == <<gcvars, d, c, ops>>

Call == ops < MaxOps /\ ops' = ops + 1

Fg(w) == users[w].foreground
Bg(w) == users[w].background

(* A pixmap of n cells that the program has drawn and gives away. *)
GivesPixmap(args) == "pixmap" \in DOMAIN args /\ args.pixmap = "given"
Gave(e, args, n) ==
    IF GivesPixmap(args) THEN AddPixmap(e, n, Ink) ELSE e
Giving(e, args) ==
    IF GivesPixmap(args) THEN [args EXCEPT !.pixmap = NewPixmap(e)] ELSE args

-----------------------------------------------------------------------------
Create(w, args) ==
    /\ Tame => (GivesPixmap(args) => args.status # "HasNone")
    /\ CreateGC(w, args)
    /\ d' = IF HasSubpart(w)
            THEN InitializePixmap(Gave(d, args, args.size), w, Giving(d, args),
                                  users'[w].foreground, users'[w].background)
            ELSE d
    /\ UNCHANGED <<c, ops>>

Realize(w) ==
    /\ Exists(w) /\ Graphic(w) /\ ~Realized(d, w)
    /\ d' = RealizeWindow(d, w)
    /\ c' = RealizeColors(c, w)
    /\ UNCHANGED <<gcvars, ops>>

(* XtSetValues.                                                            *)
SetValuesIsTame(w, args) ==
    LET status == IF "status" \in DOMAIN args THEN args.status ELSE d.pm[w].status
        newpixmap == "pixmap" \in DOMAIN args /\ args.pixmap # d.pm[w].pixmap
        retiled == "tiled" \in DOMAIN args /\ args.tiled # d.pm[w].tiled
    IN /\ newpixmap => d.pm[w].pixmap # UnspecifiedPixmap
       /\ newpixmap /\ args.pixmap = NullPixmap => status = "HasNone"
       /\ GivesPixmap(args) => status # "HasNone"
       /\ retiled /\ d.pm[w].status = "HasNone" => status = "HasNone" \/ GivesPixmap(args)
       /\ "colormap" \in DOMAIN args => Realized(d, w) /\ ~Private(c, w)

SetValues(w, args) ==
    /\ Exists(w) /\ Call
    /\ Tame => SetValuesIsTame(w, args)
    /\ SetValuesGC(w, args)
    /\ d' = IF HasSubpart(w)
            THEN SetValuesPixmap(Gave(d, args, d.pm[w].size), w, Giving(d, args),
                                 users'[w].background # users[w].background)
            ELSE d
    /\ c' = IF Graphic(w) /\ "colormap" \in DOMAIN args THEN SetColormap(c, w) ELSE c

Resize(w, n) ==
    /\ Exists(w) /\ HasSubpart(w) /\ n # d.pm[w].size /\ Call
    /\ d' = ResizeWidget(d, w, n)
    /\ UNCHANGED <<gcvars, c>>

Destroy(w) ==
    /\ Exists(w) /\ Call
    /\ c' = IF Graphic(w) THEN DestroyColors(c, w) ELSE c
    /\ d' = IF HasSubpart(w) THEN DestroyPixmap(d, w) ELSE d
    /\ DestroyGC(w)

-----------------------------------------------------------------------------
(* Methods. *)

SetGC(w, args) ==
    /\ Exists(w) /\ Call
    /\ ChangeUsersGC(w, args)
    /\ UNCHANGED <<d, c>>

Places(w) == {All(d, w), {0}}

DrawShape(w, cells) == d' = Draw(d, w, cells)

Clear(w) == d' = ClearWindow(d, w, Fg(w), Bg(w))

ClearRectangle(w, cells) ==
    /\ Tame /\ Graphic(w) => Realized(d, w)
    /\ d' = ClearArea(d, w, cells, Fg(w), Bg(w))

Put(w, cells) ==
    /\ Tame /\ Graphic(w) => Realized(d, w)
    /\ d' = PutImage(d, w, cells)

(* Cells that cannot be read leave a window blank, a pixmap as it was.     *)
CopyIsTame(source, dest, cells, offset) ==
    \/ ~HasPixmap(d, dest)
    \/ /\ HasPixmap(d, source) \/ ~d.hidden
       /\ \A k \in cells : k - offset \in All(d, source)

Copy(w, x, cells, offset) ==
    /\ Exists(x) /\ HasSubpart(x)
    /\ \/ /\ Tame => CopyIsTame(w, x, cells, offset)
          /\ d' = CopyTo(d, w, x, cells, offset)
       \/ /\ Tame => CopyIsTame(x, w, cells, offset)
          /\ d' = CopyFrom(d, w, x, cells, offset)

Methods(w) ==
    /\ Exists(w) /\ HasSubpart(w) /\ Call
    /\ \/ \E cells \in Places(w) : DrawShape(w, cells) \/ ClearRectangle(w, cells) \/ Put(w, cells)
       \/ Clear(w)
       \/ \E x \in Widget, offset \in {0, 1}, first \in {0, 1} :
            Copy(w, x, {k \in All(d, x) : k >= first}, offset)
    /\ UNCHANGED <<gcvars, c>>

ColorMethods(w) ==
    /\ Exists(w) /\ InWindow(d, w) /\ Call
    /\ \/ /\ Tame => Realized(d, w)
          /\ c' = CreateColormap(c, w) \/ c' = FreeColormap(c, w)
       \/ c' = AllocColorRange(c, w, 2) \/ c' = AllocStoreColor(c, w)
       \/ \E i \in DOMAIN c.allocated[w] : c' = FreeColors(c, w, i)
    /\ UNCHANGED <<gcvars, d>>

-----------------------------------------------------------------------------
Expose(w) ==
    /\ \E cells \in d.pending[w] : d' = HandleExpose(d, w, cells)
    /\ UNCHANGED <<gcvars, c, ops>>

CoverOrUncover ==
    /\ d' = IF d.hidden THEN UncoverWindows(d) ELSE CoverWindows(d)
    /\ UNCHANGED <<gcvars, c, ops>>

Init == InitGC /\ InitDisplay /\ InitColors /\ ops = 0

Next ==
    \/ \E w \in Widget :
        \/ \E args \in InitArgs : Create(w, args)
        \/ \E args \in Args : SetValues(w, args)
        \/ \E args \in GCArgs : SetGC(w, args)
        \/ \E n \in Sizes : Resize(w, n)
        \/ Realize(w) \/ Destroy(w) \/ Methods(w) \/ ColorMethods(w) \/ Expose(w)
    \/ CoverOrUncover

Spec == Init /\ [][Next]_vars

-----------------------------------------------------------------------------
TypeOK == TypeOKGC /\ TypeOKDisplay /\ TypeOKColors /\ ops \in 0 .. MaxOps

(* Every context of the server has its users, who release it once, through *)
(* sharing, unsharing and destruction (_XpwUpdateUsersGC, Destroy).        *)
GCsSound == TypeOK /\ GCsOwned

(* Every cell and every colormap has one widget that frees it, once, and   *)
(* the cells before the colormap (_XpwFreeColormap, _XpwFreeColors).       *)
ColoursSound == ColoursOwned /\ ColormapsOwned

(* No request names something the server does not have: nothing is used    *)
(* after it is freed and nothing is freed twice, in whatever order widgets *)
(* are changed and destroyed.                                              *)
NoBadRequest == ~d.bad /\ ~c.bad

(* The contexts of UsersGC.c give every widget attributes of its own.      *)
Attrs == INSTANCE GCAttributes WITH
    None <- NoAttributes,
    Args <- InitArgs \cup Args \cup GCArgs,
    attrs <- [w \in Widget |-> IF Exists(w) THEN Attributes(w) ELSE NoAttributes],
    res <- [w \in Widget |-> IF Exists(w) THEN [foreground |-> Fg(w), background |-> Bg(w)]
                             ELSE NoAttributes]
ImplementsAttributes == Attrs!Spec
=============================================================================
