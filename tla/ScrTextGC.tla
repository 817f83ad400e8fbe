----------------------------- MODULE ScrTextGC -----------------------------
(***************************************************************************)
(* The colours and fonts of a ScrollText widget (XpwScrText.c).  The       *)
(* graphics contexts of the first colours are made once, and remade by     *)
(* XtSetValues when a resource they depend on has changed; others are      *)
(* computed when they are drawn with.  A colour that is not given stands   *)
(* for another, which makes the contexts depend on each other's resources. *)
(*                                                                         *)
(* A context is represented by the values it was made with; XtGetGC counts *)
(* how often it has given each.                                            *)
(***************************************************************************)
EXTENDS Integers, FiniteSets

CONSTANTS
    NColors, NAllColors,        \* 8 and 16; colours from NColors on are active
    NormalColors, StatusColors, \* colours with contexts in the arrays: 3 and 1
    NoPixel, Dark,  \* no pixel, and pixels of little lightness
    NoFont,
    NoContext,
    Changes,        \* what a call of XtSetValues may change
    FirstResources, \* what a widget may be made with
    TameColours     \* no alternative font becomes the main one, and on a monochrome
                    \* screen the colours used for all others stay

Resources == {"foreground", "background", "status_foreground", "status_background",
              "cursor_color", "alt_colors", "default_color_mask", "draw_shadow_mask",
              "monochrome", "fonts", "fontsets"}
Fonts == {0, 1}                 \* the normal font and one other

WellTyped(r) == DOMAIN r.alt_colors = 1 .. NAllColors - 1 /\ DOMAIN r.fontsets = Fonts

(* The number of colours of the screen and the fonts that are drawn with   *)
(* are not resources of a caller.                                          *)
ASSUME ColourAssumption ==
    /\ {NColors, NAllColors} \subseteq Nat /\ 2 <= NColors /\ NColors <= NAllColors
    /\ {NormalColors, StatusColors} \subseteq 1 .. NColors
    /\ \A r \in FirstResources : DOMAIN r = Resources /\ WellTyped(r) /\ DOMAIN r.fonts = Fonts
    /\ \A change \in Changes :
        /\ DOMAIN change \subseteq Resources \ {"monochrome", "fonts"}
        /\ "alt_colors" \in DOMAIN change => DOMAIN change.alt_colors = 1 .. NAllColors - 1
        /\ "fontsets" \in DOMAIN change => DOMAIN change.fontsets = Fonts

VARIABLES
    res,        \* the resources
    array,      \* gc_array, status_gc_array, cursor_gc and status_cursor_gc
    shadow,     \* shadow_whites and shadow_white_bits, for main and status text
    given       \* how often XtGetGC has given the contexts

colourvars == <<res, array, shadow, given>>

Cursor == NAllColors            \* CURSOR_COLORNUM, of which 0 are the low bits

Index == ((0 .. NormalColors - 1) \X Fonts \X {FALSE})
    \cup ((0 .. StatusColors - 1) \X Fonts \X {TRUE})
    \cup {<<Cursor, 0, FALSE>>, <<Cursor, 0, TRUE>>}

First(p, q) == IF p = NoPixel THEN q ELSE p
Foreground(r, status) == IF status THEN r.status_foreground ELSE r.foreground
Background(r, status) == IF status THEN r.status_background ELSE r.background

(* ColorFgBg: the colours of a number, and whether the background is the   *)
(* one of the window.                                                      *)
ColorFgBg(r, number, status) ==
    LET default == IF (IF number = Cursor THEN 0 ELSE number) \in r.default_color_mask THEN 1 ELSE 0
        col == IF r.monochrome THEN default ELSE number
        pair == IF col = Cursor THEN [fg |-> r.cursor_color, bg |-> NoPixel]
                ELSE IF col = 0 THEN [fg |-> NoPixel, bg |-> NoPixel]
                ELSE r.alt_colors[col]
        inverted == col \notin {0, Cursor} /\ default = 1
        fg == IF inverted THEN First(pair.fg, First(r.alt_colors[1].fg, Background(r, status)))
              ELSE First(pair.fg, Foreground(r, status))
        bg == IF inverted THEN First(pair.bg, First(r.alt_colors[1].bg, Foreground(r, status)))
              ELSE First(pair.bg, Background(r, status))
    IN [fg |-> fg, bg |-> bg, winbg |-> bg = r.background]

Context(r, i) ==
    IF r.fonts[i[2]] = NoFont THEN NoContext
    ELSE LET colours == ColorFgBg(r, i[1], i[3])
         IN [font |-> r.fonts[i[2]], fg |-> colours.fg, bg |-> colours.bg, winbg |-> colours.winbg]

(* An alternative font that is the same as the main one is dropped, in the *)
(* fonts that text is drawn with; the font sets keep it (SetupFonts).      *)
SetupFonts(r) ==
    [r EXCEPT !.fonts[1] = IF @ = r.fonts[0] THEN NoFont ELSE @]

Lightness(p) == IF p \in Dark THEN 0 ELSE 1

(* SetShadowBits.  The lighter of the two first colours is white. *)
ShadowOf(r, status) ==
    LET main == ColorFgBg(r, 0, status)
    IN IF r.draw_shadow_mask = {} THEN [white |-> NoPixel, bits |-> {}]
       ELSE [white |-> IF Lightness(main.fg) > Lightness(main.bg) THEN main.fg ELSE main.bg,
             bits |-> {col \in 0 .. NAllColors - 1 :
                        Lightness(ColorFgBg(r, col, status).bg) = 0}]

SetShadowBits(r) == [status \in BOOLEAN |-> ShadowOf(r, status)]

-----------------------------------------------------------------------------
(* GetNewGC of each of the contexts in which: the old one is released.     *)
Uses(a, v) == Cardinality({i \in DOMAIN a : a[i] = v})

GetNewGCs(r, which) ==
    LET new == [i \in Index |-> IF i \in which THEN Context(r, i) ELSE array[i]]
        made == {new[i] : i \in which} \ {NoContext}
        Count(v) == (IF v \in DOMAIN given THEN given[v] ELSE 0)
                        + Cardinality({i \in which : new[i] = v})
                        - Cardinality({i \in which : array[i] = v})
    IN /\ array' = new
       /\ given' = [v \in {x \in DOMAIN given \cup made : Count(x) > 0} |-> Count(v)]

ScrollTextInitialize(r) ==
    /\ res' = SetupFonts(r)
    /\ GetNewGCs(res', Index)
    /\ shadow' = SetShadowBits(res')

(* Which contexts XtSetValues finds to depend on what it has changed. *)
GCSelect(cols, status) == {i \in Index : i[1] \in cols /\ i[1] < NColors /\ i[3] = status}
Cursors(status) == {i \in Index : i[1] = Cursor /\ i[3] = status}
OfFont(font) == {i \in Index : i[2] = font /\ i[1] # Cursor}

Differing(old, new, status) ==
    {col \in 0 .. NAllColors - 1 : ColorFgBg(old, col, status) # ColorFgBg(new, col, status)}

Changed(old, new, fields) == \E f \in fields : old[f] # new[f]
AltChanged(old, new) == {col \in DOMAIN new.alt_colors : new.alt_colors[col] # old.alt_colors[col]}

MainChanged(old, new) == Changed(old, new, {"background", "foreground"})
StatusChanged(old, new) == Changed(old, new, {"status_foreground", "status_background"})

(* The first alternative colour is looked at like the others. *)
CheckAllButFirst(old, new) ==
    \/ MainChanged(old, new) \/ StatusChanged(old, new)
    \/ Changed(old, new, {"default_color_mask"})

CheckAll(old, new) ==
    \/ MainChanged(old, new) \/ StatusChanged(old, new)
    \/ Changed(old, new, {"default_color_mask"})
    \/ 1 \in AltChanged(old, new)

ColoursToRemake(old, new, status) ==
    (IF (IF status THEN StatusChanged(old, new) ELSE MainChanged(old, new)) THEN {0} ELSE {})
        \cup IF CheckAll(old, new) THEN Differing(old, new, status) ELSE AltChanged(old, new)

CursorsToRemake(old, new) ==
    (IF Changed(old, new, {"background", "cursor_color"}) THEN Cursors(FALSE) \cup Cursors(TRUE) ELSE {})
        \cup (IF Changed(old, new, {"foreground"}) THEN Cursors(FALSE) ELSE {})
        \cup IF StatusChanged(old, new) THEN Cursors(TRUE) ELSE {}

(* The fonts are compared by their font sets. *)
FontsToRemake(old, new) ==
    (IF new.fontsets[0] # old.fontsets[0] THEN OfFont(0) \cup Cursors(FALSE) \cup Cursors(TRUE) ELSE {})
        \cup IF new.fontsets[1] # old.fontsets[1] THEN OfFont(1) ELSE {}

(* Colours are looked at before shadows are. *)
ColoursChanged(old, new) ==
    \/ MainChanged(old, new) \/ StatusChanged(old, new) \/ AltChanged(old, new) # {}
    \/ \E status \in BOOLEAN : CheckAll(old, new) /\ Differing(old, new, status) # {}
    \/ Changed(old, new, {"draw_shadow_mask"})

ScrollTextSetValues(change) ==
    LET old == res
        given0 == [f \in Resources |-> IF f \in DOMAIN change THEN change[f] ELSE old[f]]
        set == [given0 EXCEPT !.fonts = [f \in Fonts |->
                    IF given0.fontsets[f] # old.fontsets[f] THEN given0.fontsets[f] ELSE @[f]]]
        fonts == set.fontsets # old.fontsets
        new == IF fonts THEN SetupFonts(set) ELSE set
    IN /\ res' = new
       /\ shadow' = IF ColoursChanged(old, new) THEN SetShadowBits(new) ELSE shadow
       /\ GetNewGCs(new, GCSelect(ColoursToRemake(old, new, FALSE), FALSE)
                    \cup GCSelect(ColoursToRemake(old, new, TRUE), TRUE)
                    \cup CursorsToRemake(old, new)
                    \cup IF fonts THEN FontsToRemake(old, new) ELSE {})

ScrollTextDestroy ==
    /\ res' = NoContext
    /\ array' = [i \in Index |-> NoContext] /\ given' = <<>>
    /\ UNCHANGED shadow

-----------------------------------------------------------------------------
InitColours ==
    /\ res = NoContext
    /\ array = [i \in Index |-> NoContext]
    /\ shadow = [status \in BOOLEAN |-> [white |-> NoPixel, bits |-> {}]]
    /\ given = <<>>

Benign(change) ==
    TameColours =>
        /\ res.monochrome => DOMAIN change \cap {"alt_colors", "default_color_mask"} = {}
        /\ "fontsets" \in DOMAIN change => change.fontsets[0] \notin {res.fonts[1], change.fontsets[1]}

NextColours ==
    \/ res = NoContext /\ \E r \in FirstResources : ScrollTextInitialize(r)
    \/ res # NoContext /\ \E change \in Changes : Benign(change) /\ ScrollTextSetValues(change)
    \/ res # NoContext /\ ScrollTextDestroy

-----------------------------------------------------------------------------
(* Text of any colour and font, and the cursor, is drawn in the colours and *)
(* with the font that the resources give now: DrawString uses the arrays   *)
(* for the first colours, and _XpwGetWorkTextGC for the others.  It takes   *)
(* the font to exist if the first context with it does.                    *)
ContextsCurrent ==
    res # NoContext =>
        /\ \A i \in Index : array[i] = Context(res, i)
        /\ \A font \in Fonts : array[<<0, font, FALSE>>] # NoContext => res.fonts[font] # NoFont

(* A shadow is drawn light on dark backgrounds and dark on light ones, with *)
(* the colours as they are (SetShadowBits, DrawString).                    *)
ShadowsCurrent ==
    res # NoContext => \A status \in BOOLEAN :
        res.draw_shadow_mask # {} => shadow[status] = ShadowOf(res, status)

(* Every context got from the Intrinsics is in the arrays, to be released  *)
(* once (GetNewGC, ScrollTextDestroy).                                     *)
ContextsReleased ==
    \A v \in {array[i] : i \in Index} \cup DOMAIN given :
        v # NoContext => v \in DOMAIN given /\ given[v] = Uses(array, v)

(* A change of any resource leaves contexts and shadows that are current,  *)
(* and none that is not released (ScrollTextSetValues).                    *)
ColoursCurrent == ContextsCurrent /\ ShadowsCurrent /\ ContextsReleased
=============================================================================
