--------------------------- MODULE ScrTextLemmas ---------------------------
(***************************************************************************)
(* What the procedures of ScrText do to the buffers and to the window of a *)
(* ScrollText widget: drawing, copying, clearing, scrolling and writing,   *)
(* from one character to whole methods.  A procedure is described by what  *)
(* it leaves alone, by how the rows read afterwards, and by which cells    *)
(* show what they should.  ScrTextProofs puts the methods together.        *)
(***************************************************************************)
EXTENDS ScrText, SequenceLemmas, FiniteSetTheorems

-----------------------------------------------------------------------------
(* The text in its window. *)

TextFields == {"row", "buf", "nr", "crow", "ccol", "on", "bfirst", "blim", "phase", "ticking",
               "act", "win", "hidden", "vis", "ev", "apart"}

RowType == [n : 0 .. NCols, cell : [Cols -> Char], bs : Nat, bl : 0 .. NCols]
SegmentType == [on : BOOLEAN, row : Rows, from : 0 .. NCols, lim : 0 .. NCols]
EventType == [type : {"Expose", "GraphicsExpose", "NoExpose", "Obscured", "Unobscured"},
              cells : SUBSET Cells]

IsImage(x) == x = [c \in Cells |-> x[c]]

IsText(u) ==
    /\ u = [x \in TextFields |-> u[x]]
    /\ u.row \in [Rows -> Buffer] /\ u.buf \in [Buffer -> RowType]
    /\ u.nr \in Sizes /\ u.crow \in 0 .. u.nr - 1 /\ u.ccol \in 0 .. NCols
    /\ u.on \in BOOLEAN /\ u.phase \in BOOLEAN /\ u.ticking \in BOOLEAN
    /\ u.hidden \in BOOLEAN /\ u.vis \in BOOLEAN /\ u.apart \in BOOLEAN
    /\ u.bfirst \in Nat /\ u.blim \in Nat
    /\ u.act \in SegmentType /\ IsImage(u.win) /\ u.ev \in Seq(EventType)

(* What an operation leaves alone. *)
SameText(u, v) ==
    /\ v.row = u.row /\ v.buf = u.buf
    /\ v.bfirst = u.bfirst /\ v.blim = u.blim /\ v.ticking = u.ticking
SameCursor(u, v) == v.crow = u.crow /\ v.ccol = u.ccol /\ v.on = u.on
SameFrame(u, v) ==
    v.nr = u.nr /\ v.apart = u.apart /\ v.phase = u.phase /\ v.hidden = u.hidden /\ v.vis = u.vis
SameRest(u, v) == SameFrame(u, v) /\ v.act = u.act /\ v.ev = u.ev

(* Every row that blinks is noted, and so are the columns in which it does. *)
RowText(b, k) == IF k < b.n THEN b.cell[k] ELSE Null
Blinks(b) == \E k \in Cols : RowText(b, k) \in Blinking
ExtentNoted(b) == \A k \in Cols : RowText(b, k) \in Blinking => b.bs <= k /\ k < b.bl
RowNoted(u, r) == r < u.nr /\ u.ticking /\ u.bfirst <= r /\ r < u.blim

RowsIn(u) ==
    /\ \A r, q \in Rows : u.row[r] = u.row[q] => r = q
    /\ \A r \in Rows : ExtentNoted(At(u, r)) /\ (Blinks(At(u, r)) => RowNoted(u, r))

(* The sizes, as the provers need them.                                     *)
LEMMA Numbers ==
    /\ NRows \in Nat /\ NRows > 0 /\ NCols \in Nat /\ NCols > 0
    /\ Sizes \subseteq 1 .. NRows
    /\ Rows = 0 .. NRows - 1 /\ Cols = 0 .. NCols - 1
    /\ \A n \in Sizes : n \in Nat /\ n > 0 /\ 0 .. n - 1 \subseteq Rows
  BY SizesAssumption DEF Rows, Cols

(* Least and Most are the smaller and the larger of two integers.           *)
LEMMA LeastMost ==
    ASSUME NEW a \in Int, NEW b \in Int
    PROVE  /\ Least(a, b) \in Int /\ Least(a, b) <= a /\ Least(a, b) <= b
           /\ (Least(a, b) = a \/ Least(a, b) = b)
           /\ Most(a, b) \in Int /\ Most(a, b) >= a /\ Most(a, b) >= b
           /\ (Most(a, b) = a \/ Most(a, b) = b)
  BY DEF Least, Most

(* The buffer of a row is one.                                              *)
LEMMA RowsExist ==
    ASSUME NEW u, IsText(u), NEW r \in Rows
    PROVE  u.row[r] \in Buffer /\ At(u, r) \in RowType /\ At(u, r) = u.buf[u.row[r]]
  BY DEF IsText, At

(* Parts of the widget are assigned. *)
LEMMA WinAssigned ==
    ASSUME NEW u, IsText(u), NEW x, IsImage(x), NEW v, v = [u EXCEPT !.win = x]
    PROVE  IsText(v) /\ v.win = x /\ SameText(u, v) /\ SameCursor(u, v) /\ SameRest(u, v)
  BY DEF IsText, TextFields, SameText, SameCursor, SameRest, SameFrame

(* Assigning whether the cursor is on.                                      *)
LEMMA OnAssigned ==
    ASSUME NEW u, IsText(u), NEW x \in BOOLEAN, NEW v, v = [u EXCEPT !.on = x]
    PROVE  /\ IsText(v) /\ v.on = x /\ v.win = u.win /\ v.crow = u.crow /\ v.ccol = u.ccol
           /\ SameText(u, v) /\ SameRest(u, v)
  BY DEF IsText, TextFields, SameText, SameRest, SameFrame

(* What is drawn replaces the cells it is drawn on, and only these.         *)
LEMMA DrawnImage ==
    ASSUME NEW image, IsImage(image), NEW cells, NEW look
    PROVE  /\ IsImage(Drawn(image, cells, look))
           /\ \A c \in Cells : Drawn(image, cells, look)[c] = IF c \in cells THEN look[c] ELSE image[c]
  BY DEF IsImage, Drawn

(* Painting changes the visible ones of its cells and nothing else.         *)
LEMMA Painted ==
    ASSUME NEW u, IsText(u), NEW cells, NEW look, NEW v, v = Paint(u, cells, look)
    PROVE  /\ IsText(v) /\ SameText(u, v) /\ SameCursor(u, v) /\ SameRest(u, v)
           /\ \A c \in Cells : v.win[c] = IF c \in cells /\ c \in Visible(u) THEN look[c] ELSE u.win[c]
<1>1. PICK x : x = Drawn(u.win, cells \intersect Visible(u), look)
  OBVIOUS
<1>2. /\ IsImage(x)
      /\ \A c \in Cells : x[c] = IF c \in cells /\ c \in Visible(u) THEN look[c] ELSE u.win[c]
  BY <1>1, DrawnImage DEF IsText
<1>3. v = [u EXCEPT !.win = x]
  BY <1>1 DEF Paint
<1> QED BY <1>2, <1>3, WinAssigned

-----------------------------------------------------------------------------
(* The character of the text at a place, and whether the cursor is there.   *)
CharAt(u, r, k) == IF r < u.nr THEN RowText(At(u, r), k) ELSE Null
CursorAt(u, r, k) == u.on /\ r = u.crow /\ k = u.ccol

(* Cells as pairs of a row and a column.                                    *)
LEMMA CellsArePairs ==
    /\ \A r \in Rows, k \in Cols : <<r, k>> \in Cells
    /\ \A c \in Cells : c[1] \in Rows /\ c[2] \in Cols /\ c = <<c[1], c[2]>>
  BY DEF Cells

(* What a cell should show, by its row and column.                          *)
LEMMA ExpectedIs ==
    ASSUME NEW u, IsText(u), NEW r \in Rows, NEW k \in Cols
    PROVE  Expected(u, <<r, k>>) = IF CursorAt(u, r, k) THEN CursorCell
                                   ELSE Look(u, CharAt(u, r, k), r, k)
<1>1. <<r, k>> \in Cells /\ <<r, k>>[1] = r /\ <<r, k>>[2] = k
  BY CellsArePairs
<1>2. Text(u)[<<r, k>>] = CharAt(u, r, k)
  BY <1>1 DEF Text, CharAt, RowText
<1>3. (<<r, k>> = <<u.crow, u.ccol>>) <=> (r = u.crow /\ k = u.ccol)
  OBVIOUS
<1> QED BY <1>1, <1>2, <1>3 DEF Expected, CursorAt, Look

SameSize(u, v) == v.nr = u.nr /\ v.hidden = u.hidden
VisibleAt(u, r, k) == r < u.nr /\ ~(u.hidden /\ <<r, k>> \in Covered)

(* The same for a cell of the window, by the buffer of its row.             *)
LEMMA ExpectedInRow ==
    ASSUME NEW u, IsText(u), NEW r \in Rows, NEW k \in Cols, VisibleAt(u, r, k)
    PROVE  Expected(u, <<r, k>>) = IF CursorAt(u, r, k) THEN CursorCell
                                   ELSE Look(u, RowText(At(u, r), k), r, k)
  BY ExpectedIs DEF VisibleAt, CharAt

(* Nothing is shown where there is no character. *)
LEMMA NullLook ==
    ASSUME NEW u, NEW r, NEW k
    PROVE  Look(u, Null, r, k) = Blank
  BY TextAssumption DEF Look, Blank

(* Being visible, by row and column.                                        *)
LEMMA VisibleIs ==
    ASSUME NEW u, IsText(u), NEW r \in Rows, NEW k \in Cols
    PROVE  <<r, k>> \in Visible(u) <=> VisibleAt(u, r, k)
  BY Numbers DEF Visible, InWindow, VisibleAt, IsText

(* A cell is drawn as it should be, or nothing of it has changed.           *)
CellDrawn(u, v, r, k) ==
    IF VisibleAt(v, r, k)
    THEN \/ v.win[<<r, k>>] = Expected(v, <<r, k>>)
         \/ v.win[<<r, k>>] = u.win[<<r, k>>] /\ Expected(v, <<r, k>>) = Expected(u, <<r, k>>)
    ELSE v.win[<<r, k>>] = u.win[<<r, k>>]
Refreshed(u, v) == \A r \in Rows, k \in Cols : CellDrawn(u, v, r, k)

(* What is visible depends on the size and on what is covered.              *)
LEMMA SameVisible ==
    ASSUME NEW u, NEW v, SameSize(u, v), NEW r, NEW k
    PROVE  VisibleAt(v, r, k) <=> VisibleAt(u, r, k)
  BY DEF SameSize, VisibleAt

(* Drawing twice what should be seen.                                       *)
LEMMA RefreshedTwice ==
    ASSUME NEW u, NEW v, NEW x, SameSize(v, x), Refreshed(u, v), Refreshed(v, x)
    PROVE  Refreshed(u, x)
<1> SUFFICES ASSUME NEW r \in Rows, NEW k \in Cols
             PROVE  CellDrawn(u, x, r, k)
  BY DEF Refreshed
<1>1. CellDrawn(u, v, r, k) /\ CellDrawn(v, x, r, k)
  BY DEF Refreshed
<1>2. VisibleAt(x, r, k) <=> VisibleAt(v, r, k)
  BY SameVisible
<1> QED BY <1>1, <1>2 DEF CellDrawn

(* One string is drawn, wherever it is. *)
LEMMA StringDrawn ==
    ASSUME NEW u, IsText(u), NEW str, NEW row, NEW col, NEW v, v = DrawString(u, str, row, col)
    PROVE  /\ IsText(v) /\ SameText(u, v) /\ SameCursor(u, v) /\ SameRest(u, v)
           /\ \A r \in Rows, k \in Cols : v.win[<<r, k>>] =
                IF r = row /\ k \in col .. col + Len(str) - 1 /\ VisibleAt(u, r, k)
                THEN Look(u, str[k - col + 1], row, col) ELSE u.win[<<r, k>>]
<1>1. PICK cells, look : /\ cells = {row} \X (col .. col + Len(str) - 1)
                         /\ look = [c \in cells |-> Look(u, str[c[2] - col + 1], row, col)]
  OBVIOUS
<1>2. v = Paint(u, cells, look)
  BY <1>1 DEF DrawString
<1>3. /\ IsText(v) /\ SameText(u, v) /\ SameCursor(u, v) /\ SameRest(u, v)
      /\ \A c \in Cells : v.win[c] = IF c \in cells /\ c \in Visible(u) THEN look[c] ELSE u.win[c]
  BY <1>2, Painted
<1>4. ASSUME NEW r \in Rows, NEW k \in Cols
      PROVE  v.win[<<r, k>>] =
                IF r = row /\ k \in col .. col + Len(str) - 1 /\ VisibleAt(u, r, k)
                THEN Look(u, str[k - col + 1], row, col) ELSE u.win[<<r, k>>]
  <2>1. <<r, k>> \in cells <=> r = row /\ k \in col .. col + Len(str) - 1
    BY <1>1
  <2>2. <<r, k>> \in cells => look[<<r, k>>] = Look(u, str[k - col + 1], row, col)
    BY <1>1
  <2>3. <<r, k>> \in Cells /\ (<<r, k>> \in Visible(u) <=> VisibleAt(u, r, k))
    BY CellsArePairs, VisibleIs
  <2> QED BY <1>3, <2>1, <2>2, <2>3
<1> QED BY <1>3, <1>4

(* The look of a cell depends on what is the same in both.                  *)
LEMMA SameLook ==
    ASSUME NEW u, NEW v, SameFrame(u, v), v.act = u.act, NEW ch, NEW r, NEW k
    PROVE  Look(v, ch, r, k) = Look(u, ch, r, k)
  BY DEF SameFrame, Look

(* The same buffers hold the same characters.                               *)
LEMMA SameChar ==
    ASSUME NEW u, NEW v, SameFrame(u, v), v.row = u.row, v.buf = u.buf, NEW r, NEW k
    PROVE  CharAt(v, r, k) = CharAt(u, r, k) /\ At(v, r) = At(u, r)
  BY DEF SameFrame, CharAt, RowText, At

(* The cell of the cursor, and no other, is drawn. *)
CursorPainted(u, t, on) ==
    \A r \in Rows, k \in Cols :
        t.win[<<r, k>>] = IF r = u.crow /\ k = u.ccol /\ VisibleAt(u, r, k)
                          THEN IF on THEN CursorCell ELSE Look(u, CharAt(u, r, k), r, k)
                          ELSE u.win[<<r, k>>]
SameButWindow(u, t) == IsText(t) /\ SameText(u, t) /\ SameCursor(u, t) /\ SameRest(u, t)

(* The cursor is turned on or off: its cell is drawn right, the others      *)
(* stay.                                                                    *)
LEMMA CursorMoved ==
    ASSUME NEW u, IsText(u), NEW on \in BOOLEAN, NEW v, v = CursorTo(u, on)
    PROVE  /\ IsText(v) /\ SameText(u, v) /\ SameRest(u, v)
           /\ v.on = on /\ v.crow = u.crow /\ v.ccol = u.ccol /\ Refreshed(u, v)
           /\ u.on # on => CursorPainted(u, v, on)
<1>1. CASE u.on = on
  <2>1. v = u
    BY <1>1 DEF CursorTo
  <2> QED BY <1>1, <2>1 DEF SameText, SameRest, SameFrame, Refreshed, CellDrawn
<1>2. CASE u.on # on
  <2> DEFINE ch == WincharAt(u, u.crow, u.ccol)
  <2>1. PICK t : t = IF u.ccol >= NCols THEN u
                     ELSE IF on
                     THEN Paint(u, {<<u.crow, u.ccol>>}, [c \in Cells |-> CursorCell])
                     ELSE DrawString(u, <<ch>>, u.crow, u.ccol)
    OBVIOUS
  <2>2. v = [t EXCEPT !.on = on]
    BY <1>2, <2>1 DEF CursorTo
  <2>3. u.crow \in Rows /\ u.crow < u.nr /\ u.ccol \in Nat
    BY Numbers DEF IsText
  <2> HIDE DEF ch
  <2>4. SameButWindow(u, t) /\ CursorPainted(u, t, on)
    <3>1. CASE u.ccol >= NCols
      <4>1. t = u /\ \A k \in Cols : k # u.ccol
        BY <2>1, <3>1, Numbers
      <4> QED BY <4>1 DEF SameButWindow, CursorPainted, SameText, SameCursor, SameRest, SameFrame
    <3>2. CASE u.ccol < NCols /\ on
      <4>1. t = Paint(u, {<<u.crow, u.ccol>>}, [c \in Cells |-> CursorCell])
        BY <2>1, <2>3, <3>2, Numbers
      <4>2. PICK look : look = [c \in Cells |-> CursorCell]
        OBVIOUS
      <4>3. /\ IsText(t) /\ SameText(u, t) /\ SameCursor(u, t) /\ SameRest(u, t)
            /\ \A c \in Cells : t.win[c] = IF c \in {<<u.crow, u.ccol>>} /\ c \in Visible(u)
                                           THEN look[c] ELSE u.win[c]
        BY <4>1, <4>2, Painted
      <4>4. ASSUME NEW r \in Rows, NEW k \in Cols
            PROVE  t.win[<<r, k>>] = IF r = u.crow /\ k = u.ccol /\ VisibleAt(u, r, k)
                                     THEN CursorCell ELSE u.win[<<r, k>>]
        <5>1. <<r, k>> \in {<<u.crow, u.ccol>>} <=> r = u.crow /\ k = u.ccol
          OBVIOUS
        <5> QED BY <4>2, <4>3, <5>1, CellsArePairs, VisibleIs
      <4> QED BY <3>2, <4>3, <4>4 DEF SameButWindow, CursorPainted
    <3>3. CASE u.ccol < NCols /\ ~on
      <4>1. t = DrawString(u, <<ch>>, u.crow, u.ccol)
        BY <2>1, <2>3, <3>3, Numbers
      <4>2. ch = CharAt(u, u.crow, u.ccol)
        <5>1. At(u, u.crow).n \in Nat
          BY <2>3, RowsExist DEF RowType
        <5> QED BY <2>3, <5>1 DEF ch, WincharAt, CharAt, RowText
      <4>3. Len(<<ch>>) = 1 /\ <<ch>>[1] = ch
        OBVIOUS
      <4>4. PICK str : str = <<ch>>
        OBVIOUS
      <4> t = DrawString(u, str, u.crow, u.ccol)
        BY <4>1, <4>4
      <4>5. /\ IsText(t) /\ SameText(u, t) /\ SameCursor(u, t) /\ SameRest(u, t)
            /\ \A r \in Rows, k \in Cols : t.win[<<r, k>>] =
                IF r = u.crow /\ k \in u.ccol .. u.ccol + Len(str) - 1 /\ VisibleAt(u, r, k)
                THEN Look(u, str[k - u.ccol + 1], u.crow, u.ccol) ELSE u.win[<<r, k>>]
        BY StringDrawn
      <4>6. \A k \in Cols : k \in u.ccol .. u.ccol + Len(str) - 1 <=> k = u.ccol
        BY <2>3, <4>3, <4>4, Numbers
      <4>7. str[u.ccol - u.ccol + 1] = ch
        BY <2>3, <4>3, <4>4
      <4> QED BY <3>3, <4>2, <4>5, <4>6, <4>7 DEF SameButWindow, CursorPainted
    <3> QED BY <2>3, <3>1, <3>2, <3>3, Numbers
  <2>5. /\ IsText(v) /\ v.on = on /\ v.win = t.win /\ v.crow = t.crow /\ v.ccol = t.ccol
        /\ SameText(t, v) /\ SameRest(t, v)
    BY <2>2, <2>4, OnAssigned DEF SameButWindow
  <2>6. SameText(u, v) /\ SameRest(u, v) /\ v.crow = u.crow /\ v.ccol = u.ccol
    BY <2>4, <2>5 DEF SameButWindow, SameText, SameRest, SameFrame, SameCursor
  <2>7. ASSUME NEW r \in Rows, NEW k \in Cols
        PROVE  CellDrawn(u, v, r, k)
    <3>1. VisibleAt(v, r, k) <=> VisibleAt(u, r, k)
      BY <2>6, SameVisible DEF SameRest, SameFrame, SameSize
    <3>2. CharAt(v, r, k) = CharAt(u, r, k)
      BY <2>6, SameChar DEF SameRest, SameText
    <3>3. Look(v, CharAt(v, r, k), r, k) = Look(u, CharAt(u, r, k), r, k)
      BY <3>2, <2>6, SameLook DEF SameRest
    <3>4. Expected(v, <<r, k>>) = IF CursorAt(v, r, k) THEN CursorCell ELSE Look(v, CharAt(v, r, k), r, k)
      BY <2>5, ExpectedIs
    <3>5. Expected(u, <<r, k>>) = IF CursorAt(u, r, k) THEN CursorCell ELSE Look(u, CharAt(u, r, k), r, k)
      BY ExpectedIs
    <3>6. v.win[<<r, k>>] = IF r = u.crow /\ k = u.ccol /\ VisibleAt(u, r, k)
                            THEN IF on THEN CursorCell ELSE Look(u, CharAt(u, r, k), r, k)
                            ELSE u.win[<<r, k>>]
      BY <2>4, <2>5 DEF CursorPainted
    <3>7. CursorAt(v, r, k) <=> on /\ r = u.crow /\ k = u.ccol
      BY <2>5, <2>6 DEF CursorAt
    <3>8. (r = u.crow /\ k = u.ccol) \/ (~CursorAt(v, r, k) /\ ~CursorAt(u, r, k))
      BY <3>7 DEF CursorAt
    <3> QED BY <3>1, <3>3, <3>4, <3>5, <3>6, <3>7, <3>8 DEF CellDrawn
  <2>8. CursorPainted(u, v, on)
    BY <2>4, <2>5 DEF CursorPainted
  <2> QED BY <2>5, <2>6, <2>7, <2>8 DEF Refreshed
<1> QED BY <1>1, <1>2

-----------------------------------------------------------------------------
(* Only the window, and whether the cursor is on, differ.                   *)
Redraws(u, v) == /\ IsText(v) /\ SameText(u, v) /\ SameRest(u, v)
                 /\ v.crow = u.crow /\ v.ccol = u.ccol

(* The highlighted segment holds all or nothing of active characters that   *)
(* follow each other: they are drawn as one string.                         *)
InSegment(u, k) == k \in u.act.from .. u.act.lim - 1
ActiveAt(b, k) == RowText(b, k) \in Active
Unbroken(u, i, j) ==
    (\A k \in i .. j : ActiveAt(At(u, u.act.row), k)) => (InSegment(u, i) <=> InSegment(u, j))
SegmentSound(u) == u.act.on => \A i, j \in Cols : i <= j => Unbroken(u, i, j)

(* DrawRowSequences.                                                        *)
DrawnCols(b, scol, lcol, blinkonly) ==
    {c \in Cols : /\ scol <= c /\ c < Least(b.n, lcol)
                  /\ b.cell[c] # Null
                  /\ blinkonly => b.cell[c] \in Blinking}
Together(b, drawn, c, d) == \A k \in d .. c : k \in drawn /\ Attrs(b.cell[k]) = Attrs(b.cell[c])
StartOf(b, drawn, scol, c) ==
    CHOOSE d \in scol .. c :
        Together(b, drawn, c, d) /\ (d = scol \/ ~Together(b, drawn, c, d - 1))

(* A run of characters that are drawn together has a start.                 *)
LEMMA StartExists ==
    ASSUME NEW b, NEW drawn \in SUBSET Cols, NEW scol \in Nat, NEW c \in drawn, scol <= c
    PROVE  StartOf(b, drawn, scol, c) \in scol .. c
           /\ Together(b, drawn, c, StartOf(b, drawn, scol, c))
<1> DEFINE T == {d \in scol .. c : Together(b, drawn, c, d)}
<1>1. c \in Nat /\ c \in T
  BY Numbers DEF Together
<1>2. PICK d \in T : \A e \in T : d <= e
  <2>1. T \subseteq Nat /\ T # {}
    BY <1>1
  <2> HIDE DEF T
  <2> QED BY <2>1, NatLeast
<1>3. d = scol \/ ~Together(b, drawn, c, d - 1)
  <2> SUFFICES ASSUME d # scol, Together(b, drawn, c, d - 1)
               PROVE  FALSE
    OBVIOUS
  <2>1. d - 1 \in T /\ ~(d <= d - 1)
    BY <1>1, <1>2
  <2> QED BY <2>1, <1>2
<1>4. d \in scol .. c /\ Together(b, drawn, c, d)
  BY <1>2
<1> QED BY <1>3, <1>4 DEF StartOf

(* The columns that are drawn, by what the row holds there.                 *)
LEMMA DrawnColumns ==
    ASSUME NEW b \in RowType, NEW scol \in Nat, NEW lcol \in Int, NEW blinkonly \in BOOLEAN,
           NEW k \in Cols
    PROVE  /\ k \in DrawnCols(b, scol, lcol, blinkonly) <=>
                /\ scol <= k /\ k < lcol /\ RowText(b, k) # Null
                /\ blinkonly => RowText(b, k) \in Blinking
           /\ k \in DrawnCols(b, scol, lcol, blinkonly) => RowText(b, k) = b.cell[k] /\ k < b.n
<1>1. b.n \in Int /\ k \in Int
  BY Numbers DEF RowType
<1>2. k < Least(b.n, lcol) <=> k < b.n /\ k < lcol
  BY <1>1 DEF Least
<1> QED BY <1>1, <1>2 DEF DrawnCols, RowText

(* Where a run of active characters starts makes no difference.             *)
LEMMA StartLooks ==
    ASSUME NEW u, IsText(u), SegmentSound(u), NEW row \in Rows, NEW scol \in Nat, NEW lcol \in Int,
           NEW blinkonly \in BOOLEAN, NEW drawn,
           drawn = DrawnCols(At(u, row), scol, lcol, blinkonly), NEW k \in drawn
    PROVE  Look(u, At(u, row).cell[k], row, StartOf(At(u, row), drawn, scol, k))
            = Look(u, RowText(At(u, row), k), row, k)
<1>1. PICK b : b = At(u, row)
  OBVIOUS
<1>2. b \in RowType /\ drawn \in SUBSET Cols
  BY <1>1, RowsExist DEF DrawnCols
<1>3. \A j \in drawn : scol <= j /\ j < b.n /\ RowText(b, j) = b.cell[j]
  BY <1>1, <1>2, DrawnColumns
<1>4. PICK d : d = StartOf(b, drawn, scol, k)
  OBVIOUS
<1>5. d \in scol .. k /\ Together(b, drawn, k, d)
  BY <1>2, <1>3, <1>4, StartExists
<1>6. \A j \in d .. k : j \in drawn /\ Attrs(b.cell[j]) = Attrs(b.cell[k])
  BY <1>5 DEF Together
<1>7. ASSUME u.act.on, row = u.act.row, b.cell[k] \in Active
      PROVE  InSegment(u, d) <=> InSegment(u, k)
  <2>1. d \in Cols /\ k \in Cols /\ d <= k
    BY <1>2, <1>5, <1>6, Numbers
  <2>2. \A j \in d .. k : ActiveAt(b, j)
    BY <1>3, <1>6, <1>7 DEF Attrs, ActiveAt
  <2>3. Unbroken(u, d, k)
    BY <2>1, <1>7 DEF SegmentSound
  <2> QED BY <2>2, <2>3, <1>1, <1>7 DEF Unbroken
<1> QED BY <1>1, <1>3, <1>4, <1>7 DEF Look, InSegment

(* What is in the window after part of a row has been drawn. *)
RowDrawn(u, v, row, scol, lcol, blinkonly) ==
    \A r \in Rows, k \in Cols :
        v.win[<<r, k>>] =
            IF /\ r = row /\ scol <= k /\ k < lcol /\ VisibleAt(u, r, k)
               /\ RowText(At(u, row), k) # Null
               /\ blinkonly => RowText(At(u, row), k) \in Blinking
            THEN Look(u, RowText(At(u, row), k), row, k)
            ELSE u.win[<<r, k>>]

(* DrawRowSequences: every character is drawn as it should look, though in  *)
(* runs.                                                                    *)
LEMMA SequencesDrawn ==
    ASSUME NEW u, IsText(u), NEW row \in Rows, NEW scol \in Nat, NEW lcol \in Int,
           NEW blinkonly \in BOOLEAN, NEW v, v = DrawRowSequences(u, row, scol, lcol, blinkonly)
    PROVE  /\ SameButWindow(u, v)
           /\ SegmentSound(u) => RowDrawn(u, v, row, scol, lcol, blinkonly)
<1>1. PICK drawn : drawn = DrawnCols(At(u, row), scol, lcol, blinkonly)
  OBVIOUS
<1>2. PICK look : look = [x \in {row} \X drawn |->
                            Look(u, At(u, row).cell[x[2]], row, StartOf(At(u, row), drawn, scol, x[2]))]
  OBVIOUS
<1>3. v = Paint(u, {row} \X drawn, look)
  BY <1>1, <1>2 DEF DrawRowSequences, DrawnCols, StartOf, Together
<1>4. PICK cells : cells = {row} \X drawn
  OBVIOUS
<1>5. /\ IsText(v) /\ SameText(u, v) /\ SameCursor(u, v) /\ SameRest(u, v)
      /\ \A c \in Cells : v.win[c] = IF c \in cells /\ c \in Visible(u) THEN look[c] ELSE u.win[c]
  BY <1>3, <1>4, Painted
<1>6. ASSUME SegmentSound(u), NEW r \in Rows, NEW k \in Cols
      PROVE  v.win[<<r, k>>] =
                IF /\ r = row /\ scol <= k /\ k < lcol /\ VisibleAt(u, r, k)
                   /\ RowText(At(u, row), k) # Null
                   /\ blinkonly => RowText(At(u, row), k) \in Blinking
                THEN Look(u, RowText(At(u, row), k), row, k)
                ELSE u.win[<<r, k>>]
  <2>1. <<r, k>> \in cells <=> r = row /\ k \in drawn
    BY <1>4
  <2>2. k \in drawn <=> /\ scol <= k /\ k < lcol /\ RowText(At(u, row), k) # Null
                        /\ blinkonly => RowText(At(u, row), k) \in Blinking
    BY <1>1, RowsExist, DrawnColumns
  <2>3. r = row /\ k \in drawn => look[<<r, k>>] = Look(u, RowText(At(u, row), k), row, k)
    <3> SUFFICES ASSUME r = row, k \in drawn
                 PROVE  look[<<r, k>>] = Look(u, RowText(At(u, row), k), row, k)
      OBVIOUS
    <3>1. look[<<r, k>>] = Look(u, At(u, row).cell[k], row, StartOf(At(u, row), drawn, scol, k))
      BY <1>2
    <3> QED BY <3>1, <1>1, <1>6, StartLooks
  <2>4. <<r, k>> \in Cells /\ (<<r, k>> \in Visible(u) <=> VisibleAt(u, r, k))
    BY CellsArePairs, VisibleIs
  <2> QED BY <1>5, <2>1, <2>2, <2>3, <2>4
<1>7. SegmentSound(u) => RowDrawn(u, v, row, scol, lcol, blinkonly)
  BY <1>6 DEF RowDrawn
<1> QED BY <1>5, <1>7 DEF SameButWindow

-----------------------------------------------------------------------------
(* A segment stays sound while the text and the segment stay.               *)
LEMMA SameSegment ==
    ASSUME NEW u, NEW v, SegmentSound(u), v.act = u.act, v.row = u.row, v.buf = u.buf
    PROVE  SegmentSound(v)
  BY DEF SegmentSound, Unbroken, InSegment, At

(* Redrawing twice.                                                         *)
LEMMA RedrawsTwice ==
    ASSUME NEW u, NEW v, NEW x, Redraws(u, v), Redraws(v, x)
    PROVE  /\ Redraws(u, x) /\ SameSize(v, x)
           /\ Refreshed(u, v) /\ Refreshed(v, x) => Refreshed(u, x)
<1>1. Redraws(u, x) /\ SameSize(v, x)
  BY DEF Redraws, SameText, SameRest, SameFrame, SameSize
<1> QED BY <1>1, RefreshedTwice

(* A cell that holds a character, or the cursor, has been drawn.            *)
RowShown(v, row, scol, lcol) ==
    \A k \in Cols :
        /\ scol <= k /\ k < lcol /\ VisibleAt(v, row, k)
        /\ RowText(At(v, row), k) # Null \/ CursorAt(v, row, k)
        => v.win[<<row, k>>] = Expected(v, <<row, k>>)

(* A row drawn where the cursor is not shows what it should.                *)
LEMMA RowRefreshed ==
    ASSUME NEW u, IsText(u), NEW row \in Rows, NEW scol \in Nat, NEW lcol \in Int, NEW v,
           SameButWindow(u, v), RowDrawn(u, v, row, scol, lcol, FALSE),
           ~(u.on /\ u.crow = row /\ u.ccol \in scol .. lcol - 1)
    PROVE  Refreshed(u, v) /\ RowShown(v, row, scol, lcol)
<1>1. IsText(v) /\ SameText(u, v) /\ SameCursor(u, v) /\ SameRest(u, v)
  BY DEF SameButWindow
<1>2. ASSUME NEW r \in Rows, NEW k \in Cols
      PROVE  /\ CellDrawn(u, v, r, k)
             /\ (/\ r = row /\ scol <= k /\ k < lcol /\ VisibleAt(v, r, k)
                 /\ RowText(At(v, r), k) # Null \/ CursorAt(v, r, k))
                => v.win[<<r, k>>] = Expected(v, <<r, k>>)
  <2>1. VisibleAt(v, r, k) <=> VisibleAt(u, r, k)
    BY <1>1, SameVisible DEF SameRest, SameFrame, SameSize
  <2>2. CharAt(v, r, k) = CharAt(u, r, k) /\ At(v, r) = At(u, r)
    BY <1>1, SameChar DEF SameRest, SameText
  <2>3. Look(v, CharAt(v, r, k), r, k) = Look(u, CharAt(u, r, k), r, k)
    BY <2>2, <1>1, SameLook DEF SameRest
  <2>4. CursorAt(v, r, k) <=> CursorAt(u, r, k)
    BY <1>1 DEF CursorAt, SameCursor
  <2>5. Expected(v, <<r, k>>) = Expected(u, <<r, k>>)
    BY <2>3, <2>4, <1>1, ExpectedIs
  <2>6. r = row /\ scol <= k /\ k < lcol => ~CursorAt(u, r, k)
    BY Numbers DEF CursorAt
  <2>7. VisibleAt(u, r, k) /\ ~CursorAt(u, r, k)
        => Expected(u, <<r, k>>) = Look(u, RowText(At(u, r), k), r, k)
    BY ExpectedInRow
  <2>8. v.win[<<r, k>>] =
            IF r = row /\ scol <= k /\ k < lcol /\ VisibleAt(u, r, k) /\ RowText(At(u, row), k) # Null
            THEN Look(u, RowText(At(u, row), k), row, k)
            ELSE u.win[<<r, k>>]
    BY DEF RowDrawn
  <2>9. CellDrawn(u, v, r, k)
    BY <2>1, <2>5, <2>6, <2>7, <2>8 DEF CellDrawn
  <2> QED BY <2>1, <2>2, <2>4, <2>5, <2>6, <2>7, <2>8, <2>9
<1>3. Refreshed(u, v)
  BY <1>2 DEF Refreshed
<1>4. RowShown(v, row, scol, lcol)
  BY <1>2 DEF RowShown
<1> QED BY <1>3, <1>4

(* DrawRowChars redraws what it should, with the cursor as it was.          *)
LEMMA RowCharsDrawn ==
    ASSUME NEW u, IsText(u), NEW row \in Rows, NEW scol \in Nat, NEW lcol \in Int,
           NEW v, v = DrawRowChars(u, row, scol, lcol)
    PROVE  /\ Redraws(u, v) /\ v.on = u.on
           /\ SegmentSound(u) => Refreshed(u, v) /\ RowShown(v, row, scol, lcol)
<1>1. CASE ~(u.crow = row /\ u.ccol \in scol .. lcol - 1)
  <2>1. v = DrawRowSequences(u, row, scol, lcol, FALSE)
    BY <1>1 DEF DrawRowChars
  <2>2. /\ SameButWindow(u, v)
        /\ SegmentSound(u) => RowDrawn(u, v, row, scol, lcol, FALSE)
    BY <2>1, SequencesDrawn
  <2>3. SegmentSound(u) => Refreshed(u, v) /\ RowShown(v, row, scol, lcol)
    BY <1>1, <2>2, RowRefreshed
  <2> QED BY <2>2, <2>3 DEF SameButWindow, SameCursor, Redraws
<1>2. CASE u.crow = row /\ u.ccol \in scol .. lcol - 1
  <2>1. PICK d : d = CursorTo(u, FALSE)
    OBVIOUS
  <2>2. PICK e : e = DrawRowSequences(d, row, scol, lcol, FALSE)
    OBVIOUS
  <2>3. v = CursorTo(e, u.on)
    BY <1>2, <2>1, <2>2 DEF DrawRowChars, CursorBack, Uncursored
  <2>4. /\ IsText(d) /\ SameText(u, d) /\ SameRest(u, d)
        /\ d.on = FALSE /\ d.crow = u.crow /\ d.ccol = u.ccol /\ Refreshed(u, d)
    BY <2>1, CursorMoved
  <2>5. /\ SameButWindow(d, e)
        /\ SegmentSound(d) => RowDrawn(d, e, row, scol, lcol, FALSE)
    BY <2>2, <2>4, SequencesDrawn
  <2>6. IsText(e) /\ SameText(d, e) /\ SameCursor(d, e) /\ SameRest(d, e)
    BY <2>5 DEF SameButWindow
  <2>7. u.on \in BOOLEAN
    BY DEF IsText
  <2>8. /\ IsText(v) /\ SameText(e, v) /\ SameRest(e, v)
        /\ v.on = u.on /\ v.crow = e.crow /\ v.ccol = e.ccol /\ Refreshed(e, v)
        /\ e.on # u.on => CursorPainted(e, v, u.on)
    BY <2>3, <2>6, <2>7, CursorMoved
  <2>9. Redraws(u, d) /\ Redraws(d, e) /\ Redraws(e, v)
    BY <2>4, <2>6, <2>8 DEF Redraws, SameCursor
  <2>10. Redraws(u, e) /\ Redraws(u, v) /\ SameSize(e, v)
    BY <2>9, RedrawsTwice
  <2>11. ASSUME SegmentSound(u)
         PROVE  Refreshed(u, v) /\ RowShown(v, row, scol, lcol)
    <3>1. SegmentSound(d)
      BY <2>4, <2>11, SameSegment DEF SameText, SameRest
    <3>2. Refreshed(d, e) /\ RowShown(e, row, scol, lcol)
      BY <2>4, <2>5, <3>1, RowRefreshed
    <3>3. Refreshed(u, v)
      BY <2>4, <2>8, <2>9, <2>10, <3>2, RedrawsTwice
    <3>4. ASSUME NEW k \in Cols, scol <= k, k < lcol, VisibleAt(v, row, k),
                 RowText(At(v, row), k) # Null \/ CursorAt(v, row, k)
          PROVE  v.win[<<row, k>>] = Expected(v, <<row, k>>)
      <4>1. VisibleAt(e, row, k)
        BY <2>10, <3>4, SameVisible
      <4>2. At(v, row) = At(e, row)
        BY <2>8 DEF SameText, At
      <4>3. CASE RowText(At(v, row), k) # Null
        <5>1. e.win[<<row, k>>] = Expected(e, <<row, k>>)
          BY <3>2, <3>4, <4>1, <4>2, <4>3 DEF RowShown
        <5>2. CellDrawn(e, v, row, k)
          BY <2>8 DEF Refreshed
        <5> QED BY <3>4, <5>1, <5>2 DEF CellDrawn
      <4>4. CASE CursorAt(v, row, k)
        <5>1. u.on = TRUE /\ e.on = FALSE /\ row = e.crow /\ k = e.ccol
          BY <4>4, <2>4, <2>6, <2>7, <2>8 DEF CursorAt, SameCursor
        <5>2. v.win[<<row, k>>] = CursorCell
          BY <5>1, <4>1, <2>8 DEF CursorPainted
        <5>3. Expected(v, <<row, k>>) = CursorCell
          BY <4>4, <2>8, ExpectedIs
        <5> QED BY <5>2, <5>3
      <4> QED BY <3>4, <4>3, <4>4
    <3>5. RowShown(v, row, scol, lcol)
      BY <3>4 DEF RowShown
    <3> QED BY <3>3, <3>5
  <2> QED BY <2>8, <2>10, <2>11
<1> QED BY <1>1, <1>2

-----------------------------------------------------------------------------
(* Assigning the segment.                                                   *)
LEMMA ActAssigned ==
    ASSUME NEW u, IsText(u), NEW x \in SegmentType, NEW v, v = [u EXCEPT !.act = x]
    PROVE  /\ IsText(v) /\ v.act = x /\ v.win = u.win /\ v.ev = u.ev
           /\ SameText(u, v) /\ SameCursor(u, v) /\ SameFrame(u, v)
  BY DEF IsText, TextFields, SameText, SameCursor, SameFrame

(* Assigning the queue.                                                     *)
LEMMA EventsAssigned ==
    ASSUME NEW u, IsText(u), NEW x \in Seq(EventType), NEW v, v = [u EXCEPT !.ev = x]
    PROVE  /\ IsText(v) /\ v.ev = x /\ v.win = u.win /\ v.act = u.act
           /\ SameText(u, v) /\ SameCursor(u, v) /\ SameFrame(u, v)
  BY DEF IsText, TextFields, SameText, SameCursor, SameFrame

(* Assigning the buffers.                                                   *)
LEMMA BuffersAssigned ==
    ASSUME NEW u, IsText(u), NEW x \in [Buffer -> RowType], NEW v, v = [u EXCEPT !.buf = x]
    PROVE  /\ IsText(v) /\ v.buf = x /\ v.row = u.row /\ v.win = u.win
           /\ v.bfirst = u.bfirst /\ v.blim = u.blim /\ v.ticking = u.ticking
           /\ SameCursor(u, v) /\ SameRest(u, v)
  BY DEF IsText, TextFields, SameCursor, SameRest, SameFrame

(* Assigning the pointers to them.                                          *)
LEMMA RowsAssigned ==
    ASSUME NEW u, IsText(u), NEW x \in [Rows -> Buffer], NEW v, v = [u EXCEPT !.row = x]
    PROVE  /\ IsText(v) /\ v.row = x /\ v.buf = u.buf /\ v.win = u.win
           /\ v.bfirst = u.bfirst /\ v.blim = u.blim /\ v.ticking = u.ticking
           /\ SameCursor(u, v) /\ SameRest(u, v)
  BY DEF IsText, TextFields, SameCursor, SameRest, SameFrame

NotesGiven(u, f, l, t) == [u EXCEPT !.bfirst = f, !.blim = l, !.ticking = t]

(* Assigning what is noted of the rows that blink.                          *)
LEMMA NotesAssigned ==
    ASSUME NEW u, IsText(u), NEW f \in Nat, NEW l \in Nat, NEW t \in BOOLEAN,
           NEW v, v = NotesGiven(u, f, l, t)
    PROVE  /\ IsText(v) /\ v.row = u.row /\ v.buf = u.buf /\ v.win = u.win
           /\ v.bfirst = f /\ v.blim = l /\ v.ticking = t
           /\ SameCursor(u, v) /\ SameRest(u, v)
  BY DEF NotesGiven, IsText, TextFields, SameCursor, SameRest, SameFrame

CursorPlaced(u, r, k) == [u EXCEPT !.crow = r, !.ccol = k]

(* Assigning the place of the cursor.                                       *)
LEMMA ColumnAssigned ==
    ASSUME NEW u, IsText(u), NEW r \in 0 .. u.nr - 1, NEW k \in 0 .. NCols,
           NEW v, v = CursorPlaced(u, r, k)
    PROVE  /\ IsText(v) /\ v.crow = r /\ v.ccol = k /\ v.on = u.on /\ v.win = u.win
           /\ SameText(u, v) /\ SameRest(u, v)
  BY DEF CursorPlaced, IsText, TextFields, SameText, SameRest, SameFrame

(* Assigning the phase of blinking.                                         *)
LEMMA PhaseAssigned ==
    ASSUME NEW u, IsText(u), NEW x \in BOOLEAN, NEW v, v = [u EXCEPT !.phase = x]
    PROVE  /\ IsText(v) /\ v.phase = x /\ v.win = u.win /\ v.act = u.act /\ v.ev = u.ev
           /\ v.nr = u.nr /\ v.hidden = u.hidden /\ v.vis = u.vis
           /\ SameText(u, v) /\ SameCursor(u, v)
  BY DEF IsText, TextFields, SameText, SameCursor

(* Assigning what the widget believes of its visibility.                    *)
LEMMA VisAssigned ==
    ASSUME NEW u, IsText(u), NEW x \in BOOLEAN, NEW v, v = [u EXCEPT !.vis = x]
    PROVE  /\ IsText(v) /\ v.vis = x /\ v.win = u.win /\ v.act = u.act /\ v.ev = u.ev
           /\ v.nr = u.nr /\ v.hidden = u.hidden /\ v.phase = u.phase
           /\ SameText(u, v) /\ SameCursor(u, v)
  BY DEF IsText, TextFields, SameText, SameCursor

-----------------------------------------------------------------------------
(* The highlighted segment is redrawn, if anything.                         *)
Calm(u, v) ==
    /\ IsText(v) /\ SameText(u, v) /\ SameFrame(u, v) /\ SameCursor(u, v) /\ v.ev = u.ev
    /\ v.act = u.act \/ ~v.act.on
    /\ SegmentSound(u) => SegmentSound(v)
    /\ Refreshed(u, v)

(* Doing nothing is calm.                                                   *)
LEMMA CalmItself ==
    ASSUME NEW u, IsText(u)
    PROVE  Calm(u, u)
  BY DEF Calm, SameText, SameFrame, SameCursor, Refreshed, CellDrawn

(* ClearOnActive, which forgets the segment and draws it plain.             *)
LEMMA OnActiveCleared ==
    ASSUME NEW u, IsText(u), NEW v, v = ClearOnActive(u)
    PROVE  Calm(u, v) /\ ~v.act.on
<1>1. PICK a : a = [u.act EXCEPT !.on = FALSE]
  OBVIOUS
<1>2. a \in SegmentType /\ ~a.on /\ u.act \in SegmentType
  BY <1>1 DEF IsText, SegmentType
<1>3. PICK w : w = [u EXCEPT !.act.on = FALSE]
  OBVIOUS
<1>4. w = [u EXCEPT !.act = a]
  BY <1>1, <1>3
<1>5. /\ IsText(w) /\ w.act = a /\ w.win = u.win /\ w.ev = u.ev
      /\ SameText(u, w) /\ SameCursor(u, w) /\ SameFrame(u, w)
  BY <1>2, <1>4, ActAssigned
<1>6. v = DrawRowChars(w, u.act.row, u.act.from, u.act.lim)
  BY <1>3 DEF ClearOnActive
<1>7. u.act.row \in Rows /\ u.act.from \in Nat /\ u.act.lim \in Int
  BY <1>2 DEF SegmentType
<1>8. SegmentSound(w)
  BY <1>2, <1>5 DEF SegmentSound
<1>9. /\ Redraws(w, v) /\ v.on = w.on /\ Refreshed(w, v)
      /\ RowShown(v, u.act.row, u.act.from, u.act.lim)
  BY <1>5, <1>6, <1>7, <1>8, RowCharsDrawn
<1>10. /\ IsText(v) /\ SameText(u, v) /\ SameFrame(u, v) /\ SameCursor(u, v) /\ v.ev = u.ev
       /\ ~v.act.on
  BY <1>2, <1>5, <1>9 DEF Redraws, SameText, SameFrame, SameCursor, SameRest
<1>11. ASSUME NEW r \in Rows, NEW k \in Cols
       PROVE  CellDrawn(u, v, r, k)
  <2>1. CellDrawn(w, v, r, k)
    BY <1>9 DEF Refreshed
  <2>2. CharAt(w, r, k) = CharAt(u, r, k)
    BY <1>5, SameChar DEF SameText
  <2>3. Expected(u, <<r, k>>) = IF CursorAt(u, r, k) THEN CursorCell ELSE Look(u, CharAt(u, r, k), r, k)
    BY ExpectedIs
  <2>4. Expected(w, <<r, k>>) = IF CursorAt(w, r, k) THEN CursorCell ELSE Look(w, CharAt(w, r, k), r, k)
    BY <1>5, ExpectedIs
  <2>5. CursorAt(w, r, k) <=> CursorAt(u, r, k)
    BY <1>5 DEF CursorAt, SameCursor
  <2>6. CASE Look(w, CharAt(u, r, k), r, k) = Look(u, CharAt(u, r, k), r, k)
    BY <2>1, <2>2, <2>3, <2>4, <2>5, <2>6, <1>5 DEF CellDrawn
  <2>7. CASE Look(w, CharAt(u, r, k), r, k) # Look(u, CharAt(u, r, k), r, k)
    <3>1. CharAt(u, r, k) \in Active /\ r = u.act.row /\ k \in u.act.from .. u.act.lim - 1
      BY <2>7, <1>2, <1>5 DEF Look, SameFrame
    <3>2. CharAt(u, r, k) # Null
      BY <3>1, TextAssumption
    <3>3. CharAt(v, r, k) = CharAt(u, r, k) /\ At(v, r) = At(u, r)
      BY <1>10, SameChar DEF SameText
    <3>4. u.act.from <= k /\ k < u.act.lim
      BY <3>1, <1>7, Numbers
    <3>5. VisibleAt(v, r, k) => RowText(At(v, r), k) # Null
      BY <3>2, <3>3 DEF VisibleAt, CharAt
    <3>6. VisibleAt(v, r, k) => v.win[<<r, k>>] = Expected(v, <<r, k>>)
      BY <3>1, <3>4, <3>5, <1>9 DEF RowShown
    <3> QED BY <3>6, <2>1, <1>5 DEF CellDrawn
  <2> QED BY <2>6, <2>7
<1>12. Refreshed(u, v)
  BY <1>11 DEF Refreshed
<1>13. SegmentSound(v)
  BY <1>10 DEF SegmentSound
<1> QED BY <1>10, <1>12, <1>13 DEF Calm

(* Before rows are changed, the segment in them is cleared.                 *)
Unmarked(u, row, nrows) == IF OnSegment(u, row, nrows) THEN ClearOnActive(u) ELSE u

(* Before a row changes, a segment on it is forgotten.                      *)
LEMMA SegmentUnmarked ==
    ASSUME NEW u, IsText(u), NEW row, NEW nrows, NEW v, v = Unmarked(u, row, nrows)
    PROVE  Calm(u, v) /\ ~OnSegment(v, row, nrows)
<1>1. CASE OnSegment(u, row, nrows)
  <2>1. v = ClearOnActive(u)
    BY <1>1 DEF Unmarked
  <2>2. Calm(u, v) /\ ~v.act.on
    BY <2>1, OnActiveCleared
  <2> QED BY <2>2 DEF OnSegment
<1>2. CASE ~OnSegment(u, row, nrows)
  <2>1. v = u
    BY <1>2 DEF Unmarked
  <2> QED BY <1>2, <2>1, CalmItself
<1> QED BY <1>1, <1>2

-----------------------------------------------------------------------------
(* Rows. *)
LEMMA NullIsChar == Null \in Char
  BY DEF Char

RowOf(n, cell, bs, bl) == [n |-> n, cell |-> cell, bs |-> bs, bl |-> bl]
CellsCleared(b, v, scol, ncols) ==
    \A k \in Cols : v.cell[k] = IF k \in scol .. scol + ncols - 1 THEN Null ELSE b.cell[k]

RowFields(n, cell, bs, bl) ==
    n \in 0 .. NCols /\ cell \in [Cols -> Char] /\ bs \in Nat /\ bl \in 0 .. NCols

(* A row buffer from its parts ...                                          *)
LEMMA RowBuilt ==
    ASSUME NEW n, NEW cell, NEW bs, NEW bl, RowFields(n, cell, bs, bl)
    PROVE  /\ RowOf(n, cell, bs, bl) \in RowType
           /\ RowOf(n, cell, bs, bl).n = n /\ RowOf(n, cell, bs, bl).cell = cell
           /\ RowOf(n, cell, bs, bl).bs = bs /\ RowOf(n, cell, bs, bl).bl = bl
  BY DEF RowType, RowOf, RowFields

(* ... and the parts of one.                                                *)
LEMMA RowParts ==
    ASSUME NEW b \in RowType
    PROVE  /\ b.n \in 0 .. NCols /\ b.n \in Nat /\ b.n <= NCols
           /\ b.cell \in [Cols -> Char] /\ b.bs \in Nat
           /\ b.bl \in 0 .. NCols /\ b.bl \in Nat /\ b.bl <= NCols
           /\ b = [n |-> b.n, cell |-> b.cell, bs |-> b.bs, bl |-> b.bl]
  BY Numbers DEF RowType

(* clear_chars on cells, when the end of the row stays.                     *)
LEMMA ClearedCellsOnly ==
    ASSUME NEW b \in RowType, NEW scol \in Nat, NEW ncols \in Nat, NEW setend \in BOOLEAN, ~setend,
           NEW v, v = ClearedChars(b, scol, ncols, setend)
    PROVE  /\ v \in RowType /\ v.n = b.n /\ v.bs = b.bs /\ v.bl = b.bl
           /\ CellsCleared(b, v, scol, ncols)
<1>1. PICK cell : cell = [c \in Cols |-> IF c \in scol .. scol + ncols - 1 THEN Null ELSE b.cell[c]]
  OBVIOUS
<1>2. cell \in [Cols -> Char]
  BY <1>1, RowParts, NullIsChar
<1>3. v = [b EXCEPT !.cell = cell]
  BY <1>1 DEF ClearedChars
<1>4. v = RowOf(b.n, cell, b.bs, b.bl)
  BY <1>3, RowParts DEF RowOf
<1>5. v \in RowType /\ v.n = b.n /\ v.cell = cell /\ v.bs = b.bs /\ v.bl = b.bl
  <2>1. RowFields(b.n, cell, b.bs, b.bl)
    BY <1>2, RowParts DEF RowFields
  <2> QED BY <2>1, <1>4, RowBuilt
<1> QED BY <1>1, <1>5 DEF CellsCleared

(* The same with setend written out.                                        *)
LEMMA ClearedCells ==
    ASSUME NEW b \in RowType, NEW scol \in Nat, NEW ncols \in Nat,
           NEW v, v = ClearedChars(b, scol, ncols, FALSE)
    PROVE  /\ v \in RowType /\ v.n = b.n /\ v.bs = b.bs /\ v.bl = b.bl
           /\ CellsCleared(b, v, scol, ncols)
<1>1. PICK setend \in BOOLEAN : setend = FALSE
  OBVIOUS
<1>2. PICK x : x = ClearedChars(b, scol, ncols, setend)
  OBVIOUS
<1>3. v = x
  BY <1>1, <1>2
<1>4. ~setend
  BY <1>1
<1>5. /\ x \in RowType /\ x.n = b.n /\ x.bs = b.bs /\ x.bl = b.bl
      /\ CellsCleared(b, x, scol, ncols)
  BY <1>2, <1>4, ClearedCellsOnly
<1> QED BY <1>3, <1>5

(* clear_chars, as the row reads afterwards.                                *)
LEMMA ClearedRow ==
    ASSUME NEW b \in RowType, NEW scol \in Nat, NEW ncols \in Nat, NEW setend \in BOOLEAN,
           NEW v, v = ClearedChars(b, scol, ncols, setend)
    PROVE  /\ v \in RowType /\ v.bs = b.bs /\ v.bl = b.bl
           /\ \A k \in Cols : RowText(v, k) = IF k \in scol .. scol + ncols - 1 THEN Null
                                              ELSE RowText(b, k)
<1>1. CASE setend /\ scol + ncols >= b.n
  <2>1. PICK n : n = Least(scol, b.n)
    OBVIOUS
  <2>2. n \in 0 .. NCols /\ (n = scol \/ n = b.n) /\ n <= scol /\ n <= b.n
    BY <2>1, RowParts, Numbers DEF Least
  <2>3. v = [b EXCEPT !.n = n]
    BY <1>1, <2>1 DEF ClearedChars
  <2>4. v = RowOf(n, b.cell, b.bs, b.bl)
    BY <2>3, RowParts DEF RowOf
  <2>5. v \in RowType /\ v.n = n /\ v.cell = b.cell /\ v.bs = b.bs /\ v.bl = b.bl
    <3>1. RowFields(n, b.cell, b.bs, b.bl)
      BY <2>2, RowParts DEF RowFields
    <3> QED BY <3>1, <2>4, RowBuilt
  <2>6. ASSUME NEW k \in Cols
        PROVE  RowText(v, k) = IF k \in scol .. scol + ncols - 1 THEN Null ELSE RowText(b, k)
    <3>1. k \in Nat /\ b.n \in Nat
      BY RowParts, Numbers
    <3>2. CASE k < n
      <4>1. k < b.n /\ k \notin scol .. scol + ncols - 1
        BY <3>1, <3>2, <2>2
      <4> QED BY <4>1, <3>2, <2>5 DEF RowText
    <3>3. CASE ~(k < n)
      <4>1. k \in scol .. scol + ncols - 1 \/ ~(k < b.n)
        BY <3>1, <3>3, <2>2, <1>1
      <4> QED BY <4>1, <3>3, <2>5 DEF RowText
    <3> QED BY <3>2, <3>3
  <2> QED BY <2>5, <2>6
<1>2. CASE ~(setend /\ scol + ncols >= b.n)
  <2>1. v = ClearedChars(b, scol, ncols, FALSE)
    BY <1>2 DEF ClearedChars
  <2>2. /\ v \in RowType /\ v.n = b.n /\ v.bs = b.bs /\ v.bl = b.bl
        /\ CellsCleared(b, v, scol, ncols)
    BY <2>1, ClearedCells
  <2>3. ASSUME NEW k \in Cols
        PROVE  RowText(v, k) = IF k \in scol .. scol + ncols - 1 THEN Null ELSE RowText(b, k)
    BY <2>2 DEF RowText, CellsCleared
  <2> QED BY <2>2, <2>3
<1> QED BY <1>1, <1>2

(* A row that holds less than another, or nothing that blinks.              *)
LEMMA LessBlinks ==
    ASSUME NEW b, NEW v, v.bs = b.bs, v.bl = b.bl,
           \A k \in Cols : RowText(v, k) = Null \/ RowText(v, k) = RowText(b, k)
    PROVE  /\ ExtentNoted(b) => ExtentNoted(v)
           /\ Blinks(v) => Blinks(b)
  BY TextAssumption DEF ExtentNoted, Blinks

(* Where the characters of a copied row come from.                          *)
Copied(v, src, dst, scol, dcol, ncols, k) ==
    RowText(v, k) = IF k \in dcol .. dcol + ncols - 1 THEN RowText(src, k - dcol + scol)
                    ELSE RowText(dst, k)

(* A column between where characters of a row have moved to and from.       *)
Between(scol, dcol, ncols, k) == dcol + ncols <= k /\ k < scol + ncols

CopiedFrom(v, src, dst, k) ==
    \/ RowText(v, k) = Null
    \/ RowText(v, k) = RowText(dst, k)
    \/ \E j \in Cols : RowText(v, k) = RowText(src, j)

CopyOf(v, src, dst, scol, dcol, ncols) ==
    /\ v \in RowType
    /\ \A k \in Cols : CopiedFrom(v, src, dst, k)
    /\ \A k \in Cols : scol <= src.n \/ (src = dst /\ ~Between(scol, dcol, ncols, k))
                         => Copied(v, src, dst, scol, dcol, ncols, k)
    /\ IF src.bl # 0 \/ dst.bl # 0 THEN v.bs = 0 /\ v.bl = v.n
       ELSE v.bs = dst.bs /\ v.bl = dst.bl

(* copy_row_chars, as the row reads afterwards.                             *)
LEMMA RowCopied ==
    ASSUME NEW src \in RowType, NEW dst \in RowType, NEW scol \in Nat, NEW dcol \in Nat,
           NEW ncols \in Nat, scol + ncols <= NCols, dcol + ncols <= NCols,
           NEW v, v = CopiedChars(src, dst, scol, dcol, ncols)
    PROVE  CopyOf(v, src, dst, scol, dcol, ncols)
<1>1. PICK short : short = Most(scol + ncols - src.n, 0)
  OBVIOUS
<1>2. PICK nc : nc = IF short > 0 THEN Most(ncols - short, 0) ELSE ncols
  OBVIOUS
<1>3. PICK dlcol : dlcol = dcol + nc
  OBVIOUS
<1>4. PICK d1 : d1 = IF dcol > dst.n THEN ClearedChars(dst, dst.n, dcol - dst.n, FALSE) ELSE dst
  OBVIOUS
<1>5. PICK toend \in BOOLEAN : toend <=> dlcol + short >= dst.n
  OBVIOUS
<1>6. PICK n : n = IF toend THEN dlcol ELSE dst.n
  OBVIOUS
<1>7. PICK trail : trail = IF toend THEN 0 ELSE short
  OBVIOUS
<1>8. PICK cell : cell = [c \in Cols |->
            IF c \in dcol .. dlcol - 1 THEN src.cell[c - dcol + scol]
            ELSE IF c \in dlcol .. dlcol + trail - 1 THEN Null
            ELSE d1.cell[c]]
  OBVIOUS
<1>9. PICK bs, bl : /\ bs = IF src.bl # 0 \/ dst.bl # 0 THEN 0 ELSE dst.bs
                    /\ bl = IF src.bl # 0 \/ dst.bl # 0 THEN n ELSE dst.bl
  OBVIOUS
<1>10. v = RowOf(n, cell, bs, bl)
  BY <1>1, <1>2, <1>3, <1>4, <1>5, <1>6, <1>7, <1>8, <1>9 DEF CopiedChars, RowOf
<1>11. PICK sn, dn : sn = src.n /\ dn = dst.n
  OBVIOUS
<1>12. sn \in Nat /\ dn \in Nat /\ sn <= NCols /\ dn <= NCols /\ NCols \in Nat
  BY <1>11, RowParts, Numbers
<1>13. /\ short \in Nat /\ nc \in Nat /\ nc <= ncols /\ dlcol \in Nat /\ dlcol <= NCols
       /\ short = 0 => nc = ncols /\ scol + ncols <= sn
       /\ short > 0 => short = scol + ncols - sn /\ (short <= ncols => nc = ncols - short)
                       /\ (short > ncols => nc = 0)
       /\ trail \in Nat /\ n \in 0 .. NCols
  BY <1>1, <1>2, <1>3, <1>6, <1>7, <1>11, <1>12 DEF Most
<1>14. /\ d1 \in RowType
       /\ \A k \in Cols : d1.cell[k] = IF dn <= k /\ k < dcol THEN Null ELSE dst.cell[k]
  <2>1. CASE dcol > dn
    <3>1. PICK m : m = dcol - dn
      OBVIOUS
    <3>2. m \in Nat /\ d1 = ClearedChars(dst, dn, m, FALSE)
      <4>1. dcol > dst.n
        BY <2>1, <1>11
      <4>2. d1 = ClearedChars(dst, dst.n, dcol - dst.n, FALSE)
        BY <4>1, <1>4
      <4>3. m \in Nat
        BY <2>1, <3>1, <1>12
      <4> QED BY <3>1, <4>2, <4>3, <1>11
    <3>3. d1 \in RowType /\ CellsCleared(dst, d1, dn, m)
      BY <3>2, <1>12, ClearedCells
    <3> QED BY <3>1, <3>3, <1>12, <2>1, Numbers DEF CellsCleared
  <2>2. CASE ~(dcol > dn)
    <3>1. d1 = dst
      BY <2>2, <1>4, <1>11
    <3> QED BY <3>1, <2>2, <1>12, Numbers
  <2> QED BY <2>1, <2>2
<1>15. ASSUME NEW k \in Cols
       PROVE  cell[k] = IF dcol <= k /\ k < dlcol THEN src.cell[k - dcol + scol]
                        ELSE IF dlcol <= k /\ k < dlcol + trail THEN Null
                        ELSE IF dn <= k /\ k < dcol THEN Null ELSE dst.cell[k]
  <2>1. cell[k] = IF k \in dcol .. dlcol - 1 THEN src.cell[k - dcol + scol]
                  ELSE IF k \in dlcol .. dlcol + trail - 1 THEN Null
                  ELSE d1.cell[k]
    BY <1>8
  <2>2. /\ k \in dcol .. dlcol - 1 <=> dcol <= k /\ k < dlcol
        /\ k \in dlcol .. dlcol + trail - 1 <=> dlcol <= k /\ k < dlcol + trail
    BY <1>13, Numbers
  <2>3. d1.cell[k] = IF dn <= k /\ k < dcol THEN Null ELSE dst.cell[k]
    BY <1>14
  <2> QED BY ONLY <2>1, <2>2, <2>3
<1>16. cell \in [Cols -> Char]
  <2>1. ASSUME NEW k \in Cols
        PROVE  cell[k] \in Char
    <3>1. dcol <= k /\ k < dlcol => k - dcol + scol \in Cols
      BY <1>3, <1>12, <1>13, Numbers
    <3> QED BY <3>1, <1>15, RowParts, NullIsChar
  <2> QED BY <2>1, <1>8
<1>17. bs \in Nat /\ bl \in 0 .. NCols
  BY <1>9, <1>13, RowParts
<1>18. v \in RowType /\ v.n = n /\ v.cell = cell /\ v.bs = bs /\ v.bl = bl
  <2>1. RowFields(n, cell, bs, bl)
    BY <1>13, <1>16, <1>17 DEF RowFields
  <2> QED BY <2>1, <1>10, RowBuilt
<1>19. ASSUME NEW k \in Cols
       PROVE  CopiedFrom(v, src, dst, k)
  <2>1. k \in Nat
    BY Numbers
  <2>2. CASE ~(k < n)
    BY <2>2, <1>18 DEF CopiedFrom, RowText
  <2>3. CASE k < n /\ dcol <= k /\ k < dlcol
    <3>1. k - dcol + scol \in Cols /\ k - dcol + scol < sn
      BY <2>1, <2>3, <1>3, <1>12, <1>13, Numbers
    <3>2. RowText(v, k) = src.cell[k - dcol + scol]
      BY <2>3, <1>15, <1>18 DEF RowText
    <3>3. RowText(src, k - dcol + scol) = src.cell[k - dcol + scol]
      BY <3>1, <1>11 DEF RowText
    <3> QED BY <3>1, <3>2, <3>3 DEF CopiedFrom
  <2>4. CASE k < n /\ ~(dcol <= k /\ k < dlcol)
    <3>1. cell[k] = Null \/ (cell[k] = dst.cell[k] /\ ~(dn <= k /\ k < dcol))
      <4>1. cell[k] = IF dcol <= k /\ k < dlcol THEN src.cell[k - dcol + scol]
                      ELSE IF dlcol <= k /\ k < dlcol + trail THEN Null
                      ELSE IF dn <= k /\ k < dcol THEN Null ELSE dst.cell[k]
        BY <1>15
      <4> QED BY <2>4, <4>1
    <3>2. k < dn \/ cell[k] = Null
      BY <2>1, <2>4, <3>1, <1>3, <1>5, <1>6, <1>11, <1>12, <1>13
    <3> QED BY <3>1, <3>2, <2>4, <1>11, <1>18 DEF CopiedFrom, RowText
  <2> QED BY <2>1, <2>2, <2>3, <2>4
<1>20. ASSUME NEW k \in Cols, scol <= sn \/ (src = dst /\ ~Between(scol, dcol, ncols, k))
       PROVE  Copied(v, src, dst, scol, dcol, ncols, k)
  <2>1. k \in Nat /\ (k \in dcol .. dcol + ncols - 1 <=> dcol <= k /\ k < dcol + ncols)
    BY Numbers
  <2>2. RowText(v, k) = IF k < n THEN cell[k] ELSE Null
    BY <1>18 DEF RowText
  <2>3. RowText(dst, k) = IF k < dn THEN dst.cell[k] ELSE Null
    BY <1>11 DEF RowText
  <2>4. RowText(src, k - dcol + scol) = IF k - dcol + scol < sn THEN src.cell[k - dcol + scol] ELSE Null
    BY <1>11 DEF RowText
  <2>5. CASE dcol <= k /\ k < dcol + ncols
    <3>1. RowText(v, k) = RowText(src, k - dcol + scol)
      <4>1. CASE k < dlcol
        <5>1. k - dcol + scol < sn /\ k < n
          BY <2>1, <2>5, <4>1, <1>3, <1>5, <1>6, <1>11, <1>12, <1>13
        <5> QED BY <5>1, <2>1, <2>2, <2>4, <2>5, <4>1, <1>15
      <4>2. CASE ~(k < dlcol)
        <5>1. ~(k - dcol + scol < sn)
          BY <2>1, <2>5, <4>2, <1>3, <1>12, <1>13
        <5>2. ~(k < n) \/ (dlcol <= k /\ k < dlcol + trail)
          BY <2>1, <2>5, <4>2, <1>3, <1>5, <1>6, <1>7, <1>11, <1>12, <1>13
        <5> QED BY <5>1, <5>2, <2>1, <2>2, <2>4, <4>2, <1>15
      <4> QED BY <4>1, <4>2
    <3> QED BY <2>1, <2>5, <3>1 DEF Copied
  <2>6. CASE k < dcol
    <3>1. RowText(v, k) = RowText(dst, k)
      <4>1. cell[k] = IF dn <= k THEN Null ELSE dst.cell[k]
        BY <2>1, <2>6, <1>3, <1>13, <1>15
      <4>2. k < dn => k < n
        BY <2>1, <2>6, <1>3, <1>6, <1>11, <1>12, <1>13
      <4> QED BY <4>1, <4>2, <2>1, <2>2, <2>3, <1>12
    <3> QED BY <2>1, <2>6, <3>1 DEF Copied
  <2>7. CASE dcol + ncols <= k
    <3>1. RowText(v, k) = RowText(dst, k)
      <4>1. CASE scol <= sn
        <5>1. dlcol + short <= k
          BY <2>1, <2>7, <4>1, <1>3, <1>12, <1>13
        <5>2. cell[k] = dst.cell[k]
          BY <2>1, <2>7, <5>1, <1>3, <1>7, <1>12, <1>13, <1>15
        <5>3. k < dn <=> k < n
          BY <2>1, <2>7, <5>1, <1>3, <1>5, <1>6, <1>11, <1>12, <1>13
        <5> QED BY <5>2, <5>3, <2>2, <2>3
      <4>2. CASE scol > sn
        <5>1. sn = dn /\ scol + ncols <= k
          BY <2>1, <2>7, <4>2, <1>11, <1>12, <1>20 DEF Between
        <5>2. nc = 0 /\ dlcol = dcol
          BY <4>2, <1>3, <1>12, <1>13
        <5>3. ~(k < dn) /\ ~(k < dlcol)
          BY <2>1, <2>7, <4>2, <5>1, <5>2, <1>12, <1>13
        <5>4. ~(k < n)
          BY <5>3, <1>6, <1>11
        <5> QED BY <5>3, <5>4, <2>2, <2>3
      <4> QED BY <4>1, <4>2, <1>12
    <3> QED BY <2>1, <2>7, <3>1 DEF Copied
  <2> QED BY <2>1, <2>5, <2>6, <2>7
<1>21. \A k \in Cols : scol <= src.n \/ (src = dst /\ ~Between(scol, dcol, ncols, k))
                        => Copied(v, src, dst, scol, dcol, ncols, k)
  BY <1>11, <1>20
<1>22. IF src.bl # 0 \/ dst.bl # 0 THEN v.bs = 0 /\ v.bl = v.n
       ELSE v.bs = dst.bs /\ v.bl = dst.bl
  BY <1>9, <1>18
<1> QED BY <1>18, <1>19, <1>21, <1>22 DEF CopyOf

(* What blinks is noted when it has been copied. *)
LEMMA CopiedBlinks ==
    ASSUME NEW src \in RowType, NEW dst \in RowType, NEW v \in RowType,
           ExtentNoted(src), ExtentNoted(dst), \A k \in Cols : CopiedFrom(v, src, dst, k),
           IF src.bl # 0 \/ dst.bl # 0 THEN v.bs = 0 /\ v.bl = v.n
           ELSE v.bs = dst.bs /\ v.bl = dst.bl
    PROVE  ExtentNoted(v) /\ (Blinks(v) => Blinks(src) \/ Blinks(dst))
<1>1. ASSUME NEW k \in Cols, RowText(v, k) \in Blinking
      PROVE  /\ Blinks(src) \/ Blinks(dst)
             /\ v.bs <= k /\ k < v.bl
  <2>1. RowText(v, k) # Null
    BY <1>1, TextAssumption
  <2>2. RowText(dst, k) \in Blinking \/ \E j \in Cols : RowText(src, j) \in Blinking
    BY <1>1, <2>1 DEF CopiedFrom
  <2>3. k \in Nat /\ \A j \in Cols : j \in Nat
    BY Numbers
  <2>4. src.bl # 0 \/ dst.bl # 0
    BY <2>2, <2>3, RowParts DEF ExtentNoted
  <2>5. k < v.n
    BY <2>1 DEF RowText
  <2> QED BY <2>2, <2>3, <2>4, <2>5 DEF Blinks
<1> QED BY <1>1 DEF ExtentNoted, Blinks

-----------------------------------------------------------------------------
(* The text and its rows, and what an edit of it leaves alone.              *)
Sound(u) == IsText(u) /\ RowsIn(u)
SameNotes(u, v) == v.bfirst = u.bfirst /\ v.blim = u.blim /\ v.ticking = u.ticking
Edited(u, v) ==
    /\ Sound(v) /\ SameFrame(u, v) /\ SameCursor(u, v) /\ v.ev = u.ev
    /\ v.act = u.act \/ ~v.act.on
    /\ SegmentSound(u) => SegmentSound(v)

(* What is known of one row.                                                *)
LEMMA SoundRows ==
    ASSUME NEW u, Sound(u), NEW r \in Rows
    PROVE  /\ u.row[r] \in Buffer /\ At(u, r) \in RowType /\ At(u, r) = u.buf[u.row[r]]
           /\ ExtentNoted(At(u, r)) /\ (Blinks(At(u, r)) => RowNoted(u, r))
           /\ \A q \in Rows : u.row[r] = u.row[q] => r = q
  BY RowsExist DEF Sound, RowsIn

(* Rows stay sound while no row begins to blink.                            *)
LEMMA RowsStayIn ==
    ASSUME NEW u, Sound(u), NEW v, v.row = u.row, SameNotes(u, v), v.nr = u.nr,
           \A r \in Rows : ExtentNoted(At(v, r)) /\ (Blinks(At(v, r)) => Blinks(At(u, r)))
    PROVE  RowsIn(v)
  BY DEF Sound, RowsIn, SameNotes, RowNoted

(* A segment stays sound while its row reads the same.                      *)
LEMMA SegmentText ==
    ASSUME NEW u, IsText(u), NEW v, SegmentSound(u), v.act = u.act,
           \A k \in Cols : RowText(At(v, u.act.row), k) = RowText(At(u, u.act.row), k)
    PROVE  SegmentSound(v)
<1> SUFFICES ASSUME v.act.on, NEW i \in Cols, NEW j \in Cols, i <= j
             PROVE  Unbroken(v, i, j)
  BY DEF SegmentSound
<1>1. Unbroken(u, i, j)
  BY DEF SegmentSound
<1>2. \A k \in i .. j : k \in Cols
  BY Numbers
<1> QED BY <1>1, <1>2 DEF Unbroken, ActiveAt, InSegment

(* No segment is a sound one.                                               *)
LEMMA SegmentOff ==
    ASSUME NEW v, ~v.act.on
    PROVE  SegmentSound(v)
  BY DEF SegmentSound

(* A row is set.                                                            *)
BuffersApart(u) == \A r, q \in Rows : u.row[r] = u.row[q] => r = q

(* Assigning one row.                                                       *)
LEMMA RowSet ==
    ASSUME NEW u, IsText(u), BuffersApart(u), NEW row \in Rows, NEW b \in RowType, NEW v, v = SetRow(u, row, b)
    PROVE  /\ IsText(v) /\ v.row = u.row /\ v.win = u.win /\ SameNotes(u, v)
           /\ SameCursor(u, v) /\ SameRest(u, v)
           /\ \A r \in Rows : At(v, r) = IF r = row THEN b ELSE At(u, r)
<1>1. PICK x : x = [u.buf EXCEPT ![u.row[row]] = b]
  OBVIOUS
<1>2. u.buf \in [Buffer -> RowType] /\ u.row[row] \in Buffer
  BY RowsExist DEF IsText
<1>3. x \in [Buffer -> RowType] /\ \A p \in Buffer : x[p] = IF p = u.row[row] THEN b ELSE u.buf[p]
  BY <1>1, <1>2
<1>4. v = [u EXCEPT !.buf = x]
  BY <1>1 DEF SetRow
<1>5. /\ IsText(v) /\ v.buf = x /\ v.row = u.row /\ v.win = u.win
      /\ v.bfirst = u.bfirst /\ v.blim = u.blim /\ v.ticking = u.ticking
      /\ SameCursor(u, v) /\ SameRest(u, v)
  BY <1>3, <1>4, BuffersAssigned
<1>6. ASSUME NEW r \in Rows
      PROVE  At(v, r) = IF r = row THEN b ELSE At(u, r)
  <2>1. u.row[r] \in Buffer /\ (u.row[r] = u.row[row] => r = row)
    BY RowsExist DEF BuffersApart
  <2> QED BY <2>1, <1>3, <1>5 DEF At
<1> QED BY <1>5, <1>6 DEF SameNotes

RowCleared(b, v, scol, ncols) ==
    /\ v \in RowType /\ v.bs = b.bs /\ v.bl = b.bl
    /\ \A k \in Cols : RowText(v, k) = IF k \in scol .. scol + ncols - 1 THEN Null
                                       ELSE RowText(b, k)

(* A row cleared to its end reads empty there.                              *)
LEMMA ClearedToEnd ==
    ASSUME NEW b \in RowType, NEW scol \in Nat, NEW ncols \in Nat
    PROVE  RowCleared(b, ClearedChars(b, scol, ncols, TRUE), scol, ncols)
<1>1. PICK setend \in BOOLEAN : setend = TRUE
  OBVIOUS
<1>2. PICK v : v = ClearedChars(b, scol, ncols, setend)
  OBVIOUS
<1>3. v = ClearedChars(b, scol, ncols, TRUE)
  BY <1>1, <1>2
<1>4. RowCleared(b, v, scol, ncols)
  BY <1>2, ClearedRow DEF RowCleared
<1> QED BY <1>3, <1>4

(* Parts of rows are cleared.                                               *)
InRows(r, row, nrows) == row <= r /\ r < row + nrows
InArea(r, k, row, nrows, col, ncols) == InRows(r, row, nrows) /\ col <= k /\ k < col + ncols

(* clear_chars on several rows.                                             *)
LEMMA CharsCleared ==
    ASSUME NEW u, Sound(u), NEW row \in Nat, NEW nrows \in Int, row + nrows <= NRows,
           NEW col \in Nat, NEW ncols \in Nat, NEW v, v = ClearChars(u, row, nrows, col, ncols)
    PROVE  /\ IsText(v) /\ RowsIn(v) /\ v.row = u.row /\ v.win = u.win
           /\ SameCursor(u, v) /\ SameRest(u, v)
           /\ \A r \in Rows, k \in Cols :
                RowText(At(v, r), k) = IF InArea(r, k, row, nrows, col, ncols) THEN Null
                                       ELSE RowText(At(u, r), k)
<1>1. PICK x : x = [p \in Buffer |->
                        IF \E r \in row .. row + nrows - 1 : u.row[r] = p
                        THEN ClearedChars(u.buf[p], col, ncols, TRUE) ELSE u.buf[p]]
  OBVIOUS
<1>2. u.buf \in [Buffer -> RowType]
  BY DEF Sound, IsText
<1>3. x \in [Buffer -> RowType]
  <2>1. ASSUME NEW p \in Buffer
        PROVE  x[p] \in RowType
    <3>1. ClearedChars(u.buf[p], col, ncols, TRUE) \in RowType
      BY <1>2, ClearedToEnd DEF RowCleared
    <3> QED BY <1>1, <1>2, <3>1
  <2> QED BY <2>1, <1>1
<1>4. v = [u EXCEPT !.buf = x]
  BY <1>1 DEF ClearChars
<1>5. /\ IsText(v) /\ v.buf = x /\ v.row = u.row /\ v.win = u.win
      /\ v.bfirst = u.bfirst /\ v.blim = u.blim /\ v.ticking = u.ticking
      /\ SameCursor(u, v) /\ SameRest(u, v)
  BY <1>3, <1>4, BuffersAssigned DEF Sound
<1>6. ASSUME NEW r \in Rows
      PROVE  At(v, r) = IF InRows(r, row, nrows) THEN ClearedChars(At(u, r), col, ncols, TRUE)
                        ELSE At(u, r)
  <2>1. u.row[r] \in Buffer /\ At(u, r) = u.buf[u.row[r]] /\ \A q \in Rows : u.row[r] = u.row[q] => r = q
    BY SoundRows
  <2>2. At(v, r) = x[u.row[r]]
    BY <1>5 DEF At
  <2>3. (\E q \in row .. row + nrows - 1 : u.row[q] = u.row[r]) <=> InRows(r, row, nrows)
    <3>1. \A q \in row .. row + nrows - 1 : q \in Rows /\ InRows(q, row, nrows)
      BY Numbers DEF InRows
    <3>2. InRows(r, row, nrows) => r \in row .. row + nrows - 1
      BY Numbers DEF InRows
    <3> QED BY <2>1, <3>1, <3>2
  <2> QED BY <2>1, <2>2, <2>3, <1>1
<1>7. ASSUME NEW r \in Rows
      PROVE  /\ \A k \in Cols : RowText(At(v, r), k) =
                    IF InArea(r, k, row, nrows, col, ncols) THEN Null ELSE RowText(At(u, r), k)
             /\ ExtentNoted(At(v, r)) /\ (Blinks(At(v, r)) => Blinks(At(u, r)))
  <2>1. At(u, r) \in RowType /\ ExtentNoted(At(u, r))
    BY SoundRows
  <2>2. CASE InRows(r, row, nrows)
    <3>1. PICK b : b = ClearedChars(At(u, r), col, ncols, TRUE)
      OBVIOUS
    <3> RowCleared(At(u, r), ClearedChars(At(u, r), col, ncols, TRUE), col, ncols)
      BY <2>1, ClearedToEnd
    <3> RowCleared(At(u, r), b, col, ncols)
      BY <3>1
    <3>2. At(v, r) = b
      BY <1>6, <2>2, <3>1
    <3>3. /\ b.bs = At(u, r).bs /\ b.bl = At(u, r).bl
          /\ \A k \in Cols : RowText(b, k) = IF k \in col .. col + ncols - 1 THEN Null
                                             ELSE RowText(At(u, r), k)
      BY DEF RowCleared
    <3>4. ASSUME NEW k \in Cols
          PROVE  RowText(b, k) = IF InArea(r, k, row, nrows, col, ncols) THEN Null
                                 ELSE RowText(At(u, r), k)
      BY <2>2, <3>3, Numbers DEF InArea
    <3>5. (ExtentNoted(At(u, r)) => ExtentNoted(b)) /\ (Blinks(b) => Blinks(At(u, r)))
      BY <3>3, <3>4, LessBlinks
    <3> QED BY <2>1, <3>2, <3>4, <3>5
  <2>3. CASE ~InRows(r, row, nrows)
    BY <1>6, <2>1, <2>3 DEF InArea
  <2> QED BY <2>2, <2>3
<1>8. RowsIn(v)
  <2>1. SameNotes(u, v) /\ v.nr = u.nr
    BY <1>5 DEF SameNotes, SameRest, SameFrame
  <2> QED BY <2>1, <1>5, <1>7, RowsStayIn
<1> QED BY <1>5, <1>7, <1>8

-----------------------------------------------------------------------------
(* A cell should show the same while its row reads the same.                *)
LEMMA SameExpected ==
    ASSUME NEW u, IsText(u), NEW v, IsText(v), SameFrame(u, v), SameCursor(u, v), v.act = u.act,
           NEW r \in Rows, NEW k \in Cols, RowText(At(v, r), k) = RowText(At(u, r), k)
    PROVE  Expected(v, <<r, k>>) = Expected(u, <<r, k>>)
<1>1. CharAt(v, r, k) = CharAt(u, r, k)
  BY DEF CharAt, SameFrame
<1>2. CursorAt(v, r, k) <=> CursorAt(u, r, k)
  BY DEF CursorAt, SameCursor
<1>3. Look(v, CharAt(u, r, k), r, k) = Look(u, CharAt(u, r, k), r, k)
  BY SameLook
<1> QED BY <1>1, <1>2, <1>3, ExpectedIs

(* Every cell of an area that can be seen shows the text.                   *)
AreaShown(v, row, nrows, col, ncols) ==
    \A r \in Rows, k \in Cols :
        InArea(r, k, row, nrows, col, ncols) /\ VisibleAt(v, r, k)
            => v.win[<<r, k>>] = Expected(v, <<r, k>>)

CursorIn(u, row, nrows, col, ncols) == u.on /\ InArea(u.crow, u.ccol, row, nrows, col, ncols)

AreaCells(row, nrows, col, ncols) ==
    (row .. row + nrows - 1) \X (col .. Least(col + ncols, NCols) - 1)

AreaBlank(u, v, row, nrows, col, ncols) ==
    \A r \in Rows, k \in Cols : v.win[<<r, k>>] =
        IF InArea(r, k, row, nrows, col, ncols) /\ VisibleAt(u, r, k) THEN Blank ELSE u.win[<<r, k>>]

(* Filling an area with the background.                                     *)
LEMMA AreaFilled ==
    ASSUME NEW u, IsText(u), NEW row \in Nat, NEW nrows \in Int, NEW col \in Nat, NEW ncols \in Nat,
           NEW cells, cells = AreaCells(row, nrows, col, ncols), NEW v, v = Fill(u, cells)
    PROVE  SameButWindow(u, v) /\ AreaBlank(u, v, row, nrows, col, ncols)
<1>1. PICK look : look = [c \in cells |-> Blank]
  OBVIOUS
<1>2. v = Paint(u, cells, look)
  BY <1>1 DEF Fill
<1>3. /\ IsText(v) /\ SameText(u, v) /\ SameCursor(u, v) /\ SameRest(u, v)
      /\ \A c \in Cells : v.win[c] = IF c \in cells /\ c \in Visible(u) THEN look[c] ELSE u.win[c]
  BY <1>2, Painted
<1>4. ASSUME NEW r \in Rows, NEW k \in Cols
      PROVE  v.win[<<r, k>>] = IF InArea(r, k, row, nrows, col, ncols) /\ VisibleAt(u, r, k) THEN Blank
                               ELSE u.win[<<r, k>>]
  <2>1. <<r, k>> \in cells <=> InArea(r, k, row, nrows, col, ncols)
    <3>1. PICK lim : lim = Least(col + ncols, NCols)
      OBVIOUS
    <3>2. lim \in Nat /\ (k < lim <=> k < col + ncols)
      BY <3>1, Numbers DEF Least
    <3>3. cells = (row .. row + nrows - 1) \X (col .. lim - 1)
      BY <3>1 DEF AreaCells
    <3>4. <<r, k>> \in cells <=> r \in row .. row + nrows - 1 /\ k \in col .. lim - 1
      BY <3>3
    <3> QED BY <3>2, <3>4, Numbers DEF InArea, InRows
  <2>2. <<r, k>> \in cells => look[<<r, k>>] = Blank
    BY <1>1
  <2>3. <<r, k>> \in Cells /\ (<<r, k>> \in Visible(u) <=> VisibleAt(u, r, k))
    BY CellsArePairs, VisibleIs
  <2> QED BY <1>3, <2>1, <2>2, <2>3
<1> QED BY <1>3, <1>4 DEF SameButWindow, AreaBlank

Width(ncols) == IF ncols = 0 THEN MAX_COLS ELSE ncols

(* ClearText: buffers and window lose the same cells.                       *)
LEMMA TextCleared ==
    ASSUME NEW u, Sound(u), NEW row \in Nat, NEW nrows \in Int, row + nrows <= NRows,
           NEW col \in Nat, NEW ncols0 \in Nat, NEW ncols, ncols = Width(ncols0),
           NEW v, v = ClearText(u, row, nrows, col, ncols0)
    PROVE  /\ Edited(u, v)
           /\ SegmentSound(u) /\ ~CursorIn(u, row, nrows, col, ncols)
                => Refreshed(u, v) /\ AreaShown(v, row, nrows, col, ncols)
<1>1. PICK w : w = Unmarked(u, row, nrows)
  OBVIOUS
<1>2. PICK x : x = ClearChars(w, row, nrows, col, ncols)
  OBVIOUS
<1> PICK cells : cells = AreaCells(row, nrows, col, ncols)
  OBVIOUS
<1>3. v = Fill(x, cells)
  BY <1>1, <1>2 DEF ClearText, Unmarked, AreaCells, Width
<1>4. ncols \in Nat
  BY Numbers DEF Width, MAX_COLS
<1>5. Calm(u, w) /\ ~OnSegment(w, row, nrows)
  BY <1>1, SegmentUnmarked DEF Sound
<1>6. /\ IsText(w) /\ SameText(u, w) /\ SameFrame(u, w) /\ SameCursor(u, w) /\ w.ev = u.ev
      /\ w.act = u.act \/ ~w.act.on
      /\ SegmentSound(u) => SegmentSound(w)
      /\ Refreshed(u, w)
  BY <1>5 DEF Calm
<1>7. Sound(w)
  BY <1>6 DEF Sound, SameText, SameFrame, RowsIn, RowNoted, At
<1>8. /\ IsText(x) /\ RowsIn(x) /\ x.row = w.row /\ x.win = w.win
      /\ SameCursor(w, x) /\ SameRest(w, x)
      /\ \A r \in Rows, k \in Cols :
            RowText(At(x, r), k) = IF InArea(r, k, row, nrows, col, ncols) THEN Null
                                   ELSE RowText(At(w, r), k)
  BY <1>2, <1>4, <1>7, CharsCleared
<1>9. SameButWindow(x, v) /\ AreaBlank(x, v, row, nrows, col, ncols)
  BY <1>3, <1>4, <1>8, AreaFilled
<1>10. /\ IsText(v) /\ SameText(x, v) /\ SameCursor(x, v) /\ SameRest(x, v)
  BY <1>9 DEF SameButWindow
<1>11. Sound(v)
  BY <1>8, <1>10 DEF Sound, SameText, SameRest, SameFrame, RowsIn, RowNoted, At
<1>12. /\ SameFrame(w, v) /\ SameCursor(w, v) /\ v.ev = w.ev /\ v.act = w.act
       /\ \A r \in Rows, k \in Cols :
            RowText(At(v, r), k) = IF InArea(r, k, row, nrows, col, ncols) THEN Null
                                   ELSE RowText(At(w, r), k)
  <2>1. \A r \in Rows : At(v, r) = At(x, r)
    BY <1>10 DEF SameText, At
  <2> QED BY <2>1, <1>8, <1>10 DEF SameRest, SameFrame, SameCursor
<1>13. SegmentSound(w) => SegmentSound(v)
  <2>1. CASE w.act.on
    <3>1. w.act.row \in Rows /\ ~InRows(w.act.row, row, nrows)
      <4>1. w.act.row \in Rows
        BY <1>6 DEF IsText, SegmentType
      <4> QED BY <4>1, <2>1, <1>5, Numbers DEF OnSegment, InRows
    <3>2. \A k \in Cols : RowText(At(v, w.act.row), k) = RowText(At(w, w.act.row), k)
      BY <3>1, <1>12 DEF InArea
    <3> QED BY <3>2, <1>6, <1>12, SegmentText
  <2>2. CASE ~w.act.on
    BY <2>2, <1>12, SegmentOff
  <2> QED BY <2>1, <2>2
<1>14. Edited(u, v)
  BY <1>6, <1>11, <1>12, <1>13 DEF Edited, SameFrame, SameCursor
<1>15. ASSUME ~CursorIn(u, row, nrows, col, ncols), NEW r \in Rows, NEW k \in Cols
       PROVE  /\ CellDrawn(w, v, r, k)
              /\ InArea(r, k, row, nrows, col, ncols) /\ VisibleAt(v, r, k)
                    => v.win[<<r, k>>] = Expected(v, <<r, k>>)
  <2>1. (VisibleAt(v, r, k) <=> VisibleAt(w, r, k)) /\ (VisibleAt(x, r, k) <=> VisibleAt(w, r, k))
    BY <1>8, <1>12 DEF SameRest, SameFrame, VisibleAt
  <2>2. CASE InArea(r, k, row, nrows, col, ncols)
    <3>1. RowText(At(v, r), k) = Null
      BY <2>2, <1>12
    <3>2. ~CursorAt(v, r, k)
      BY <2>2, <1>6, <1>12, <1>15 DEF CursorAt, CursorIn, SameCursor
    <3>3. VisibleAt(v, r, k) => Expected(v, <<r, k>>) = Blank
      BY <3>1, <3>2, <1>10, ExpectedInRow, NullLook
    <3> QED BY <2>1, <2>2, <3>3, <1>8, <1>9 DEF CellDrawn, AreaBlank
  <2>3. CASE ~InArea(r, k, row, nrows, col, ncols)
    <3>1. Expected(v, <<r, k>>) = Expected(w, <<r, k>>)
      BY <2>3, <1>6, <1>10, <1>12, SameExpected
    <3> QED BY <2>3, <3>1, <1>8, <1>9 DEF CellDrawn, AreaBlank
  <2> QED BY <2>2, <2>3
<1>16. ASSUME ~CursorIn(u, row, nrows, col, ncols)
       PROVE  Refreshed(u, v) /\ AreaShown(v, row, nrows, col, ncols)
  <2>1. Refreshed(w, v) /\ AreaShown(v, row, nrows, col, ncols)
    BY <1>15, <1>16 DEF Refreshed, AreaShown
  <2>2. SameSize(w, v)
    BY <1>12 DEF SameSize, SameFrame
  <2> QED BY <2>1, <2>2, <1>6, RefreshedTwice
<1> QED BY <1>14, <1>16

-----------------------------------------------------------------------------
(* Rows move.                                                               *)
InPlace(u, row, nrows, dr) ==
    /\ row \in Nat /\ nrows \in Nat /\ dr \in Int
    /\ row + nrows <= u.nr /\ row + dr >= 0 /\ row + dr + nrows <= u.nr

(* The row that takes the place of row r when rows rotate.                  *)
Origin(r, row, nrows, dr, savesrc, savelim, savedst) ==
    IF r - row - dr \in 0 .. nrows - 1 THEN r - dr
    ELSE IF r - row - savedst \in 0 .. savelim - savesrc - 1 THEN r - savedst + savesrc
    ELSE r

Saved(nrows, dr, savesrc, savelim, savedst) ==
    /\ savesrc = IF dr < 0 THEN dr ELSE Most(dr, nrows)
    /\ savelim = IF dr < 0 THEN Least(dr + nrows, 0) ELSE dr + nrows
    /\ savedst = IF dr < 0 THEN Most(dr + nrows, 0) ELSE 0

OriginSound(o, r, row, nrows, dr, nr) ==
    /\ o \in Nat
    /\ r < nr => o < nr
    /\ r >= nr => o = r
    /\ InRows(r - dr, row, nrows) => o = r - dr
    /\ ~InRows(r - dr, row, nrows) /\ ~InRows(r, row, nrows) => o = r

(* Where each row's pointer comes from when rows rotate: each from another  *)
(* place.                                                                   *)
LEMMA OriginRows ==
    ASSUME NEW nr \in Nat, NEW row \in Nat, NEW nrows \in Nat, NEW dr \in Int,
           row + nrows <= nr, row + dr >= 0, row + dr + nrows <= nr,
           NEW savesrc, NEW savelim, NEW savedst, Saved(nrows, dr, savesrc, savelim, savedst),
           NEW r \in Nat, NEW o, o = Origin(r, row, nrows, dr, savesrc, savelim, savedst)
    PROVE  /\ OriginSound(o, r, row, nrows, dr, nr)
           /\ \A q \in Nat : Origin(q, row, nrows, dr, savesrc, savelim, savedst) = o => q = r
<1>1. savesrc \in Int /\ savelim \in Int /\ savedst \in Int
  BY DEF Saved, Least, Most
<1>2. CASE dr < 0 /\ dr + nrows < 0
  <2>1. savesrc = dr /\ savelim = dr + nrows /\ savedst = 0
    BY <1>2 DEF Saved, Least, Most
  <2> QED BY <1>1, <1>2, <2>1 DEF Origin, OriginSound, InRows
<1>3. CASE dr < 0 /\ dr + nrows >= 0
  <2>1. savesrc = dr /\ savelim = 0 /\ savedst = dr + nrows
    BY <1>3 DEF Saved, Least, Most
  <2> QED BY <1>1, <1>3, <2>1 DEF Origin, OriginSound, InRows
<1>4. CASE dr >= 0 /\ dr < nrows
  <2>1. savesrc = nrows /\ savelim = dr + nrows /\ savedst = 0
    BY <1>4 DEF Saved, Least, Most
  <2> QED BY <1>1, <1>4, <2>1 DEF Origin, OriginSound, InRows
<1>5. CASE dr >= nrows
  <2>1. savesrc = dr /\ savelim = dr + nrows /\ savedst = 0
    BY <1>5 DEF Saved, Least, Most
  <2> QED BY <1>1, <1>5, <2>1 DEF Origin, OriginSound, InRows
<1> QED BY <1>2, <1>3, <1>4, <1>5

Rotated(u, v, row, nrows, dr) ==
    /\ IsText(v) /\ v.win = u.win /\ SameNotes(u, v) /\ SameCursor(u, v) /\ SameRest(u, v)
    /\ \A r, q \in Rows : v.row[r] = v.row[q] => r = q
    /\ \A r \in Rows :
        /\ InRows(r - dr, row, nrows) => At(v, r) = At(u, r - dr)
        /\ ~InRows(r - dr, row, nrows) /\ ~InRows(r, row, nrows) => At(v, r) = At(u, r)
        /\ \E q \in Rows : At(v, r) = At(u, q) /\ (r >= u.nr => q = r)

(* RotateRows moves whole rows, losing none.                                *)
LEMMA RowsRotated ==
    ASSUME NEW u, Sound(u), NEW row, NEW nrows, NEW dr, InPlace(u, row, nrows, dr),
           NEW v, v = RotateRows(u, row, nrows, dr)
    PROVE  Rotated(u, v, row, nrows, dr)
<1>1. PICK savesrc, savelim, savedst :
        Saved(nrows, dr, savesrc, savelim, savedst)
  BY DEF Saved
<1>2. PICK o : o = [r \in Rows |-> Origin(r, row, nrows, dr, savesrc, savelim, savedst)]
  OBVIOUS
<1>3. u.nr \in Nat /\ u.nr <= NRows
  BY Numbers DEF Sound, IsText
<1>4. ASSUME NEW r \in Rows
      PROVE  /\ o[r] \in Rows
             /\ r >= u.nr => o[r] = r
             /\ InRows(r - dr, row, nrows) => o[r] = r - dr
             /\ ~InRows(r - dr, row, nrows) /\ ~InRows(r, row, nrows) => o[r] = r
             /\ \A q \in Rows : o[q] = o[r] => q = r
  <2>1. PICK x : x = Origin(r, row, nrows, dr, savesrc, savelim, savedst)
    OBVIOUS
  <2>2. o[r] = x
    BY <1>2, <2>1
  <2>3. /\ row \in Nat /\ nrows \in Nat /\ dr \in Int
        /\ row + nrows <= u.nr /\ row + dr >= 0 /\ row + dr + nrows <= u.nr
    BY DEF InPlace
  <2>4. r \in Nat
    BY Numbers
  <2>5. /\ OriginSound(x, r, row, nrows, dr, u.nr)
        /\ \A q \in Nat : Origin(q, row, nrows, dr, savesrc, savelim, savedst) = x => q = r
    BY <1>1, <1>3, <2>1, <2>3, <2>4, OriginRows
  <2>6. x \in Rows
    BY <1>3, <2>4, <2>5, Numbers DEF OriginSound
  <2>7. \A q \in Rows : o[q] = o[r] => q = r
    BY <1>2, <2>2, <2>5, Numbers
  <2> QED BY <2>2, <2>5, <2>6, <2>7 DEF OriginSound
<1>5. PICK p : p = [r \in Rows |-> u.row[o[r]]]
  OBVIOUS
<1>6. v = [u EXCEPT !.row = p]
  <2>1. p = [r \in Rows |->
            IF r - row - dr \in 0 .. nrows - 1 THEN u.row[r - dr]
            ELSE IF r - row - savedst \in 0 .. savelim - savesrc - 1
            THEN u.row[r - savedst + savesrc]
            ELSE u.row[r]]
    BY <1>2, <1>5 DEF Origin
  <2> QED BY <2>1, <1>1 DEF RotateRows, Saved
<1>7. p \in [Rows -> Buffer]
  BY <1>4, <1>5, SoundRows
<1>8. /\ IsText(v) /\ v.row = p /\ v.buf = u.buf /\ v.win = u.win
      /\ v.bfirst = u.bfirst /\ v.blim = u.blim /\ v.ticking = u.ticking
      /\ SameCursor(u, v) /\ SameRest(u, v)
  BY <1>6, <1>7, RowsAssigned DEF Sound
<1>9. \A r \in Rows : At(v, r) = At(u, o[r])
  BY <1>5, <1>8 DEF At
<1>10. ASSUME NEW r \in Rows, NEW q \in Rows, v.row[r] = v.row[q]
       PROVE  r = q
  <2>1. u.row[o[r]] = u.row[o[q]] /\ o[r] \in Rows /\ o[q] \in Rows
    BY <1>4, <1>5, <1>8, <1>10
  <2>2. o[r] = o[q]
    BY <2>1, SoundRows
  <2> QED BY <2>2, <1>4
<1> QED BY <1>4, <1>8, <1>9, <1>10 DEF SameNotes, Rotated

-----------------------------------------------------------------------------
(* The row a step of the copy takes, and those it has taken so far.         *)
RowTaken(row, nrows, dr, n) == IF dr < 0 THEN row + n - 1 ELSE row + nrows - n
Taken(q, row, nrows, dr, n) == IF dr < 0 THEN InRows(q, row, n) ELSE InRows(q, row + nrows - n, n)

CopyStep(u, row, nrows, scol, dcol, ncols, dr, n) ==
    CopyRowChars(u, RowTaken(row, nrows, dr, n), RowTaken(row, nrows, dr, n) + dr, scol, dcol, ncols)

CopySteps(g, u, row, nrows, scol, dcol, ncols, dr, N) ==
    [n \in 0 .. N |-> IF n = 0 THEN u ELSE CopyStep(g[n - 1], row, nrows, scol, dcol, ncols, dr, n)]

(* The rows copied one by one form a function.                              *)
LEMMA CopyStepsExist ==
    ASSUME NEW u, NEW row, NEW nrows \in Nat, NEW scol, NEW dcol, NEW ncols, NEW dr
    PROVE  \E g : g = CopySteps(g, u, row, nrows, scol, dcol, ncols, dr, nrows)
<1> DEFINE T == {n \in Nat : \E g : g = CopySteps(g, u, row, nrows, scol, dcol, ncols, dr, n)}
<1>1. 0 \in T
  <2> DEFINE g == [n \in 0 .. 0 |-> u]
  <2>1. g = CopySteps(g, u, row, nrows, scol, dcol, ncols, dr, 0)
    BY DEF CopySteps
  <2> QED BY <2>1
<1>2. ASSUME NEW n \in Nat, n \in T
      PROVE  n + 1 \in T
  <2>1. PICK g : g = CopySteps(g, u, row, nrows, scol, dcol, ncols, dr, n)
    BY <1>2
  <2>2. PICK next : next = CopyStep(g[n], row, nrows, scol, dcol, ncols, dr, n + 1)
    OBVIOUS
  <2>3. PICK h : h = [i \in 0 .. n + 1 |-> IF i = n + 1 THEN next ELSE g[i]]
    OBVIOUS
  <2>4. ASSUME NEW i \in 0 .. n + 1
        PROVE  h[i] = IF i = 0 THEN u ELSE CopyStep(h[i - 1], row, nrows, scol, dcol, ncols, dr, i)
    <3>1. CASE i = n + 1
      <4>1. h[i] = next /\ i # 0 /\ h[i - 1] = g[n]
        BY <3>1, <2>3
      <4> QED BY <4>1, <2>2, <3>1
    <3>2. CASE i \in 1 .. n
      <4>1. h[i] = g[i] /\ i # 0 /\ h[i - 1] = g[i - 1] /\ i \in 0 .. n
        BY <3>2, <2>3
      <4>2. g[i] = CopyStep(g[i - 1], row, nrows, scol, dcol, ncols, dr, i)
        BY <4>1, <2>1 DEF CopySteps
      <4> QED BY <4>1, <4>2
    <3>3. CASE i = 0
      <4>1. h[0] = g[0] /\ 0 \in 0 .. n
        BY <2>3
      <4>2. g[0] = u
        BY <4>1, <2>1 DEF CopySteps
      <4> QED BY <3>3, <4>1, <4>2
    <3> QED BY <3>1, <3>2, <3>3
  <2>5. h = CopySteps(h, u, row, nrows, scol, dcol, ncols, dr, n + 1)
    BY <2>3, <2>4 DEF CopySteps
  <2> QED BY <2>5
<1>3. nrows \in T
  <2> HIDE DEF T
  <2> QED BY <1>1, <1>2, NatSetInduction
<1> QED BY <1>3

(* So far the rows taken have been copied, and nothing else is different.   *)
RowsCopiedSoFar(u, v, row, nrows, scol, dcol, ncols, dr, n) ==
    /\ IsText(v) /\ v.row = u.row /\ v.win = u.win /\ SameNotes(u, v)
    /\ SameCursor(u, v) /\ SameRest(u, v)
    /\ \A r \in Rows : At(v, r) =
        IF Taken(r - dr, row, nrows, dr, n)
        THEN CopiedChars(At(u, r - dr), At(u, r), scol, dcol, ncols) ELSE At(u, r)

ColumnsFit(scol, dcol, ncols) ==
    /\ scol \in Nat /\ dcol \in Nat /\ ncols \in Nat
    /\ scol + ncols <= NCols /\ dcol + ncols <= NCols

NextTaken(s, row, nrows, dr, n) ==
    /\ s \in Nat /\ InRows(s, row, nrows)
    /\ ~Taken(s - dr, row, nrows, dr, n) /\ ~Taken(s, row, nrows, dr, n)
    /\ \A q \in Int : Taken(q, row, nrows, dr, n + 1) <=> (q = s \/ Taken(q, row, nrows, dr, n))

(* The next row to copy has not been written over by those before it.       *)
LEMMA TakenRows ==
    ASSUME NEW row \in Nat, NEW nrows \in Nat, NEW dr \in Int, NEW n \in Nat, n < nrows,
           NEW s, s = RowTaken(row, nrows, dr, n + 1)
    PROVE  NextTaken(s, row, nrows, dr, n)
  BY DEF NextTaken, RowTaken, Taken, InRows

(* One more row is copied.                                                  *)
LEMMA RowTakenNext ==
    ASSUME NEW u, Sound(u), NEW row, NEW nrows, NEW dr, InPlace(u, row, nrows, dr),
           NEW scol, NEW dcol, NEW ncols, ColumnsFit(scol, dcol, ncols), NEW n \in Nat, n < nrows,
           NEW x, RowsCopiedSoFar(u, x, row, nrows, scol, dcol, ncols, dr, n),
           NEW v, v = CopyStep(x, row, nrows, scol, dcol, ncols, dr, n + 1)
    PROVE  RowsCopiedSoFar(u, v, row, nrows, scol, dcol, ncols, dr, n + 1)
<1>1. PICK s : s = RowTaken(row, nrows, dr, n + 1)
  OBVIOUS
<1>2. PICK d : d = s + dr
  OBVIOUS
<1>3. /\ row \in Nat /\ nrows \in Nat /\ dr \in Int
      /\ row + nrows <= u.nr /\ row + dr >= 0 /\ row + dr + nrows <= u.nr
  BY DEF InPlace
<1>4. u.nr \in Nat /\ u.nr <= NRows
  BY Numbers DEF Sound, IsText
<1>5. /\ s \in Nat /\ InRows(s, row, nrows)
      /\ ~Taken(s - dr, row, nrows, dr, n) /\ ~Taken(s, row, nrows, dr, n)
      /\ \A q \in Int : Taken(q, row, nrows, dr, n + 1) <=> (q = s \/ Taken(q, row, nrows, dr, n))
  <2>1. NextTaken(s, row, nrows, dr, n)
    BY <1>1, <1>3, TakenRows
  <2> QED BY <2>1 DEF NextTaken
<1>6. s \in Rows /\ d \in Rows /\ d - dr = s
  BY <1>2, <1>3, <1>4, <1>5, Numbers DEF InRows
<1>7. /\ IsText(x) /\ x.row = u.row /\ x.win = u.win /\ SameNotes(u, x)
      /\ SameCursor(u, x) /\ SameRest(u, x)
      /\ \A r \in Rows : At(x, r) =
            IF Taken(r - dr, row, nrows, dr, n)
            THEN CopiedChars(At(u, r - dr), At(u, r), scol, dcol, ncols) ELSE At(u, r)
  BY DEF RowsCopiedSoFar
<1>8. At(x, s) = At(u, s) /\ At(x, d) = At(u, d)
  BY <1>2, <1>5, <1>6, <1>7
<1>9. PICK b : b = CopiedChars(At(u, s), At(u, d), scol, dcol, ncols)
  OBVIOUS
<1>10. b \in RowType
  <2>1. At(u, s) \in RowType /\ At(u, d) \in RowType
    BY <1>6, SoundRows
  <2> QED BY <2>1, <1>9, RowCopied DEF ColumnsFit, CopyOf
<1>11. v = SetRow(x, d, b)
  BY <1>1, <1>2, <1>8, <1>9 DEF CopyStep, CopyRowChars
<1>12. BuffersApart(x)
  BY <1>7 DEF BuffersApart, Sound, RowsIn
<1>13. /\ IsText(v) /\ v.row = x.row /\ v.win = x.win /\ SameNotes(x, v)
       /\ SameCursor(x, v) /\ SameRest(x, v)
       /\ \A r \in Rows : At(v, r) = IF r = d THEN b ELSE At(x, r)
  BY <1>6, <1>7, <1>10, <1>11, <1>12, RowSet
<1>14. ASSUME NEW r \in Rows
       PROVE  At(v, r) = IF Taken(r - dr, row, nrows, dr, n + 1)
                         THEN CopiedChars(At(u, r - dr), At(u, r), scol, dcol, ncols) ELSE At(u, r)
  <2>1. r \in Int /\ r - dr \in Int
    BY <1>3, Numbers
  <2>2. CASE r = d
    <3>1. r - dr = s
      BY <2>2, <1>6
    <3> QED BY <2>1, <2>2, <3>1, <1>5, <1>9, <1>13
  <2>3. CASE r # d
    <3>1. r - dr # s
      BY <2>1, <2>3, <1>2, <1>3, <1>5
    <3> QED BY <2>1, <2>3, <3>1, <1>5, <1>7, <1>13
  <2> QED BY <2>2, <2>3
<1>15. SameNotes(u, v) /\ SameCursor(u, v) /\ SameRest(u, v) /\ v.row = u.row /\ v.win = u.win
  BY <1>7, <1>13 DEF SameNotes, SameCursor, SameRest, SameFrame
<1> QED BY <1>13, <1>14, <1>15 DEF RowsCopiedSoFar

(* copy_text on part of the rows: each is copied from what it was at first. *)
LEMMA RowsCopied ==
    ASSUME NEW u, Sound(u), NEW row, NEW nrows, NEW dr, InPlace(u, row, nrows, dr),
           NEW scol, NEW dcol, NEW ncols, ColumnsFit(scol, dcol, ncols),
           NEW v, v = CopyRows(u, row, nrows, scol, dcol, ncols, dr)
    PROVE  /\ IsText(v) /\ v.row = u.row /\ v.win = u.win /\ SameNotes(u, v)
           /\ SameCursor(u, v) /\ SameRest(u, v)
           /\ \A r \in Rows : At(v, r) =
                IF InRows(r - dr, row, nrows)
                THEN CopiedChars(At(u, r - dr), At(u, r), scol, dcol, ncols) ELSE At(u, r)
<1>1. row \in Nat /\ nrows \in Nat /\ dr \in Int
  BY DEF InPlace
<1> DEFINE copied == CHOOSE g : g = CopySteps(g, u, row, nrows, scol, dcol, ncols, dr, nrows)
<1>2. copied = CopySteps(copied, u, row, nrows, scol, dcol, ncols, dr, nrows)
  BY <1>1, CopyStepsExist
<1>3. v = copied[nrows]
  BY DEF CopyRows, CopySteps, CopyStep, RowTaken
<1> HIDE DEF copied
<1>4. PICK g : g = copied
  OBVIOUS
<1>5. \A n \in 0 .. nrows : g[n] =
        IF n = 0 THEN u ELSE CopyStep(g[n - 1], row, nrows, scol, dcol, ncols, dr, n)
  BY <1>2, <1>4 DEF CopySteps
<1> DEFINE T == {n \in Nat : n <= nrows => RowsCopiedSoFar(u, g[n], row, nrows, scol, dcol, ncols, dr, n)}
<1>6. 0 \in T
  <2>1. g[0] = u
    BY <1>1, <1>5
  <2>2. \A q \in Int : ~Taken(q, row, nrows, dr, 0)
    BY <1>1 DEF Taken, InRows
  <2>3. \A r \in Rows : r - dr \in Int
    BY <1>1, Numbers
  <2> QED BY <2>1, <2>2, <2>3 DEF RowsCopiedSoFar, Sound, SameNotes, SameCursor, SameRest, SameFrame
<1>7. ASSUME NEW n \in Nat, n \in T
      PROVE  n + 1 \in T
  <2> SUFFICES ASSUME n + 1 <= nrows
               PROVE  RowsCopiedSoFar(u, g[n + 1], row, nrows, scol, dcol, ncols, dr, n + 1)
    OBVIOUS
  <2>1. RowsCopiedSoFar(u, g[n], row, nrows, scol, dcol, ncols, dr, n) /\ n < nrows
    BY <1>1, <1>7
  <2>2. g[n + 1] = CopyStep(g[n], row, nrows, scol, dcol, ncols, dr, n + 1)
    BY <1>1, <1>5
  <2> HIDE DEF T
  <2> QED BY <2>1, <2>2, RowTakenNext
<1>8. RowsCopiedSoFar(u, v, row, nrows, scol, dcol, ncols, dr, nrows)
  <2>1. nrows \in T
    <3> HIDE DEF T
    <3> QED BY <1>1, <1>6, <1>7, NatSetInduction
  <2> QED BY <2>1, <1>1, <1>3, <1>4
<1>9. \A q \in Int : Taken(q, row, nrows, dr, nrows) <=> InRows(q, row, nrows)
  BY <1>1 DEF Taken, InRows
<1>10. \A r \in Rows : r - dr \in Int
  BY <1>1, Numbers
<1> QED BY <1>8, <1>9, <1>10 DEF RowsCopiedSoFar

-----------------------------------------------------------------------------
(* The rows among which blinking characters move are all noted.             *)
Widened(u, dr) == IF u.blim # 0 /\ dr # 0 THEN [u EXCEPT !.bfirst = 0, !.blim = u.nr] ELSE u

AllNoted(u, v) ==
    (\E q \in Rows : Blinks(At(u, q))) => \A r \in Rows : r < u.nr => RowNoted(v, r)

(* All rows are noted when some move.                                       *)
LEMMA NotesWidened ==
    ASSUME NEW u, Sound(u), NEW dr \in Int, NEW v, v = Widened(u, dr)
    PROVE  /\ Sound(v) /\ v.row = u.row /\ v.buf = u.buf /\ v.win = u.win
           /\ SameCursor(u, v) /\ SameRest(u, v)
           /\ dr # 0 => AllNoted(u, v)
<1>1. u.nr \in Nat /\ u.bfirst \in Nat /\ u.blim \in Nat /\ u.ticking \in BOOLEAN
  BY Numbers DEF Sound, IsText
<1>2. CASE u.blim # 0 /\ dr # 0
  <2>1. v = [u EXCEPT !.bfirst = 0, !.blim = u.nr]
    BY <1>2 DEF Widened
  <2>2. PICK f \in Nat, l \in Nat, t \in BOOLEAN : f = 0 /\ l = u.nr /\ t = u.ticking
    BY <1>1
  <2>3. v = NotesGiven(u, f, l, t)
    BY <2>1, <2>2 DEF NotesGiven, Sound, IsText, TextFields
  <2>4. /\ IsText(v) /\ v.row = u.row /\ v.buf = u.buf /\ v.win = u.win
        /\ v.bfirst = f /\ v.blim = l /\ v.ticking = t
        /\ SameCursor(u, v) /\ SameRest(u, v)
    BY <2>3, NotesAssigned DEF Sound
  <2>5. /\ IsText(v) /\ v.row = u.row /\ v.buf = u.buf /\ v.win = u.win
        /\ v.bfirst = 0 /\ v.blim = u.nr /\ v.ticking = u.ticking
        /\ SameCursor(u, v) /\ SameRest(u, v)
    BY <2>2, <2>4
  <2>6. ASSUME NEW q \in Rows, Blinks(At(u, q)), NEW r \in Rows, r < u.nr
        PROVE  RowNoted(v, r)
    <3>1. RowNoted(u, q)
      BY <2>6, SoundRows
    <3> QED BY <3>1, <2>5, <2>6, Numbers DEF RowNoted, SameRest, SameFrame
  <2>7. RowsIn(v)
    <3>1. \A r \in Rows : At(v, r) = At(u, r)
      BY <2>5 DEF At
    <3>2. \A r, q \in Rows : v.row[r] = v.row[q] => r = q
      BY <2>5 DEF Sound, RowsIn
    <3>3. ASSUME NEW r \in Rows
          PROVE  ExtentNoted(At(v, r)) /\ (Blinks(At(v, r)) => RowNoted(v, r))
      <4>1. ExtentNoted(At(u, r)) /\ (Blinks(At(u, r)) => RowNoted(u, r))
        BY SoundRows
      <4> QED BY <4>1, <3>1, <2>6 DEF RowNoted
    <3> QED BY <3>2, <3>3 DEF RowsIn
  <2> QED BY <2>5, <2>6, <2>7 DEF Sound, AllNoted
<1>3. CASE ~(u.blim # 0 /\ dr # 0)
  <2>1. v = u
    BY <1>3 DEF Widened
  <2>2. ASSUME dr # 0, NEW q \in Rows
        PROVE  ~Blinks(At(u, q))
    <3>1. ~RowNoted(u, q)
      BY <1>3, <2>2, Numbers DEF RowNoted
    <3> QED BY <3>1, SoundRows
  <2>3. dr # 0 => AllNoted(u, v)
    BY <2>2 DEF AllNoted
  <2> QED BY <2>1, <2>3 DEF SameCursor, SameRest, SameFrame
<1> QED BY <1>2, <1>3

-----------------------------------------------------------------------------
(* The text of an area moves.                                               *)
Whole(col, ncols, dc) == dc = 0 /\ col = 0 /\ ncols = NCols

Shifted(u, row, nrows, col, ncols, dr, dc) ==
    IF Whole(col, ncols, dc) THEN RotateRows(Widened(u, dr), row, nrows, dr)
    ELSE CopyRows(Widened(u, dr), row, nrows, col, col + dc, ncols, dr)

(* CopyText as its steps.                                                   *)
LEMMA CopyTextIs ==
    ASSUME NEW u, NEW row, NEW nrows, NEW col, NEW ncols, NEW dr, NEW dc
    PROVE  CopyText(u, row, nrows, col, ncols, dr, dc)
            = Shifted(Unmarked(u, row + dr, nrows), row, nrows, col, ncols, dr, dc)
  BY DEF CopyText, Shifted, Unmarked, Widened, Whole

(* What is left where an area moved from, until it is cleared.              *)
Behind(r, k, row, nrows, col, ncols, dr, dc) ==
    /\ InRows(r, row, nrows)
    /\ IF dr = 0 THEN Between(col, col + dc, ncols, k)
       ELSE Whole(col, ncols, dc) /\ ~InRows(r - dr, row, nrows)

TextMoved(u, v, row, nrows, col, ncols, dr, dc) ==
    \A r \in Rows, k \in Cols : ~Behind(r, k, row, nrows, col, ncols, dr, dc) =>
        RowText(At(v, r), k) = IF InArea(r - dr, k - dc, row, nrows, col, ncols)
                               THEN RowText(At(u, r - dr), k - dc) ELSE RowText(At(u, r), k)

RowsReach(u, row, nrows, col) == \A r \in Rows : InRows(r, row, nrows) => col <= At(u, r).n

SameInRow(u, v, r) == \A k \in Cols : RowText(At(v, r), k) = RowText(At(u, r), k)

Shifts(u, v, row, nrows, dr) ==
    /\ Sound(v) /\ v.win = u.win /\ SameCursor(u, v) /\ SameRest(u, v)
    /\ \A r \in Rows : ~InRows(r, row, nrows) /\ ~InRows(r - dr, row, nrows) => SameInRow(u, v, r)

(* Whole rows, ...                                                          *)
LEMMA RowsShifted ==
    ASSUME NEW u, Sound(u), NEW row, NEW nrows, NEW dr, InPlace(u, row, nrows, dr),
           NEW x, x = Widened(u, dr), NEW v, v = RotateRows(x, row, nrows, dr)
    PROVE  /\ Shifts(u, v, row, nrows, dr)
           /\ TextMoved(u, v, row, nrows, 0, NCols, dr, 0)
<1>1. row \in Nat /\ nrows \in Nat /\ dr \in Int
  BY DEF InPlace
<1>2. /\ Sound(x) /\ x.row = u.row /\ x.buf = u.buf /\ x.win = u.win
      /\ SameCursor(u, x) /\ SameRest(u, x)
      /\ dr # 0 => AllNoted(u, x)
  BY <1>1, NotesWidened
<1>3. InPlace(x, row, nrows, dr)
  BY <1>2 DEF InPlace, SameRest, SameFrame
<1>4. /\ IsText(v) /\ v.win = x.win /\ SameNotes(x, v) /\ SameCursor(x, v) /\ SameRest(x, v)
      /\ \A r, q \in Rows : v.row[r] = v.row[q] => r = q
      /\ \A r \in Rows :
            /\ InRows(r - dr, row, nrows) => At(v, r) = At(x, r - dr)
            /\ ~InRows(r - dr, row, nrows) /\ ~InRows(r, row, nrows) => At(v, r) = At(x, r)
            /\ \E q \in Rows : At(v, r) = At(x, q) /\ (r >= x.nr => q = r)
  <2>1. Rotated(x, v, row, nrows, dr)
    BY <1>2, <1>3, RowsRotated
  <2> QED BY <2>1 DEF Rotated
<1>5. \A r : At(x, r) = At(u, r)
  BY <1>2 DEF At
<1>6. u.nr \in Nat /\ x.nr = u.nr /\ v.nr = u.nr
  BY <1>2, <1>4, Numbers DEF Sound, IsText, SameRest, SameFrame
<1>7. ASSUME NEW r \in Rows
      PROVE  ExtentNoted(At(v, r)) /\ (Blinks(At(v, r)) => RowNoted(v, r))
  <2>1. PICK q \in Rows : At(v, r) = At(x, q) /\ (r >= x.nr => q = r)
    BY <1>4
  <2>2. ExtentNoted(At(x, q)) /\ (Blinks(At(x, q)) => RowNoted(x, q))
    BY <1>2, SoundRows
  <2>3. ASSUME Blinks(At(v, r))
        PROVE  RowNoted(x, r)
    <3>1. CASE dr = 0
      <4>1. At(v, r) = At(x, r)
        BY <3>1, <1>4, Numbers
      <4> QED BY <4>1, <2>3, <1>2, SoundRows
    <3>2. CASE dr # 0
      <4>1. RowNoted(x, q) /\ Blinks(At(u, q))
        BY <2>1, <2>2, <2>3, <1>5
      <4>2. r < u.nr
        BY <4>1, <2>1, <1>6, Numbers DEF RowNoted
      <4> QED BY <4>1, <4>2, <3>2, <1>2 DEF AllNoted
    <3> QED BY <3>1, <3>2
  <2>4. RowNoted(x, r) => RowNoted(v, r)
    BY <1>4, <1>6 DEF RowNoted, SameNotes
  <2> QED BY <2>1, <2>2, <2>3, <2>4
<1>8. Sound(v)
  BY <1>4, <1>7 DEF Sound, RowsIn
<1>9. Shifts(u, v, row, nrows, dr)
  <2>1. SameCursor(u, v) /\ SameRest(u, v) /\ v.win = u.win
    BY <1>2, <1>4 DEF SameCursor, SameRest, SameFrame
  <2>2. ASSUME NEW r \in Rows, ~InRows(r, row, nrows) /\ ~InRows(r - dr, row, nrows)
        PROVE  SameInRow(u, v, r)
    BY <2>2, <1>4, <1>5 DEF SameInRow
  <2> QED BY <1>8, <2>1, <2>2 DEF Shifts
<1>10. ASSUME NEW r \in Rows, NEW k \in Cols, ~Behind(r, k, row, nrows, 0, NCols, dr, 0)
       PROVE  RowText(At(v, r), k) = IF InArea(r - dr, k - 0, row, nrows, 0, NCols)
                                     THEN RowText(At(u, r - dr), k - 0) ELSE RowText(At(u, r), k)
  <2>1. k \in Nat /\ k < NCols /\ k - 0 = k /\ r \in Nat
    BY Numbers
  <2>2. CASE InRows(r - dr, row, nrows)
    <3>1. At(v, r) = At(u, r - dr)
      BY <2>2, <1>4, <1>5
    <3>2. InArea(r - dr, k - 0, row, nrows, 0, NCols)
      BY <2>1, <2>2, Numbers DEF InArea
    <3> QED BY <3>1, <3>2, <2>1
  <2>3. CASE ~InRows(r - dr, row, nrows)
    <3>1. ~InRows(r, row, nrows)
      <4>1. CASE dr = 0
        BY <4>1, <2>1, <2>3
      <4>2. CASE dr # 0
        BY <4>2, <2>3, <1>10 DEF Behind, Whole
      <4> QED BY <4>1, <4>2
    <3> QED BY <3>1, <2>3, <1>4, <1>5 DEF InArea
  <2> QED BY <2>2, <2>3
<1> QED BY <1>9, <1>10 DEF TextMoved

(* ... and parts of rows.                                                   *)
LEMMA CharsShifted ==
    ASSUME NEW u, Sound(u), NEW row, NEW nrows, NEW dr, InPlace(u, row, nrows, dr),
           NEW col, NEW ncols, NEW dc \in Int, ColumnsFit(col, col + dc, ncols),
           NEW x, x = Widened(u, dr), NEW v, v = CopyRows(x, row, nrows, col, col + dc, ncols, dr)
    PROVE  /\ Shifts(u, v, row, nrows, dr)
           /\ dr = 0 \/ RowsReach(u, row, nrows, col)
                => TextMoved(u, v, row, nrows, col, ncols, dr, dc)
<1>1. row \in Nat /\ nrows \in Nat /\ dr \in Int
  BY DEF InPlace
<1>2. /\ Sound(x) /\ x.row = u.row /\ x.buf = u.buf /\ x.win = u.win
      /\ SameCursor(u, x) /\ SameRest(u, x)
      /\ dr # 0 => AllNoted(u, x)
  BY <1>1, NotesWidened
<1>3. InPlace(x, row, nrows, dr)
  BY <1>2 DEF InPlace, SameRest, SameFrame
<1> PICK dcol : dcol = col + dc
  OBVIOUS
<1>4. /\ IsText(v) /\ v.row = x.row /\ v.win = x.win /\ SameNotes(x, v)
      /\ SameCursor(x, v) /\ SameRest(x, v)
      /\ \A r \in Rows : At(v, r) =
            IF InRows(r - dr, row, nrows)
            THEN CopiedChars(At(x, r - dr), At(x, r), col, dcol, ncols) ELSE At(x, r)
  BY <1>2, <1>3, RowsCopied
<1>5. \A r : At(x, r) = At(u, r)
  BY <1>2 DEF At
<1>6. u.nr \in Nat /\ u.nr <= NRows /\ x.nr = u.nr /\ v.nr = u.nr
  BY <1>2, <1>4, Numbers DEF Sound, IsText, SameRest, SameFrame
<1>7. ASSUME NEW r \in Rows, InRows(r - dr, row, nrows)
      PROVE  r - dr \in Rows /\ r < u.nr
  BY <1>1, <1>6, <1>7, Numbers DEF InRows, InPlace
<1>8. ASSUME NEW r \in Rows, InRows(r - dr, row, nrows)
      PROVE  /\ ExtentNoted(At(v, r))
             /\ Blinks(At(v, r)) => Blinks(At(u, r)) \/ Blinks(At(u, r - dr))
             /\ \A k \in Cols : \/ col <= At(u, r - dr).n
                                \/ At(u, r - dr) = At(u, r) /\ ~Between(col, dcol, ncols, k)
                                => Copied(At(v, r), At(u, r - dr), At(u, r), col, dcol, ncols, k)
  <2>1. PICK src, dst, b : src = At(u, r - dr) /\ dst = At(u, r) /\ b = At(v, r)
    OBVIOUS
  <2>2. b = CopiedChars(src, dst, col, dcol, ncols)
    BY <2>1, <1>4, <1>5, <1>8
  <2>3. src \in RowType /\ dst \in RowType /\ ExtentNoted(src) /\ ExtentNoted(dst)
    BY <2>1, <1>7, <1>8, SoundRows
  <2>4. /\ b \in RowType
        /\ \A k \in Cols : CopiedFrom(b, src, dst, k)
        /\ \A k \in Cols : col <= src.n \/ (src = dst /\ ~Between(col, dcol, ncols, k))
                                => Copied(b, src, dst, col, dcol, ncols, k)
        /\ IF src.bl # 0 \/ dst.bl # 0 THEN b.bs = 0 /\ b.bl = b.n
           ELSE b.bs = dst.bs /\ b.bl = dst.bl
    <3>1. CopyOf(b, src, dst, col, dcol, ncols)
      BY <2>2, <2>3, RowCopied DEF ColumnsFit
    <3> QED BY <3>1 DEF CopyOf
  <2>5. ExtentNoted(b) /\ (Blinks(b) => Blinks(src) \/ Blinks(dst))
    BY <2>3, <2>4, CopiedBlinks
  <2> QED BY <2>1, <2>4, <2>5
<1>9. ASSUME NEW r \in Rows
      PROVE  ExtentNoted(At(v, r)) /\ (Blinks(At(v, r)) => RowNoted(v, r))
  <2>1. RowNoted(x, r) => RowNoted(v, r)
    BY <1>4, <1>6 DEF RowNoted, SameNotes
  <2>2. ExtentNoted(At(x, r)) /\ (Blinks(At(x, r)) => RowNoted(x, r))
    BY <1>2, SoundRows
  <2>3. CASE ~InRows(r - dr, row, nrows)
    BY <2>1, <2>2, <2>3, <1>4
  <2>4. CASE InRows(r - dr, row, nrows)
    <3>1. CASE dr = 0
      <4>1. r - dr = r
        BY <3>1, Numbers
      <4> QED BY <4>1, <2>1, <2>2, <2>4, <1>5, <1>8
    <3>2. CASE dr # 0
      <4>1. Blinks(At(v, r)) => \E q \in Rows : Blinks(At(u, q))
        BY <2>4, <1>7, <1>8
      <4>2. Blinks(At(v, r)) => RowNoted(x, r)
        BY <4>1, <3>2, <2>4, <1>2, <1>7 DEF AllNoted
      <4> QED BY <4>2, <2>1, <2>4, <1>8
    <3> QED BY <3>1, <3>2
  <2> QED BY <2>3, <2>4
<1>10. Sound(v)
  <2>1. \A r, q \in Rows : v.row[r] = v.row[q] => r = q
    BY <1>2, <1>4 DEF Sound, RowsIn
  <2> QED BY <1>4, <1>9, <2>1 DEF Sound, RowsIn
<1>11. Shifts(u, v, row, nrows, dr)
  <2>1. SameCursor(u, v) /\ SameRest(u, v) /\ v.win = u.win
    BY <1>2, <1>4 DEF SameCursor, SameRest, SameFrame
  <2>2. ASSUME NEW r \in Rows, ~InRows(r, row, nrows) /\ ~InRows(r - dr, row, nrows)
        PROVE  SameInRow(u, v, r)
    BY <2>2, <1>4, <1>5 DEF SameInRow
  <2> QED BY <1>10, <2>1, <2>2 DEF Shifts
<1>12. ASSUME dr = 0 \/ RowsReach(u, row, nrows, col), NEW r \in Rows, NEW k \in Cols,
              ~Behind(r, k, row, nrows, col, ncols, dr, dc)
       PROVE  RowText(At(v, r), k) = IF InArea(r - dr, k - dc, row, nrows, col, ncols)
                                     THEN RowText(At(u, r - dr), k - dc) ELSE RowText(At(u, r), k)
  <2>1. k \in Int /\ col \in Nat /\ ncols \in Nat /\ r \in Nat
    BY Numbers DEF ColumnsFit
  <2>2. CASE InRows(r - dr, row, nrows)
    <3>1. \/ col <= At(u, r - dr).n
          \/ At(u, r - dr) = At(u, r) /\ ~Between(col, dcol, ncols, k)
      <4>1. CASE dr = 0
        <5>1. r - dr = r
          BY <4>1, <2>1
        <5> QED BY <5>1, <4>1, <2>2, <1>12 DEF Behind
      <4>2. CASE dr # 0
        BY <4>2, <2>2, <1>7, <1>12 DEF RowsReach
      <4> QED BY <4>1, <4>2
    <3>2. Copied(At(v, r), At(u, r - dr), At(u, r), col, dcol, ncols, k)
      BY <3>1, <2>2, <1>8
    <3>3. k \in dcol .. dcol + ncols - 1 <=> InArea(r - dr, k - dc, row, nrows, col, ncols)
      BY <2>1, <2>2 DEF InArea
    <3>4. k - dcol + col = k - dc
      BY <2>1
    <3> QED BY <3>2, <3>3, <3>4 DEF Copied
  <2>3. CASE ~InRows(r - dr, row, nrows)
    BY <2>3, <1>4, <1>5 DEF InArea
  <2> QED BY <2>2, <2>3
<1>13. dr = 0 \/ RowsReach(u, row, nrows, col) => TextMoved(u, v, row, nrows, col, ncols, dr, dc)
  BY <1>12 DEF TextMoved
<1> QED BY <1>11, <1>13

(* CopyText, as the text reads afterwards.                                  *)
LEMMA TextShifted ==
    ASSUME NEW u, Sound(u), NEW row, NEW nrows, NEW dr, InPlace(u, row, nrows, dr),
           NEW col, NEW ncols, NEW dc \in Int, ColumnsFit(col, col + dc, ncols),
           NEW v, v = Shifted(u, row, nrows, col, ncols, dr, dc)
    PROVE  /\ Shifts(u, v, row, nrows, dr)
           /\ dr = 0 \/ RowsReach(u, row, nrows, col)
                => TextMoved(u, v, row, nrows, col, ncols, dr, dc)
<1>1. PICK x : x = Widened(u, dr)
  OBVIOUS
<1>2. CASE Whole(col, ncols, dc)
  <2>1. v = RotateRows(x, row, nrows, dr) /\ col = 0 /\ ncols = NCols /\ dc = 0
    BY <1>1, <1>2 DEF Shifted, Whole
  <2> QED BY <2>1, <1>1, RowsShifted
<1>3. CASE ~Whole(col, ncols, dc)
  <2>1. v = CopyRows(x, row, nrows, col, col + dc, ncols, dr)
    BY <1>1, <1>3 DEF Shifted
  <2> QED BY <2>1, <1>1, CharsShifted
<1> QED BY <1>2, <1>3

-----------------------------------------------------------------------------
(* What the server copies in the window, and what it answers.               *)
CopyAnswer(lost) == [type |-> IF lost = {} THEN "NoExpose" ELSE "GraphicsExpose", cells |-> lost]

AreaCopied(u, v, lost, row, nrows, col, ncols, dr, dc) ==
    \A r \in Rows, k \in Cols :
        IF InArea(r - dr, k - dc, row, nrows, col, ncols) /\ VisibleAt(u, r, k)
        THEN IF VisibleAt(u, r - dr, k - dc)
             THEN v.win[<<r, k>>] = u.win[<<r - dr, k - dc>>]
             ELSE v.win[<<r, k>>] = Blank /\ <<r, k>> \in lost
        ELSE v.win[<<r, k>>] = u.win[<<r, k>>]

Fitting(u, row, nrows, dr, col, ncols, dc) ==
    InPlace(u, row, nrows, dr) /\ dc \in Int /\ ColumnsFit(col, col + dc, ncols)

(* What is copied comes from the window.                                    *)
LEMMA SourceExists ==
    ASSUME NEW u, IsText(u), NEW row, NEW nrows, NEW dr, NEW col, NEW ncols, NEW dc,
           Fitting(u, row, nrows, dr, col, ncols, dc), NEW r \in Rows, NEW k \in Cols,
           InArea(r - dr, k - dc, row, nrows, col, ncols)
    PROVE  r - dr \in Rows /\ k - dc \in Cols /\ r - dr < u.nr /\ r < u.nr
<1>1. u.nr \in Nat /\ u.nr <= NRows
  BY Numbers DEF IsText
<1>2. /\ row \in Nat /\ nrows \in Nat /\ dr \in Int
      /\ row + nrows <= u.nr /\ row + dr >= 0 /\ row + dr + nrows <= u.nr
      /\ dc \in Int /\ col \in Nat /\ ncols \in Nat
      /\ col + ncols <= NCols
  BY DEF Fitting, InPlace, ColumnsFit
<1> QED BY <1>1, <1>2, Numbers DEF InArea, InRows

AnswerOf(u, v, lost) ==
    /\ lost \in SUBSET Cells /\ v.ev = Append(u.ev, CopyAnswer(lost))
    /\ ~u.hidden => lost = {}

(* The answer to a copy is an event.                                        *)
LEMMA AnswerIsEvent ==
    ASSUME NEW lost \in SUBSET Cells
    PROVE  CopyAnswer(lost) \in EventType
  BY DEF CopyAnswer, EventType

(* XCopyArea, cell by cell.                                                 *)
LEMMA WindowCopied ==
    ASSUME NEW u, IsText(u), NEW row, NEW nrows, NEW dr, NEW col, NEW ncols, NEW dc,
           Fitting(u, row, nrows, dr, col, ncols, dc), NEW drow, drow = row + dr, NEW dcol, dcol = col + dc,
           NEW v, v = XCopyArea(u, row, nrows, col, ncols, drow, dcol)
    PROVE  /\ IsText(v) /\ SameText(u, v) /\ SameCursor(u, v) /\ SameFrame(u, v) /\ v.act = u.act
           /\ \E lost : AnswerOf(u, v, lost) /\ AreaCopied(u, v, lost, row, nrows, col, ncols, dr, dc)
<1> DEFINE to == (drow .. drow + nrows - 1) \X (dcol .. dcol + ncols - 1)
           from(c) == <<c[1] - drow + row, c[2] - dcol + col>>
           lost == {c \in to \intersect Visible(u) : from(c) \notin Visible(u)}
           look == [c \in to |-> IF from(c) \in Visible(u) THEN u.win[from(c)] ELSE Blank]
           x == Paint(u, to, look)
<1>1. v = [x EXCEPT !.ev = Append(@, CopyAnswer(lost))]
  BY DEF XCopyArea, CopyAnswer
<1>2. PICK cells, l, y, d : cells = to /\ l = look /\ y = x /\ d = lost
  OBVIOUS
<1>3. /\ row \in Nat /\ nrows \in Nat /\ dr \in Int /\ drow \in Int /\ dcol \in Int
      /\ dc \in Int /\ col \in Nat /\ ncols \in Nat
  BY DEF Fitting, InPlace, ColumnsFit
<1>4. ASSUME NEW r \in Rows, NEW k \in Cols
      PROVE  /\ <<r, k>> \in cells <=> InArea(r - dr, k - dc, row, nrows, col, ncols)
             /\ from(<<r, k>>) = <<r - dr, k - dc>>
  <2>1. r \in Int /\ k \in Int
    BY Numbers
  <2>2. r - drow + row = r - dr /\ k - dcol + col = k - dc
    BY <2>1, <1>3
  <2>3. <<r, k>> \in cells <=> r \in drow .. drow + nrows - 1 /\ k \in dcol .. dcol + ncols - 1
    BY <1>2
  <2> QED BY <2>1, <2>2, <2>3, <1>3 DEF InArea, InRows
<1>5. ASSUME NEW r \in Rows, NEW k \in Cols, <<r, k>> \in cells
      PROVE  /\ r - dr \in Rows /\ k - dc \in Cols /\ r - dr < u.nr
             /\ <<r - dr, k - dc>> \in Visible(u) <=> VisibleAt(u, r - dr, k - dc)
             /\ l[<<r, k>>] = IF VisibleAt(u, r - dr, k - dc) THEN u.win[<<r - dr, k - dc>>] ELSE Blank
  <2>1. InArea(r - dr, k - dc, row, nrows, col, ncols)
    BY <1>4, <1>5
  <2>2. r - dr \in Rows /\ k - dc \in Cols /\ r - dr < u.nr
    BY <2>1, SourceExists
  <2>3. <<r - dr, k - dc>> \in Visible(u) <=> VisibleAt(u, r - dr, k - dc)
    BY <2>2, VisibleIs
  <2>4. l[<<r, k>>] = IF from(<<r, k>>) \in Visible(u) THEN u.win[from(<<r, k>>)] ELSE Blank
    BY <1>2, <1>5
  <2>5. from(<<r, k>>) = <<r - dr, k - dc>>
    BY <1>4
  <2> HIDE DEF from
  <2> QED BY <2>2, <2>3, <2>4, <2>5
<1>6. d \in SUBSET Cells /\ (~u.hidden => d = {})
  <2>1. ASSUME NEW c \in d
        PROVE  c \in Cells /\ u.hidden
    <3>1. c \in cells /\ c \in Visible(u) /\ from(c) \notin Visible(u)
      BY <1>2
    <3>2. c \in Cells
      BY <3>1, Numbers DEF Visible, InWindow, Cells, IsText
    <3>3. PICK r \in Rows, k \in Cols : c = <<r, k>>
      BY <3>2 DEF Cells
    <3>4. from(<<r, k>>) = <<r - dr, k - dc>>
      BY <1>4
    <3> HIDE DEF from
    <3>5. ~VisibleAt(u, r - dr, k - dc) /\ r - dr < u.nr
      BY <3>1, <3>3, <3>4, <1>5
    <3> QED BY <3>2, <3>5 DEF VisibleAt
  <2> QED BY <2>1, <1>2
<1>7. y = Paint(u, cells, l)
  BY <1>2
<1>8. v = [y EXCEPT !.ev = Append(@, CopyAnswer(d))]
  BY <1>1, <1>2
<1>9. ASSUME NEW r \in Rows, NEW k \in Cols
      PROVE  <<r, k>> \in d <=> /\ <<r, k>> \in cells /\ VisibleAt(u, r, k)
                                /\ ~VisibleAt(u, r - dr, k - dc)
  <2>1. <<r, k>> \in d <=> <<r, k>> \in cells /\ <<r, k>> \in Visible(u) /\ from(<<r, k>>) \notin Visible(u)
    BY <1>2
  <2>2. from(<<r, k>>) = <<r - dr, k - dc>>
    BY <1>4
  <2>3. <<r, k>> \in Visible(u) <=> VisibleAt(u, r, k)
    BY VisibleIs
  <2> HIDE DEF from
  <2> QED BY <2>1, <2>2, <2>3, <1>5
<1> HIDE DEF to, from, lost, look, x
<1>10. /\ IsText(y) /\ SameText(u, y) /\ SameCursor(u, y) /\ SameRest(u, y)
       /\ \A c \in Cells : y.win[c] = IF c \in cells /\ c \in Visible(u) THEN l[c] ELSE u.win[c]
  BY <1>7, Painted
<1>11. PICK ev : ev = Append(y.ev, CopyAnswer(d))
  OBVIOUS
<1>12. ev \in Seq(EventType) /\ y.ev = u.ev
  BY <1>6, <1>10, <1>11, AnswerIsEvent DEF IsText, SameRest
<1>13. v = [y EXCEPT !.ev = ev]
  BY <1>8, <1>11
<1>14. /\ IsText(v) /\ v.ev = ev /\ v.win = y.win /\ v.act = y.act
       /\ SameText(y, v) /\ SameCursor(y, v) /\ SameFrame(y, v)
  BY <1>10, <1>12, <1>13, EventsAssigned
<1>15. AreaCopied(u, v, d, row, nrows, col, ncols, dr, dc)
  <2> SUFFICES ASSUME NEW r \in Rows, NEW k \in Cols
               PROVE  IF InArea(r - dr, k - dc, row, nrows, col, ncols) /\ VisibleAt(u, r, k)
                      THEN IF VisibleAt(u, r - dr, k - dc)
                           THEN v.win[<<r, k>>] = u.win[<<r - dr, k - dc>>]
                           ELSE v.win[<<r, k>>] = Blank /\ <<r, k>> \in d
                      ELSE v.win[<<r, k>>] = u.win[<<r, k>>]
    BY DEF AreaCopied
  <2>1. <<r, k>> \in Cells /\ (<<r, k>> \in Visible(u) <=> VisibleAt(u, r, k))
    BY CellsArePairs, VisibleIs
  <2>2. <<r, k>> \in cells <=> InArea(r - dr, k - dc, row, nrows, col, ncols)
    BY <1>4
  <2>3. v.win[<<r, k>>] = IF <<r, k>> \in cells /\ VisibleAt(u, r, k) THEN l[<<r, k>>] ELSE u.win[<<r, k>>]
    BY <2>1, <1>10, <1>14
  <2> QED BY <2>2, <2>3, <1>5, <1>9
<1>16. AnswerOf(u, v, d)
  BY <1>6, <1>11, <1>12, <1>14 DEF AnswerOf
<1>17. SameText(u, v) /\ SameCursor(u, v) /\ SameFrame(u, v) /\ v.act = u.act
  BY <1>10, <1>14 DEF SameText, SameCursor, SameFrame, SameRest
<1> QED BY <1>14, <1>15, <1>16, <1>17

(* The answers to two copies, one after the other.                          *)
TwoAnswersOf(u, v, lost) ==
    \E one, two \in SUBSET Cells :
        /\ lost = one \cup two
        /\ v.ev = Append(Append(u.ev, CopyAnswer(one)), CopyAnswer(two))
        /\ ~u.hidden => lost = {}

WindowMovedTo(u, v, lost, row, nrows, col, ncols, dr, dc) ==
    /\ AnswerOf(u, v, lost) \/ TwoAnswersOf(u, v, lost)
    /\ ~Smears(u, row, nrows, dr) => AreaCopied(u, v, lost, row, nrows, col, ncols, dr, dc)

(* The status line and then the other rows: together they are the area,     *)
(* unless the copy of the first is over one of the others.                  *)
LEMMA CopiesJoined ==
    ASSUME NEW u, IsText(u), NEW row, NEW nrows, NEW dr, NEW col, NEW ncols, NEW dc,
           Fitting(u, row, nrows, dr, col, ncols, dc), nrows > 1, row = 0 \/ row + dr = 0,
           u.apart, ~Smears(u, row, nrows, dr), NEW num, num = 1, NEW next, next = row + 1,
           NEW more, more = nrows - 1,
           NEW x, SameFrame(u, x), NEW v, NEW one, NEW two,
           AreaCopied(u, x, one, row, num, col, ncols, dr, dc),
           AreaCopied(x, v, two, next, more, col, ncols, dr, dc)
    PROVE  AreaCopied(u, v, one \cup two, row, nrows, col, ncols, dr, dc)
<1>1. row \in Nat /\ nrows \in Nat /\ dr \in Int /\ row + dr >= 0
  BY DEF Fitting, InPlace
<1>2. row = 0 => ~(1 <= dr /\ dr <= nrows - 1)
  BY <1>1 DEF Smears
<1> SUFFICES ASSUME NEW r \in Rows, NEW k \in Cols
             PROVE  IF InArea(r - dr, k - dc, row, nrows, col, ncols) /\ VisibleAt(u, r, k)
                    THEN IF VisibleAt(u, r - dr, k - dc)
                         THEN v.win[<<r, k>>] = u.win[<<r - dr, k - dc>>]
                         ELSE v.win[<<r, k>>] = Blank /\ <<r, k>> \in one \cup two
                    ELSE v.win[<<r, k>>] = u.win[<<r, k>>]
  BY DEF AreaCopied
<1>3. r \in Int /\ k \in Int
  BY Numbers
<1>4. \A q, c : VisibleAt(x, q, c) <=> VisibleAt(u, q, c)
  BY DEF VisibleAt, SameFrame
<1>5. /\ InArea(r - dr, k - dc, row, num, col, ncols) => r - dr = row
      /\ InArea(r - dr, k - dc, next, more, col, ncols) => r - dr > row /\ r - dr < row + nrows
      /\ InArea(r - dr, k - dc, row, nrows, col, ncols)
            <=> \/ InArea(r - dr, k - dc, row, num, col, ncols)
                \/ InArea(r - dr, k - dc, next, more, col, ncols)
  BY <1>1, <1>3 DEF InArea, InRows
<1>6. IF InArea(r - dr, k - dc, row, num, col, ncols) /\ VisibleAt(u, r, k)
      THEN IF VisibleAt(u, r - dr, k - dc)
           THEN x.win[<<r, k>>] = u.win[<<r - dr, k - dc>>]
           ELSE x.win[<<r, k>>] = Blank /\ <<r, k>> \in one
      ELSE x.win[<<r, k>>] = u.win[<<r, k>>]
  BY DEF AreaCopied
<1>7. IF InArea(r - dr, k - dc, next, more, col, ncols) /\ VisibleAt(u, r, k)
      THEN IF VisibleAt(u, r - dr, k - dc)
           THEN v.win[<<r, k>>] = x.win[<<r - dr, k - dc>>]
           ELSE v.win[<<r, k>>] = Blank /\ <<r, k>> \in two
      ELSE v.win[<<r, k>>] = x.win[<<r, k>>]
  BY <1>4 DEF AreaCopied
<1>8. ASSUME InArea(r - dr, k - dc, next, more, col, ncols)
      PROVE  x.win[<<r - dr, k - dc>>] = u.win[<<r - dr, k - dc>>]
  <2>1. InArea(r - dr, k - dc, row, nrows, col, ncols)
    BY <1>5, <1>8
  <2>2. PICK q, c : q = r - dr /\ c = k - dc
    OBVIOUS
  <2>3. q \in Rows /\ c \in Cols
    BY <2>1, <2>2, SourceExists
  <2>4. q - dr # row
    BY <1>1, <1>2, <1>3, <1>5, <1>8, <2>2
  <2>5. ~InArea(q - dr, c - dc, row, num, col, ncols)
    BY <2>3, <2>4, <1>1, Numbers DEF InArea, InRows
  <2>6. x.win[<<q, c>>] = u.win[<<q, c>>]
    BY <2>3, <2>5 DEF AreaCopied
  <2> QED BY <2>2, <2>6
<1> QED BY <1>5, <1>6, <1>7, <1>8

(* Scroll's copies in the window.                                           *)
LEMMA WindowMoved ==
    ASSUME NEW u, IsText(u), NEW row, NEW nrows, NEW dr, NEW col, NEW ncols, NEW dc,
           Fitting(u, row, nrows, dr, col, ncols, dc),
           NEW v, v = CopyWindow(u, row, nrows, col, ncols, dr, dc)
    PROVE  /\ IsText(v) /\ SameText(u, v) /\ SameCursor(u, v) /\ SameFrame(u, v) /\ v.act = u.act
           /\ \E lost : WindowMovedTo(u, v, lost, row, nrows, col, ncols, dr, dc)
<1>1. /\ row \in Nat /\ nrows \in Nat /\ dr \in Int
      /\ row + nrows <= u.nr /\ row + dr >= 0 /\ row + dr + nrows <= u.nr
      /\ dc \in Int /\ ColumnsFit(col, col + dc, ncols)
  BY DEF Fitting, InPlace
<1>2. PICK drow, dcol : drow = row + dr /\ dcol = col + dc
  OBVIOUS
<1>3. CASE u.apart /\ nrows > 1 /\ (row = 0 \/ row + dr = 0)
  <2>1. PICK num, next, more, drest : /\ num = 1 /\ next = row + 1 /\ more = nrows - 1
                                      /\ drest = next + dr
    OBVIOUS
  <2>2. PICK x : x = XCopyArea(u, row, num, col, ncols, drow, dcol)
    OBVIOUS
  <2>3. v = XCopyArea(x, next, more, col, ncols, drest, dcol)
    BY <1>2, <1>3, <2>1, <2>2 DEF CopyWindow
  <2>4. Fitting(u, row, num, dr, col, ncols, dc)
    <3>1. u.nr \in Nat
      BY Numbers DEF IsText
    <3> QED BY <3>1, <1>1, <1>3, <2>1 DEF Fitting, InPlace
  <2>5. /\ IsText(x) /\ SameText(u, x) /\ SameCursor(u, x) /\ SameFrame(u, x) /\ x.act = u.act
        /\ \E lost : AnswerOf(u, x, lost) /\ AreaCopied(u, x, lost, row, num, col, ncols, dr, dc)
    BY <1>2, <2>2, <2>4, WindowCopied
  <2>6. PICK one : AnswerOf(u, x, one) /\ AreaCopied(u, x, one, row, num, col, ncols, dr, dc)
    BY <2>5
  <2>7. Fitting(x, next, more, dr, col, ncols, dc)
    <3>1. u.nr \in Nat /\ x.nr = u.nr
      BY <2>5, Numbers DEF IsText, SameFrame
    <3> QED BY <3>1, <1>1, <1>3, <2>1 DEF Fitting, InPlace
  <2>8. /\ IsText(v) /\ SameText(x, v) /\ SameCursor(x, v) /\ SameFrame(x, v) /\ v.act = x.act
        /\ \E lost : AnswerOf(x, v, lost) /\ AreaCopied(x, v, lost, next, more, col, ncols, dr, dc)
    BY <1>2, <2>1, <2>3, <2>5, <2>7, WindowCopied
  <2>9. PICK two : AnswerOf(x, v, two) /\ AreaCopied(x, v, two, next, more, col, ncols, dr, dc)
    BY <2>8
  <2>10. TwoAnswersOf(u, v, one \cup two)
    BY <2>5, <2>6, <2>9 DEF TwoAnswersOf, AnswerOf, SameFrame
  <2>11. ~Smears(u, row, nrows, dr) => AreaCopied(u, v, one \cup two, row, nrows, col, ncols, dr, dc)
    BY <1>3, <2>1, <2>5, <2>6, <2>9, CopiesJoined
  <2>12. SameText(u, v) /\ SameCursor(u, v) /\ SameFrame(u, v) /\ v.act = u.act
    BY <2>5, <2>8 DEF SameText, SameCursor, SameFrame
  <2> QED BY <2>8, <2>10, <2>11, <2>12 DEF WindowMovedTo
<1>4. CASE ~(u.apart /\ nrows > 1 /\ (row = 0 \/ row + dr = 0))
  <2>1. v = XCopyArea(u, row, nrows, col, ncols, drow, dcol)
    BY <1>2, <1>4 DEF CopyWindow
  <2>2. /\ IsText(v) /\ SameText(u, v) /\ SameCursor(u, v) /\ SameFrame(u, v) /\ v.act = u.act
        /\ \E lost : AnswerOf(u, v, lost) /\ AreaCopied(u, v, lost, row, nrows, col, ncols, dr, dc)
    BY <1>2, <2>1, WindowCopied
  <2> QED BY <2>2 DEF WindowMovedTo
<1> QED BY <1>3, <1>4

-----------------------------------------------------------------------------
(* The window shows the text, but for the cells D that are still to be      *)
(* drawn and blank until then, and the cells X.                             *)
GoodAt(u, D, X, r, k) ==
    IF VisibleAt(u, r, k)
    THEN \/ u.win[<<r, k>>] = Expected(u, <<r, k>>)
         \/ <<r, k>> \in D /\ u.win[<<r, k>>] = Blank
         \/ <<r, k>> \in X
    ELSE u.win[<<r, k>>] = Blank

GoodBut(u, D, X) == \A r \in Rows, k \in Cols : GoodAt(u, D, X, r, k)
Good(u, D) == GoodBut(u, D, {})

(* A picture stays good under redrawing, ...                                *)
LEMMA GoodRefreshed ==
    ASSUME NEW u, NEW v, NEW D, NEW X, GoodBut(u, D, X), Refreshed(u, v), SameSize(u, v)
    PROVE  GoodBut(v, D, X)
<1> SUFFICES ASSUME NEW r \in Rows, NEW k \in Cols
             PROVE  GoodAt(v, D, X, r, k)
  BY DEF GoodBut
<1>1. GoodAt(u, D, X, r, k) /\ CellDrawn(u, v, r, k)
  BY DEF GoodBut, Refreshed
<1>2. VisibleAt(v, r, k) <=> VisibleAt(u, r, k)
  BY SameVisible
<1> QED BY <1>1, <1>2 DEF GoodAt, CellDrawn

(* ... with nothing left out ...                                            *)
LEMMA GoodStays ==
    ASSUME NEW u, NEW v, NEW D, Good(u, D), Refreshed(u, v), SameSize(u, v)
    PROVE  Good(v, D)
  BY GoodRefreshed DEF Good

(* ... and becomes good where it is cleared.                                *)
LEMMA GoodCleared ==
    ASSUME NEW u, NEW v, NEW D, NEW X, GoodBut(u, D, X), Refreshed(u, v), SameSize(u, v),
           NEW row, NEW nrows, NEW col, NEW ncols, AreaShown(v, row, nrows, col, ncols),
           \A r \in Rows, k \in Cols : <<r, k>> \in X => InArea(r, k, row, nrows, col, ncols)
    PROVE  Good(v, D)
<1> SUFFICES ASSUME NEW r \in Rows, NEW k \in Cols
             PROVE  GoodAt(v, D, {}, r, k)
  BY DEF Good, GoodBut
<1>1. GoodAt(v, D, X, r, k)
  BY GoodRefreshed DEF GoodBut
<1> QED BY <1>1 DEF GoodAt, AreaShown

-----------------------------------------------------------------------------
(* The same has been moved in the text and in the window.                   *)
BehindCells(row, nrows, col, ncols, dr, dc) ==
    {c \in Cells : Behind(c[1], c[2], row, nrows, col, ncols, dr, dc)}

ActiveOff(u, row, nrows, dr) ==
    u.act.on => ~InRows(u.act.row, row, nrows) /\ ~InRows(u.act.row - dr, row, nrows)

(* Away from the segment, a character looks the same everywhere.            *)
LEMMA LookAcross ==
    ASSUME NEW u, NEW v, SameFrame(u, v), v.act = u.act, NEW r, NEW k, NEW q, NEW j, NEW ch,
           u.act.on => u.act.row # r /\ u.act.row # q
    PROVE  Look(v, ch, r, k) = Look(u, ch, q, j)
  BY DEF Look, SameFrame

CursorAway(u, row, nrows, dr) ==
    u.on => ~InRows(u.crow, row, nrows) /\ ~InRows(u.crow - dr, row, nrows)

(* The text and the window moved alike: only what was lost, or is left      *)
(* behind, is wrong.                                                        *)
LEMMA MovedGood ==
    ASSUME NEW u, IsText(u), NEW v, IsText(v), SameFrame(u, v), SameCursor(u, v), v.act = u.act,
           NEW row, NEW nrows, NEW dr, NEW col, NEW ncols, NEW dc,
           Fitting(u, row, nrows, dr, col, ncols, dc), ActiveOff(u, row, nrows, dr), CursorAway(u, row, nrows, dr),
           TextMoved(u, v, row, nrows, col, ncols, dr, dc), NEW lost,
           AreaCopied(u, v, lost, row, nrows, col, ncols, dr, dc), Good(u, {})
    PROVE  GoodBut(v, lost, BehindCells(row, nrows, col, ncols, dr, dc))
<1> SUFFICES ASSUME NEW r \in Rows, NEW k \in Cols
             PROVE  GoodAt(v, lost, BehindCells(row, nrows, col, ncols, dr, dc), r, k)
  BY DEF GoodBut
<1>1. PICK X : X = BehindCells(row, nrows, col, ncols, dr, dc)
  OBVIOUS
<1>2. <<r, k>> \in X <=> Behind(r, k, row, nrows, col, ncols, dr, dc)
  <2>1. <<r, k>> \in Cells /\ <<r, k>>[1] = r /\ <<r, k>>[2] = k
    BY CellsArePairs
  <2> QED BY <2>1, <1>1 DEF BehindCells
<1>3. VisibleAt(v, r, k) <=> VisibleAt(u, r, k)
  BY DEF SameFrame, VisibleAt
<1>4. IF VisibleAt(u, r, k) THEN u.win[<<r, k>>] = Expected(u, <<r, k>>) ELSE u.win[<<r, k>>] = Blank
  BY DEF Good, GoodBut, GoodAt
<1>5. IF InArea(r - dr, k - dc, row, nrows, col, ncols) /\ VisibleAt(u, r, k)
      THEN IF VisibleAt(u, r - dr, k - dc)
           THEN v.win[<<r, k>>] = u.win[<<r - dr, k - dc>>]
           ELSE v.win[<<r, k>>] = Blank /\ <<r, k>> \in lost
      ELSE v.win[<<r, k>>] = u.win[<<r, k>>]
  BY DEF AreaCopied
<1>6. CASE ~VisibleAt(u, r, k)
  BY <1>1, <1>3, <1>4, <1>5, <1>6 DEF GoodAt
<1>7. CASE Behind(r, k, row, nrows, col, ncols, dr, dc) /\ VisibleAt(u, r, k)
  BY <1>1, <1>2, <1>3, <1>7 DEF GoodAt
<1>8. ~Behind(r, k, row, nrows, col, ncols, dr, dc) =>
        RowText(At(v, r), k) = IF InArea(r - dr, k - dc, row, nrows, col, ncols)
                               THEN RowText(At(u, r - dr), k - dc) ELSE RowText(At(u, r), k)
  BY DEF TextMoved
<1>9. CASE /\ ~Behind(r, k, row, nrows, col, ncols, dr, dc) /\ VisibleAt(u, r, k)
           /\ ~InArea(r - dr, k - dc, row, nrows, col, ncols)
  <2>1. Expected(v, <<r, k>>) = Expected(u, <<r, k>>)
    BY <1>8, <1>9, SameExpected
  <2> QED BY <2>1, <1>1, <1>3, <1>4, <1>5, <1>9 DEF GoodAt
<1>10. CASE /\ ~Behind(r, k, row, nrows, col, ncols, dr, dc) /\ VisibleAt(u, r, k)
            /\ InArea(r - dr, k - dc, row, nrows, col, ncols)
  <2>1. CASE ~VisibleAt(u, r - dr, k - dc)
    BY <2>1, <1>1, <1>3, <1>5, <1>10 DEF GoodAt
  <2>2. CASE VisibleAt(u, r - dr, k - dc)
    <3>1. PICK q, j : q = r - dr /\ j = k - dc
      OBVIOUS
    <3>2. q \in Rows /\ j \in Cols
      BY <3>1, <1>10, SourceExists
    <3>3. u.win[<<q, j>>] = Expected(u, <<q, j>>)
      BY <3>1, <3>2, <2>2 DEF Good, GoodBut, GoodAt
    <3> ~CursorAt(u, q, j) /\ ~CursorAt(v, r, k)
      <4>1. InRows(q, row, nrows) /\ InRows(r - dr, row, nrows)
        BY <3>1, <1>10 DEF InArea
      <4> QED BY <4>1 DEF CursorAway, CursorAt, SameCursor
    <3>4. Expected(u, <<q, j>>) = Look(u, RowText(At(u, q), j), q, j)
      BY <3>1, <3>2, <2>2, ExpectedInRow
    <3>5. Expected(v, <<r, k>>) = Look(v, RowText(At(v, r), k), r, k)
      BY <1>3, <1>10, ExpectedInRow
    <3>6. RowText(At(v, r), k) = RowText(At(u, q), j)
      BY <3>1, <1>8, <1>10
    <3>7. u.act.on => u.act.row # r /\ u.act.row # q
      <4>1. InRows(q, row, nrows) /\ InRows(r - dr, row, nrows)
        BY <3>1, <1>10 DEF InArea
      <4> QED BY <4>1 DEF ActiveOff
    <3>8. Look(v, RowText(At(u, q), j), r, k) = Look(u, RowText(At(u, q), j), q, j)
      BY <3>7, LookAcross
    <3>9. v.win[<<r, k>>] = Expected(v, <<r, k>>)
      BY <3>1, <3>3, <3>4, <3>5, <3>6, <3>8, <2>2, <1>5, <1>10
    <3> QED BY <3>9, <1>1, <1>3, <1>10 DEF GoodAt
  <2> QED BY <2>1, <2>2
<1> QED BY <1>6, <1>7, <1>9, <1>10

-----------------------------------------------------------------------------
(* A range is clipped to what is there before and after it moves.           *)
ClippedIn(first0, f, n, num, d) ==
    /\ f \in Nat /\ n \in Nat /\ f + n <= num /\ f + d >= 0 /\ f + d + n <= num
    /\ f >= first0 \/ n = 0

(* Clipping leaves a range that is there before and after it moves.         *)
LEMMA RangeClipped ==
    ASSUME NEW first0 \in Nat, NEW n0 \in Nat, NEW num \in Nat, NEW d \in Int, Fits(first0, num, d)
    PROVE  ClippedIn(first0, Clipped(first0, n0, num, d)[1], Clipped(first0, n0, num, d)[2], num, d)
<1>1. PICK f1 : f1 = Most(Least(first0, num), 0)
  OBVIOUS
<1>2. f1 \in Nat /\ f1 <= num /\ (f1 = first0 \/ (f1 = num /\ num <= first0)) /\ f1 + d <= num /\ -d <= num
  <2>1. PICK l : l = Least(first0, num)
    OBVIOUS
  <2>2. l \in Nat /\ l <= num /\ (l = first0 \/ (l = num /\ num <= first0))
    BY <2>1 DEF Least
  <2>3. f1 = l
    BY <1>1, <2>1, <2>2 DEF Most
  <2>4. l + d <= num /\ -d <= num
    BY <2>1 DEF Fits
  <2> QED BY <2>2, <2>3, <2>4
<1>3. PICK f : f = IF f1 + d < 0 THEN -d ELSE f1
  OBVIOUS
<1>4. f \in Nat /\ f <= num /\ f + d >= 0 /\ f + d <= num /\ f >= f1
  BY <1>2, <1>3
<1>5. PICK n : n = IF n0 = 0 THEN num - f ELSE Least(n0, num - f)
  OBVIOUS
<1>6. n \in Nat /\ n <= num - f
  BY <1>4, <1>5 DEF Least
<1>7. PICK m : m = IF f + n + d >= num THEN num - (f + d) ELSE n
  OBVIOUS
<1>8. m \in Nat /\ f + m <= num /\ f + d + m <= num
  BY <1>4, <1>6, <1>7
<1>9. Clipped(first0, n0, num, d) = <<f, m>>
  BY <1>1, <1>3, <1>5, <1>7 DEF Clipped
<1>10. f >= first0 \/ m = 0
  BY <1>2, <1>4, <1>8
<1> QED BY <1>4, <1>8, <1>9, <1>10 DEF ClippedIn

-----------------------------------------------------------------------------
(* What a method has done when its requests have been made.                 *)
MethodDone(u, v, lost) ==
    /\ Sound(v) /\ SameFrame(u, v)
    /\ \/ v.ev = u.ev /\ lost = {}
       \/ AnswerOf(u, v, lost)
       \/ TwoAnswersOf(u, v, lost)

GoodEnd(v, lost) == SegmentSound(v) /\ Good(v, lost)

ActiveAway(u, row, nrows) == u.act.on => ~InRows(u.act.row, row, nrows)

ScrollHyp(u, row, nrows, dr, col) ==
    /\ SegmentSound(u) /\ Good(u, {}) /\ ActiveAway(u, row, nrows)
    /\ dr = 0 \/ RowsReach(u, row, nrows, col)
    /\ ~Smears(u, row, nrows, dr)

(* The copy of an area, while the cursor is off.                            *)
LEMMA ScrollCopied ==
    ASSUME NEW u, Sound(u), ~u.on, NEW row, NEW nrows, NEW dr, NEW col, NEW ncols, NEW dc,
           Fitting(u, row, nrows, dr, col, ncols, dc), NEW y,
           y = CopyText(u, row, nrows, col, ncols, dr, dc),
           NEW v, v = CopyWindow(y, row, nrows, col, ncols, dr, dc)
    PROVE  /\ SameCursor(u, v)
           /\ \E lost : /\ MethodDone(u, v, lost)
                        /\ ScrollHyp(u, row, nrows, dr, col)
                           => /\ SegmentSound(v)
                              /\ GoodBut(v, lost, BehindCells(row, nrows, col, ncols, dr, dc))
<1>1. /\ row \in Nat /\ nrows \in Nat /\ dr \in Int /\ dc \in Int
      /\ InPlace(u, row, nrows, dr) /\ ColumnsFit(col, col + dc, ncols)
  BY DEF Fitting, InPlace
<1>2. PICK drow, w : drow = row + dr /\ w = Unmarked(u, drow, nrows)
  OBVIOUS
<1>3. Calm(u, w) /\ ~OnSegment(w, drow, nrows)
  BY <1>2, SegmentUnmarked DEF Sound
<1>4. /\ IsText(w) /\ SameText(u, w) /\ SameFrame(u, w) /\ SameCursor(u, w) /\ w.ev = u.ev
      /\ w.act = u.act \/ ~w.act.on
      /\ SegmentSound(u) => SegmentSound(w)
      /\ Refreshed(u, w)
  BY <1>3 DEF Calm
<1>5. Sound(w) /\ \A r : At(w, r) = At(u, r)
  BY <1>4 DEF Sound, SameText, SameFrame, RowsIn, RowNoted, At
<1>6. Fitting(w, row, nrows, dr, col, ncols, dc) /\ InPlace(w, row, nrows, dr)
  BY <1>4 DEF Fitting, InPlace, SameFrame
<1>7. y = Shifted(w, row, nrows, col, ncols, dr, dc)
  BY <1>2, CopyTextIs
<1>8. /\ Shifts(w, y, row, nrows, dr)
      /\ dr = 0 \/ RowsReach(w, row, nrows, col)
            => TextMoved(w, y, row, nrows, col, ncols, dr, dc)
  BY <1>1, <1>5, <1>6, <1>7, TextShifted
<1>9. /\ Sound(y) /\ y.win = w.win /\ SameCursor(w, y) /\ SameRest(w, y)
      /\ \A r \in Rows : ~InRows(r, row, nrows) /\ ~InRows(r - dr, row, nrows) => SameInRow(w, y, r)
  BY <1>8 DEF Shifts
<1>10. Fitting(y, row, nrows, dr, col, ncols, dc) /\ IsText(y)
  BY <1>6, <1>9 DEF Fitting, InPlace, SameRest, SameFrame, Sound
<1>11. /\ IsText(v) /\ SameText(y, v) /\ SameCursor(y, v) /\ SameFrame(y, v) /\ v.act = y.act
       /\ \E lost : WindowMovedTo(y, v, lost, row, nrows, col, ncols, dr, dc)
  BY <1>10, WindowMoved
<1>12. PICK lost : WindowMovedTo(y, v, lost, row, nrows, col, ncols, dr, dc)
  BY <1>11
<1>13. Sound(v) /\ \A r : At(v, r) = At(y, r)
  BY <1>9, <1>11 DEF Sound, SameText, SameFrame, RowsIn, RowNoted, At
<1>14. SameFrame(w, v) /\ SameCursor(w, v) /\ v.act = w.act /\ SameFrame(u, v) /\ SameCursor(u, v)
  BY <1>4, <1>9, <1>11 DEF SameFrame, SameCursor, SameRest
<1>15. AnswerOf(u, v, lost) \/ TwoAnswersOf(u, v, lost)
  <2>1. y.ev = u.ev /\ y.hidden = u.hidden
    BY <1>4, <1>9 DEF SameRest, SameFrame
  <2>2. AnswerOf(y, v, lost) \/ TwoAnswersOf(y, v, lost)
    BY <1>12 DEF WindowMovedTo
  <2> QED BY <2>1, <2>2 DEF AnswerOf, TwoAnswersOf
<1>16. ASSUME ScrollHyp(u, row, nrows, dr, col)
       PROVE  /\ SegmentSound(v)
              /\ GoodBut(v, lost, BehindCells(row, nrows, col, ncols, dr, dc))
  <2>1. ActiveOff(w, row, nrows, dr)
    <3> SUFFICES ASSUME w.act.on
                 PROVE  ~InRows(w.act.row, row, nrows) /\ ~InRows(w.act.row - dr, row, nrows)
      BY DEF ActiveOff
    <3>1. w.act.row \in Int
      BY <1>4, Numbers DEF IsText, SegmentType
    <3>2. w.act.row \notin drow .. drow + nrows - 1
      BY <1>3 DEF OnSegment
    <3>3. ~InRows(w.act.row - dr, row, nrows)
      BY <3>1, <3>2, <1>1, <1>2 DEF InRows
    <3>4. ~InRows(w.act.row, row, nrows)
      BY <1>4, <1>16 DEF ScrollHyp, ActiveAway
    <3> QED BY <3>3, <3>4
  <2>2. SegmentSound(v)
    <3>1. CASE ~w.act.on
      BY <3>1, <1>14, SegmentOff
    <3>2. CASE w.act.on
      <4>1. w.act.row \in Rows /\ SameInRow(w, y, w.act.row)
        BY <3>2, <2>1, <1>4, <1>9 DEF ActiveOff, IsText, SegmentType
      <4>2. \A k \in Cols : RowText(At(v, w.act.row), k) = RowText(At(w, w.act.row), k)
        BY <4>1, <1>13 DEF SameInRow
      <4>3. SegmentSound(w)
        BY <1>4, <1>16 DEF ScrollHyp
      <4> QED BY <4>2, <4>3, <1>4, <1>14, SegmentText
    <3> QED BY <3>1, <3>2
  <2>3. TextMoved(w, v, row, nrows, col, ncols, dr, dc)
    <3>1. dr = 0 \/ RowsReach(w, row, nrows, col)
      BY <1>5, <1>16 DEF ScrollHyp, RowsReach
    <3> QED BY <3>1, <1>8, <1>13 DEF TextMoved
  <2>4. AreaCopied(w, v, lost, row, nrows, col, ncols, dr, dc)
    <3>1. \A r, k : VisibleAt(y, r, k) <=> VisibleAt(w, r, k)
      BY <1>9 DEF VisibleAt, SameRest, SameFrame
    <3>2. AreaCopied(y, v, lost, row, nrows, col, ncols, dr, dc)
      <4>1. ~Smears(y, row, nrows, dr)
        BY <1>4, <1>9, <1>16 DEF ScrollHyp, Smears, SameRest, SameFrame
      <4> QED BY <4>1, <1>12 DEF WindowMovedTo
    <3>3. y.win = w.win
      BY <1>9
    <3> QED BY ONLY <3>1, <3>2, <3>3 DEF AreaCopied
  <2>5. Good(w, {})
    BY <1>4, <1>16, GoodStays DEF ScrollHyp, SameFrame, SameSize
  <2>6. CursorAway(w, row, nrows, dr)
    BY <1>4 DEF SameCursor, CursorAway
  <2> QED BY <2>1, <2>2, <2>3, <2>4, <2>5, <2>6, <1>4, <1>6, <1>11, <1>14, MovedGood
<1> QED BY <1>13, <1>14, <1>15, <1>16 DEF MethodDone

-----------------------------------------------------------------------------
(* What is left behind is cleared: across, or down.                         *)
LEMMA BehindWhere ==
    ASSUME NEW u, IsText(u), NEW row, NEW nrows, NEW dr, NEW col, NEW ncols, NEW dc,
           Fitting(u, row, nrows, dr, col, ncols, dc), NEW r \in Rows, NEW k \in Cols,
           Behind(r, k, row, nrows, col, ncols, dr, dc)
    PROVE  /\ dc = 0 => dr # 0
           /\ dc # 0 => dc < 0 /\ InArea(r, k, row, nrows, col + ncols + dc, -dc)
           /\ dc = 0 /\ dr > 0 => InArea(r, k, row, dr, col, ncols)
           /\ dc = 0 /\ dr < 0 => InArea(r, k, row + nrows + dr, -dr, col, ncols)
<1>1. /\ row \in Nat /\ nrows \in Nat /\ dr \in Int
      /\ dc \in Int /\ col \in Nat /\ ncols \in Nat
  BY DEF Fitting, InPlace, ColumnsFit
<1> QED BY <1>1, Numbers DEF Behind, Between, Whole, InArea, InRows

Erases(u, v, row, nrows, col, ncols) ==
    /\ Sound(v) /\ SameFrame(u, v) /\ SameCursor(u, v) /\ v.ev = u.ev
    /\ SegmentSound(u) => SegmentSound(v) /\ Refreshed(u, v) /\ AreaShown(v, row, nrows, col, ncols)

(* Clearing an area while the cursor is off.                                *)
LEMMA ClearedOff ==
    ASSUME NEW u, Sound(u), ~u.on, NEW row \in Nat, NEW nrows \in Int, row + nrows <= NRows,
           NEW col \in Nat, NEW ncols \in Nat, ncols # 0, NEW v, v = ClearText(u, row, nrows, col, ncols)
    PROVE  Erases(u, v, row, nrows, col, ncols)
<1>1. PICK n : n = Width(ncols)
  OBVIOUS
<1>2. n = ncols
  BY <1>1 DEF Width
<1>3. /\ Edited(u, v)
      /\ SegmentSound(u) /\ ~CursorIn(u, row, nrows, col, n)
            => Refreshed(u, v) /\ AreaShown(v, row, nrows, col, n)
  BY <1>1, TextCleared
<1>4. ~CursorIn(u, row, nrows, col, n)
  BY DEF CursorIn
<1> QED BY <1>2, <1>3, <1>4 DEF Edited, Erases

(* A stage of a scroll: the window is good but for some cells.              *)
StageDone(u, s, lost) == MethodDone(u, s, lost) /\ SameCursor(u, s)
StageGood(s, lost, X) == SegmentSound(s) /\ GoodBut(s, lost, X)

(* A stage of the scroll that clears an area.                               *)
LEMMA StageErased ==
    ASSUME NEW u, NEW s, NEW lost, StageDone(u, s, lost), NEW v, NEW row, NEW nrows, NEW col, NEW ncols,
           Erases(s, v, row, nrows, col, ncols)
    PROVE  /\ StageDone(u, v, lost)
           /\ \A X : StageGood(s, lost, X) => StageGood(v, lost, X)
           /\ \A X : /\ StageGood(s, lost, X)
                     /\ \A r \in Rows, k \in Cols : <<r, k>> \in X => InArea(r, k, row, nrows, col, ncols)
                     => StageGood(v, lost, {})
<1>1. StageDone(u, v, lost)
  BY DEF StageDone, Erases, MethodDone, SameFrame, SameCursor, AnswerOf, TwoAnswersOf
<1>2. SameSize(s, v)
  BY DEF Erases, SameFrame, SameSize
<1>3. ASSUME NEW X, StageGood(s, lost, X)
      PROVE  StageGood(v, lost, X)
  BY <1>2, <1>3, GoodRefreshed DEF Erases, StageGood
<1>4. ASSUME NEW X, StageGood(s, lost, X),
             \A r \in Rows, k \in Cols : <<r, k>> \in X => InArea(r, k, row, nrows, col, ncols)
      PROVE  StageGood(v, lost, {})
  <2>1. SegmentSound(v) /\ Refreshed(s, v) /\ AreaShown(v, row, nrows, col, ncols) /\ GoodBut(s, lost, X)
    BY <1>4 DEF StageGood, Erases
  <2>2. Good(v, lost)
    BY <2>1, <1>2, <1>4, GoodCleared
  <2> QED BY <2>1, <2>2 DEF StageGood, Good
<1> QED BY <1>1, <1>3, <1>4

(* Stage by stage, ...                                                      *)
CopiedOff(u, row, nrows, col, ncols, dr, dc) ==
    IF ncols # 0 /\ nrows # 0
    THEN CopyWindow(CopyText(u, row, nrows, col, ncols, dr, dc), row, nrows, col, ncols, dr, dc)
    ELSE u

CopyStaged(u, v, row, nrows, col, ncols, dr, dc, lost, X) ==
    /\ StageDone(u, v, lost)
    /\ \/ X = {}
       \/ ncols # 0 /\ nrows # 0 /\ X = BehindCells(row, nrows, col, ncols, dr, dc)
    /\ ScrollHyp(u, row, nrows, dr, col) => StageGood(v, lost, X)

(* The stage that copies.                                                   *)
LEMMA CopyStage ==
    ASSUME NEW u, Sound(u), ~u.on, NEW row, NEW nrows, NEW dr, NEW col, NEW ncols, NEW dc,
           Fitting(u, row, nrows, dr, col, ncols, dc), NEW v,
           v = CopiedOff(u, row, nrows, col, ncols, dr, dc)
    PROVE  \E lost, X : CopyStaged(u, v, row, nrows, col, ncols, dr, dc, lost, X)
<1>1. CASE ncols # 0 /\ nrows # 0
  <2>1. PICK y : y = CopyText(u, row, nrows, col, ncols, dr, dc)
    OBVIOUS
  <2>2. v = CopyWindow(y, row, nrows, col, ncols, dr, dc)
    BY <1>1, <2>1 DEF CopiedOff
  <2>3. /\ SameCursor(u, v)
        /\ \E lost : /\ MethodDone(u, v, lost)
                     /\ ScrollHyp(u, row, nrows, dr, col)
                        => /\ SegmentSound(v)
                           /\ GoodBut(v, lost, BehindCells(row, nrows, col, ncols, dr, dc))
    BY <2>1, <2>2, ScrollCopied
  <2> QED BY <1>1, <2>3 DEF CopyStaged, StageDone, StageGood
<1>2. CASE ~(ncols # 0 /\ nrows # 0)
  <2>1. v = u
    BY <1>2 DEF CopiedOff
  <2>2. StageDone(u, v, {})
    BY <2>1 DEF StageDone, MethodDone, SameFrame, SameCursor
  <2>3. ScrollHyp(u, row, nrows, dr, col) => StageGood(v, {}, {})
    BY <2>1 DEF ScrollHyp, StageGood, Good
  <2> QED BY <2>2, <2>3 DEF CopyStaged
<1> QED BY <1>1, <1>2

-----------------------------------------------------------------------------
Across(s, row, nrows, col, ncols, dc) ==
    IF dc = 0 \/ nrows = 0 THEN s
    ELSE IF dc > 0 THEN ClearText(s, row, nrows, col, dc)
    ELSE ClearText(s, row, nrows, col + ncols + dc, -dc)

Down(s, row, nrows, col, ncols, dr) ==
    IF dr = 0 \/ ncols = 0 THEN s
    ELSE IF dr > 0 THEN ClearText(s, row, dr, col, ncols)
    ELSE ClearText(s, row + nrows + dr, -dr, col, ncols)

(* What the copy leaves behind is right or left of it, or above or below.   *)
LEMMA BehindIsWhere ==
    ASSUME NEW u, IsText(u), NEW row, NEW nrows, NEW dr, NEW col, NEW ncols, NEW dc,
           Fitting(u, row, nrows, dr, col, ncols, dc), NEW X,
           X = BehindCells(row, nrows, col, ncols, dr, dc), NEW r \in Rows, NEW k \in Cols, <<r, k>> \in X
    PROVE  /\ dc = 0 => dr # 0
           /\ dc # 0 => dc < 0 /\ InArea(r, k, row, nrows, col + ncols + dc, -dc)
           /\ dc = 0 /\ dr > 0 => InArea(r, k, row, dr, col, ncols)
           /\ dc = 0 /\ dr < 0 => InArea(r, k, row + nrows + dr, -dr, col, ncols)
<1>1. <<r, k>>[1] = r /\ <<r, k>>[2] = k
  OBVIOUS
<1>2. Behind(r, k, row, nrows, col, ncols, dr, dc)
  BY <1>1 DEF BehindCells
<1> QED BY <1>2, BehindWhere

(* Nothing is left to be cleared.                                           *)
LEMMA StageGoodNone ==
    ASSUME NEW s, NEW lost, NEW X, \A r \in Rows, k \in Cols : <<r, k>> \notin X, StageGood(s, lost, X)
    PROVE  StageGood(s, lost, {})
<1> SUFFICES ASSUME NEW r \in Rows, NEW k \in Cols
             PROVE  GoodAt(s, lost, {}, r, k)
  BY DEF StageGood, GoodBut
<1>1. GoodAt(s, lost, X, r, k)
  BY DEF StageGood, GoodBut
<1> QED BY <1>1 DEF GoodAt

(* The bounds of a move that fits.                                          *)
LEMMA FitsHere ==
    ASSUME NEW u, IsText(u), NEW row, NEW nrows, NEW dr, NEW col, NEW ncols, NEW dc,
           Fitting(u, row, nrows, dr, col, ncols, dc)
    PROVE  /\ row \in Nat /\ nrows \in Nat /\ dr \in Int /\ dc \in Int /\ col \in Nat /\ ncols \in Nat
           /\ row + nrows <= NRows /\ row + dr >= 0 /\ row + dr <= NRows
           /\ col + ncols <= NCols /\ col + dc >= 0 /\ NRows \in Nat /\ NCols \in Nat
<1>1. u.nr \in Nat /\ u.nr <= NRows
  BY Numbers DEF IsText
<1>2. /\ row \in Nat /\ nrows \in Nat /\ dr \in Int
      /\ row + nrows <= u.nr /\ row + dr >= 0 /\ row + dr + nrows <= u.nr
      /\ dc \in Int /\ col \in Nat /\ ncols \in Nat
      /\ col + ncols <= NCols /\ col + dc \in Nat
  BY DEF Fitting, InPlace, ColumnsFit
<1> QED BY <1>1, <1>2, Numbers

LeftAcross(X, row, nrows, col, ncols, dr, dc) ==
    X = {} \/ (nrows # 0 /\ X = BehindCells(row, nrows, col, ncols, dr, dc))
LeftDown(Y, row, nrows, col, ncols, dr, dc) ==
    Y = {} \/ (dc = 0 /\ ncols # 0 /\ Y = BehindCells(row, nrows, col, ncols, dr, dc))

AcrossStaged(s, v, lost, X, dc, Y) ==
    /\ Y = {} \/ (dc = 0 /\ Y = X)
    /\ StageGood(s, lost, X) => StageGood(v, lost, Y)

(* The stage that clears what is left beside the copy ...                   *)
LEMMA AcrossStage ==
    ASSUME NEW u, Sound(u), ~u.on, NEW row, NEW nrows, NEW dr, NEW col, NEW ncols, NEW dc,
           Fitting(u, row, nrows, dr, col, ncols, dc), NEW s, NEW lost, StageDone(u, s, lost), NEW X,
           LeftAcross(X, row, nrows, col, ncols, dr, dc),
           NEW v, v = Across(s, row, nrows, col, ncols, dc)
    PROVE  /\ StageDone(u, v, lost)
           /\ \E Y : AcrossStaged(s, v, lost, X, dc, Y)
<1>1. Sound(s) /\ ~s.on
  BY DEF StageDone, MethodDone, SameCursor
<1>2. /\ row \in Nat /\ nrows \in Nat /\ dr \in Int /\ dc \in Int /\ col \in Nat /\ ncols \in Nat
      /\ row + nrows <= NRows /\ row + dr >= 0 /\ row + dr <= NRows
      /\ col + ncols <= NCols /\ col + dc >= 0 /\ NRows \in Nat /\ NCols \in Nat
  BY FitsHere DEF Sound
<1>3. ASSUME NEW r \in Rows, NEW k \in Cols, <<r, k>> \in X, dc # 0
      PROVE  dc < 0 /\ InArea(r, k, row, nrows, col + ncols + dc, -dc)
  BY <1>3, BehindIsWhere DEF Sound, LeftAcross, LeftDown
<1>4. CASE dc = 0
  <2>1. v = s
    BY <1>4 DEF Across
  <2> QED BY <2>1, <1>4 DEF AcrossStaged
<1>5. CASE dc # 0 /\ nrows = 0
  <2>1. v = s /\ X = {}
    BY <1>5 DEF Across, LeftAcross
  <2> QED BY <2>1 DEF AcrossStaged
<1>6. CASE dc > 0 /\ nrows # 0
  <2>1. v = ClearText(s, row, nrows, col, dc)
    BY <1>2, <1>6 DEF Across
  <2>2. Erases(s, v, row, nrows, col, dc)
    BY <1>1, <1>2, <1>6, <2>1, ClearedOff
  <2>3. ASSUME NEW r \in Rows, NEW k \in Cols
        PROVE  <<r, k>> \notin X
    <3> SUFFICES ASSUME <<r, k>> \in X
                 PROVE  FALSE
      OBVIOUS
    <3>1. dc # 0 /\ ~(dc < 0)
      BY <1>2, <1>6
    <3> QED BY <3>1, <1>3
  <2>4. StageDone(u, v, lost) /\ (StageGood(s, lost, {}) => StageGood(v, lost, {}))
    BY <2>2, StageErased
  <2>5. StageGood(s, lost, X) => StageGood(v, lost, {})
    BY <2>3, <2>4, StageGoodNone
  <2> QED BY <2>4, <2>5 DEF AcrossStaged
<1>7. CASE dc < 0 /\ nrows # 0
  <2>1. PICK c, n : c = col + ncols + dc /\ n = -dc
    OBVIOUS
  <2>2. v = ClearText(s, row, nrows, c, n) /\ c \in Nat /\ n \in Nat /\ n # 0
    BY <1>2, <1>7, <2>1 DEF Across
  <2>3. Erases(s, v, row, nrows, c, n)
    BY <1>1, <1>2, <2>2, ClearedOff
  <2>4. \A r \in Rows, k \in Cols : <<r, k>> \in X => InArea(r, k, row, nrows, c, n)
    BY <1>2, <1>3, <1>7, <2>1
  <2>5. StageDone(u, v, lost) /\ (StageGood(s, lost, X) => StageGood(v, lost, {}))
    BY <2>3, <2>4, StageErased
  <2> QED BY <2>5 DEF AcrossStaged
<1> QED BY <1>2, <1>4, <1>5, <1>6, <1>7

(* ... and the one that clears what is left above or below.                 *)
LEMMA DownStage ==
    ASSUME NEW u, Sound(u), ~u.on, NEW row, NEW nrows, NEW dr, NEW col, NEW ncols, NEW dc,
           Fitting(u, row, nrows, dr, col, ncols, dc), NEW s, NEW lost, StageDone(u, s, lost), NEW Y,
           LeftDown(Y, row, nrows, col, ncols, dr, dc),
           NEW v, v = Down(s, row, nrows, col, ncols, dr)
    PROVE  /\ StageDone(u, v, lost)
           /\ StageGood(s, lost, Y) => StageGood(v, lost, {})
<1>1. Sound(s) /\ ~s.on
  BY DEF StageDone, MethodDone, SameCursor
<1>2. /\ row \in Nat /\ nrows \in Nat /\ dr \in Int /\ dc \in Int /\ col \in Nat /\ ncols \in Nat
      /\ row + nrows <= NRows /\ row + dr >= 0 /\ row + dr <= NRows
      /\ col + ncols <= NCols /\ col + dc >= 0 /\ NRows \in Nat /\ NCols \in Nat
  BY FitsHere DEF Sound
<1>3. ASSUME NEW r \in Rows, NEW k \in Cols, <<r, k>> \in Y
      PROVE  /\ dr # 0 /\ ncols # 0
             /\ dr > 0 => InArea(r, k, row, dr, col, ncols)
             /\ dr < 0 => InArea(r, k, row + nrows + dr, -dr, col, ncols)
  BY <1>3, BehindIsWhere DEF Sound, LeftAcross, LeftDown
<1>4. CASE dr = 0 \/ ncols = 0
  <2>1. v = s
    BY <1>4 DEF Down
  <2>2. \A r \in Rows, k \in Cols : <<r, k>> \notin Y
    BY <1>3, <1>4
  <2> QED BY <2>1, <2>2, StageGoodNone
<1>5. CASE dr > 0 /\ ncols # 0
  <2>1. v = ClearText(s, row, dr, col, ncols)
    BY <1>2, <1>5 DEF Down
  <2>2. Erases(s, v, row, dr, col, ncols)
    BY <1>1, <1>2, <1>5, <2>1, ClearedOff
  <2>3. \A r \in Rows, k \in Cols : <<r, k>> \in Y => InArea(r, k, row, dr, col, ncols)
    BY <1>3, <1>5
  <2> QED BY <2>2, <2>3, StageErased
<1>6. CASE dr < 0 /\ ncols # 0
  <2>1. PICK f, n : f = row + nrows + dr /\ n = -dr
    OBVIOUS
  <2>2. v = ClearText(s, f, n, col, ncols) /\ f \in Nat /\ n \in Nat /\ f + n <= NRows
    BY <1>2, <1>6, <2>1 DEF Down
  <2>3. Erases(s, v, f, n, col, ncols)
    BY <1>1, <1>2, <1>6, <2>2, ClearedOff
  <2>4. \A r \in Rows, k \in Cols : <<r, k>> \in Y => InArea(r, k, f, n, col, ncols)
    BY <1>3, <1>6, <2>1
  <2> QED BY <2>3, <2>4, StageErased
<1> QED BY <1>2, <1>4, <1>5, <1>6

-----------------------------------------------------------------------------
(* The whole method.                                                        *)
LEMMA CursorOffAndOn ==
    ASSUME NEW u, Sound(u), NEW on \in BOOLEAN, NEW v, v = CursorTo(u, on)
    PROVE  /\ Sound(v) /\ SameFrame(u, v) /\ v.ev = u.ev /\ v.act = u.act /\ v.on = on
           /\ v.crow = u.crow /\ v.ccol = u.ccol /\ SameText(u, v)
           /\ SegmentSound(u) => SegmentSound(v)
           /\ \A D : Good(u, D) => Good(v, D)
<1>1. /\ IsText(v) /\ SameText(u, v) /\ SameRest(u, v)
      /\ v.on = on /\ v.crow = u.crow /\ v.ccol = u.ccol /\ Refreshed(u, v)
  BY CursorMoved DEF Sound
<1>2. Sound(v)
  BY <1>1 DEF Sound, SameText, SameRest, SameFrame, RowsIn, RowNoted, At
<1>3. SegmentSound(u) => SegmentSound(v)
  BY <1>1, SameSegment DEF SameText, SameRest
<1>4. SameSize(u, v)
  BY <1>1 DEF SameRest, SameFrame, SameSize
<1>5. \A D : Good(u, D) => Good(v, D)
  BY <1>1, <1>4, GoodStays
<1> QED BY <1>1, <1>2, <1>3, <1>5 DEF SameRest

-----------------------------------------------------------------------------
FirstOf(first0, n0, num, d) == Clipped(first0, n0, num, d)[1]
NumberOf(first0, n0, num, d) == Clipped(first0, n0, num, d)[2]

(* ScrollArea as its stages.                                                *)
LEMMA ScrollAreaIs ==
    ASSUME NEW u, NEW row0, NEW col0, NEW nrows0, NEW ncols0, NEW dr, NEW dc,
           NEW row, row = FirstOf(row0, nrows0, u.nr, dr),
           NEW nrows, nrows = NumberOf(row0, nrows0, u.nr, dr),
           NEW col, col = FirstOf(col0, ncols0, NCols, dc),
           NEW ncols, ncols = NumberOf(col0, ncols0, NCols, dc),
           NEW x, x = Uncursored(u), NEW y, y = CopiedOff(x, row, nrows, col, ncols, dr, dc),
           NEW a, a = Across(y, row, nrows, col, ncols, dc),
           NEW d, d = Down(a, row, nrows, col, ncols, dr),
           NEW v, v = ScrollArea(u, row0, col0, nrows0, ncols0, dr, dc)
    PROVE  v = CursorTo(d, u.on)
  BY DEF ScrollArea, FirstOf, NumberOf, CopiedOff, Across, Down, Uncursored

(* The cursor is where it was, and as it was.                               *)
SamePlace(u, v) == v.crow = u.crow /\ v.ccol = u.ccol /\ v.on = u.on

(* ScrollArea as a method.                                                  *)
LEMMA AreaScrolled ==
    ASSUME NEW u, Sound(u), NEW row0 \in Nat, NEW col0 \in Nat, NEW nrows0 \in Nat, NEW ncols0 \in Nat,
           NEW dr \in Int, NEW dc \in Int, Fits(row0, u.nr, dr), Fits(col0, NCols, dc),
           NEW row, row = FirstOf(row0, nrows0, u.nr, dr),
           NEW nrows, nrows = NumberOf(row0, nrows0, u.nr, dr),
           NEW col, col = FirstOf(col0, ncols0, NCols, dc),
           NEW v, v = ScrollArea(u, row0, col0, nrows0, ncols0, dr, dc)
    PROVE  /\ SamePlace(u, v) /\ ClippedIn(row0, row, nrows, u.nr, dr)
           /\ \E lost : /\ MethodDone(u, v, lost)
                        /\ ScrollHyp(u, row, nrows, dr, col) => GoodEnd(v, lost)
<1>1. PICK ncols, off, x, y, a, d :
        /\ ncols = NumberOf(col0, ncols0, NCols, dc) /\ off = FALSE /\ x = CursorTo(u, off)
        /\ y = CopiedOff(x, row, nrows, col, ncols, dr, dc)
        /\ a = Across(y, row, nrows, col, ncols, dc)
        /\ d = Down(a, row, nrows, col, ncols, dr)
  OBVIOUS
<1>2. v = CursorTo(d, u.on)
  <2>1. x = Uncursored(u)
    BY <1>1 DEF Uncursored
  <2> QED BY <1>1, <2>1, ScrollAreaIs
<1>3. u.nr \in Nat /\ NCols \in Nat /\ u.on \in BOOLEAN
  BY Numbers DEF Sound, IsText
<1>4. ClippedIn(row0, row, nrows, u.nr, dr) /\ ClippedIn(col0, col, ncols, NCols, dc)
  BY <1>1, <1>3, RangeClipped DEF FirstOf, NumberOf
<1>5. Fitting(u, row, nrows, dr, col, ncols, dc)
  BY <1>3, <1>4 DEF ClippedIn, Fitting, InPlace, ColumnsFit
<1>6. /\ Sound(x) /\ SameFrame(u, x) /\ x.ev = u.ev /\ x.act = u.act /\ x.on = off
      /\ x.crow = u.crow /\ x.ccol = u.ccol /\ SameText(u, x)
      /\ SegmentSound(u) => SegmentSound(x)
      /\ \A D : Good(u, D) => Good(x, D)
  <2>1. off \in BOOLEAN /\ x = CursorTo(u, off)
    BY <1>1
  <2> QED BY <2>1, CursorOffAndOn
<1>7. ~x.on /\ Fitting(x, row, nrows, dr, col, ncols, dc)
  BY <1>1, <1>5, <1>6 DEF Fitting, InPlace, SameFrame
<1>8. PICK lost, X : CopyStaged(x, y, row, nrows, col, ncols, dr, dc, lost, X)
  BY <1>1, <1>6, <1>7, CopyStage
<1>9. /\ StageDone(x, y, lost)
      /\ \/ X = {}
         \/ ncols # 0 /\ nrows # 0 /\ X = BehindCells(row, nrows, col, ncols, dr, dc)
      /\ ScrollHyp(x, row, nrows, dr, col) => StageGood(y, lost, X)
  BY <1>8 DEF CopyStaged
<1>10. /\ StageDone(x, a, lost)
       /\ \E Y : AcrossStaged(y, a, lost, X, dc, Y)
  <2>1. LeftAcross(X, row, nrows, col, ncols, dr, dc)
    BY <1>9 DEF LeftAcross
  <2>2. Sound(x) /\ ~x.on /\ StageDone(x, y, lost) /\ a = Across(y, row, nrows, col, ncols, dc)
    BY <1>1, <1>6, <1>7, <1>9
  <2>3. Fitting(x, row, nrows, dr, col, ncols, dc)
    BY <1>7
  <2> QED BY <2>1, <2>2, <2>3, AcrossStage
<1> PICK Y : AcrossStaged(y, a, lost, X, dc, Y)
  BY <1>10
<1>18. /\ Y = {} \/ (dc = 0 /\ Y = X)
       /\ StageGood(y, lost, X) => StageGood(a, lost, Y)
  BY DEF AcrossStaged
<1>11. LeftDown(Y, row, nrows, col, ncols, dr, dc)
  BY <1>9, <1>18 DEF LeftDown
<1>12. /\ StageDone(x, d, lost)
       /\ StageGood(a, lost, Y) => StageGood(d, lost, {})
  <2>1. Sound(x) /\ ~x.on /\ StageDone(x, a, lost) /\ d = Down(a, row, nrows, col, ncols, dr)
    BY <1>1, <1>6, <1>7, <1>10
  <2>2. Fitting(x, row, nrows, dr, col, ncols, dc)
    BY <1>7
  <2> QED BY <2>1, <2>2, <1>11, DownStage
<1>13. Sound(d) /\ SameFrame(x, d) /\ SameCursor(x, d) /\ MethodDone(x, d, lost)
  BY <1>12 DEF StageDone, MethodDone
<1>14. /\ Sound(v) /\ SameFrame(d, v) /\ v.ev = d.ev /\ v.act = d.act /\ v.on = u.on
       /\ v.crow = d.crow /\ v.ccol = d.ccol /\ SameText(d, v)
       /\ SegmentSound(d) => SegmentSound(v)
       /\ \A D : Good(d, D) => Good(v, D)
  BY <1>2, <1>3, <1>13, CursorOffAndOn
<1>15. SamePlace(u, v)
  BY <1>6, <1>13, <1>14 DEF SamePlace, SameCursor
<1>16. MethodDone(u, v, lost)
  BY <1>6, <1>13, <1>14 DEF MethodDone, SameFrame, AnswerOf, TwoAnswersOf
<1>17. ASSUME ScrollHyp(u, row, nrows, dr, col)
       PROVE  GoodEnd(v, lost)
  <2>1. \A r : At(x, r) = At(u, r)
    BY <1>6 DEF SameText, At
  <2>2. ScrollHyp(x, row, nrows, dr, col)
    BY <2>1, <1>6, <1>17 DEF ScrollHyp, ActiveAway, RowsReach, Smears, SameFrame
  <2>3. SegmentSound(d) /\ Good(d, lost)
    BY <2>2, <1>9, <1>12, <1>18 DEF StageGood, Good
  <2> QED BY <2>3, <1>14 DEF GoodEnd
<1> QED BY <1>4, <1>15, <1>16, <1>17

-----------------------------------------------------------------------------
(* A method, or part of one, that copies nothing.                           *)
Plain(u, v) ==
    /\ Sound(v) /\ SameFrame(u, v) /\ v.ev = u.ev
    /\ v.act = u.act \/ ~v.act.on
    /\ SegmentSound(u) => SegmentSound(v) /\ \A D : Good(u, D) => Good(v, D)

(* Doing nothing is plain.                                                  *)
LEMMA PlainItself ==
    ASSUME NEW u, Sound(u)
    PROVE  Plain(u, u) /\ SameCursor(u, u) /\ SamePlace(u, u)
  BY DEF Plain, SameFrame, SameCursor, SamePlace

(* Two plain changes are one.                                               *)
LEMMA PlainTwice ==
    ASSUME NEW u, NEW v, NEW x, Plain(u, v), Plain(v, x)
    PROVE  Plain(u, x)
<1>1. Sound(x) /\ SameFrame(u, x) /\ x.ev = u.ev
  BY DEF Plain, SameFrame
<1>2. x.act = u.act \/ ~x.act.on
  BY DEF Plain
<1>3. SegmentSound(u) => SegmentSound(x) /\ \A D : Good(u, D) => Good(x, D)
  BY DEF Plain
<1> QED BY <1>1, <1>2, <1>3 DEF Plain

(* Turning the cursor on or off is plain.                                   *)
LEMMA CursorPlain ==
    ASSUME NEW u, Sound(u), NEW on \in BOOLEAN, NEW v, v = CursorTo(u, on)
    PROVE  Plain(u, v) /\ v.on = on /\ v.crow = u.crow /\ v.ccol = u.ccol
<1>1. /\ Sound(v) /\ SameFrame(u, v) /\ v.ev = u.ev /\ v.act = u.act /\ v.on = on
      /\ v.crow = u.crow /\ v.ccol = u.ccol /\ SameText(u, v)
      /\ SegmentSound(u) => SegmentSound(v)
      /\ \A D : Good(u, D) => Good(v, D)
  BY CursorOffAndOn
<1> QED BY <1>1 DEF Plain

(* So is turning it off.                                                    *)
LEMMA UncursoredPlain ==
    ASSUME NEW u, Sound(u), NEW v, v = Uncursored(u)
    PROVE  Plain(u, v) /\ ~v.on /\ v.crow = u.crow /\ v.ccol = u.ccol
<1>1. PICK off : off = FALSE
  OBVIOUS
<1>2. off \in BOOLEAN /\ v = CursorTo(u, off)
  BY <1>1 DEF Uncursored
<1>3. Plain(u, v) /\ v.on = off /\ v.crow = u.crow /\ v.ccol = u.ccol
  BY <1>2, CursorPlain
<1> QED BY <1>1, <1>3

(* So is clearing an area the cursor is not in.                             *)
LEMMA ClearPlain ==
    ASSUME NEW u, Sound(u), NEW row \in Nat, NEW nrows \in Int, row + nrows <= NRows,
           NEW col \in Nat, NEW ncols0 \in Nat, ~CursorIn(u, row, nrows, col, Width(ncols0)),
           NEW v, v = ClearText(u, row, nrows, col, ncols0)
    PROVE  Plain(u, v) /\ SameCursor(u, v)
<1>1. PICK ncols : ncols = Width(ncols0)
  OBVIOUS
<1>2. /\ Edited(u, v)
      /\ SegmentSound(u) /\ ~CursorIn(u, row, nrows, col, ncols)
            => Refreshed(u, v) /\ AreaShown(v, row, nrows, col, ncols)
  BY <1>1, TextCleared
<1>3. /\ Sound(v) /\ SameFrame(u, v) /\ SameCursor(u, v) /\ v.ev = u.ev
      /\ v.act = u.act \/ ~v.act.on
      /\ SegmentSound(u) => SegmentSound(v)
  BY <1>2 DEF Edited
<1>4. SameSize(u, v)
  BY <1>3 DEF SameFrame, SameSize
<1>5. SegmentSound(u) => \A D : Good(u, D) => Good(v, D)
  BY <1>1, <1>2, <1>4, GoodStays
<1> QED BY <1>3, <1>5 DEF Plain

(* The method Clear.                                                        *)
LEMMA AreaCleared ==
    ASSUME NEW u, Sound(u), NEW row \in Nat, NEW col \in Nat, NEW nrows0 \in Nat, NEW ncols \in Nat,
           NEW v, v = ClearArea(u, row, col, nrows0, ncols)
    PROVE  Plain(u, v) /\ SamePlace(u, v)
<1>1. PICK nrows, nc : /\ nrows = IF nrows0 = 0 THEN u.nr - row ELSE Least(nrows0, u.nr - row)
                       /\ nc = IF ncols = 0 THEN MAX_COLS ELSE ncols
  OBVIOUS
<1>2. u.nr \in Nat /\ u.nr <= NRows /\ NRows \in Nat /\ NCols \in Nat /\ u.on \in BOOLEAN
  BY Numbers DEF Sound, IsText
<1>3. nc = Width(ncols) /\ nc \in Nat
  BY <1>1, <1>2 DEF Width, MAX_COLS
<1>4. CASE row >= u.nr
  <2>1. v = u
    BY <1>4 DEF ClearArea
  <2> QED BY <2>1, PlainItself
<1>5. CASE /\ row < u.nr
           /\ u.ccol \in col .. col + nc - 1 /\ u.crow \in row .. row + nrows - 1
  <2>1. PICK x, y : x = Uncursored(u) /\ y = ClearText(x, row, nrows, col, ncols)
    OBVIOUS
  <2>2. v = CursorTo(y, u.on)
    BY <1>1, <1>2, <1>5, <2>1 DEF ClearArea, CursorBack
  <2>3. Plain(u, x) /\ ~x.on /\ x.crow = u.crow /\ x.ccol = u.ccol
    BY <2>1, UncursoredPlain
  <2>4. nrows \in Int /\ row + nrows <= NRows
    BY <1>1, <1>2, <1>5 DEF Least
  <2>5. Plain(x, y) /\ SameCursor(x, y)
    <3>1. Sound(x) /\ ~CursorIn(x, row, nrows, col, Width(ncols))
      BY <2>3 DEF Plain, CursorIn
    <3> QED BY <3>1, <2>1, <2>4, ClearPlain
  <2>6. Plain(y, v) /\ v.on = u.on /\ v.crow = y.crow /\ v.ccol = y.ccol
    <3>1. Sound(y)
      BY <2>5 DEF Plain
    <3> QED BY <3>1, <2>2, <1>2, CursorPlain
  <2>7. SamePlace(u, v)
    BY <2>3, <2>5, <2>6 DEF SamePlace, SameCursor
  <2> QED BY <2>3, <2>5, <2>6, <2>7, PlainTwice
<1>6. CASE /\ row < u.nr
           /\ ~(u.ccol \in col .. col + nc - 1 /\ u.crow \in row .. row + nrows - 1)
  <2>1. v = ClearText(u, row, nrows, col, ncols)
    BY <1>1, <1>2, <1>6 DEF ClearArea
  <2>2. nrows \in Int /\ row + nrows <= NRows
    BY <1>1, <1>2, <1>6 DEF Least
  <2>3. ~CursorIn(u, row, nrows, col, Width(ncols))
    <3>1. u.crow \in Int /\ u.ccol \in Int
      BY <1>2 DEF Sound, IsText
    <3> QED BY <3>1, <2>2, <1>3, <1>6 DEF CursorIn, InArea, InRows
  <2>4. Plain(u, v) /\ SameCursor(u, v)
    BY <2>1, <2>2, <2>3, ClearPlain
  <2> QED BY <2>4 DEF SameCursor, SamePlace
<1> QED BY <1>2, <1>4, <1>5, <1>6

-----------------------------------------------------------------------------
(* Characters of one row change, and what changes is drawn.                 *)
RowChanged(x, v, row, col, len) ==
    /\ IsText(v) /\ SameFrame(x, v) /\ SameCursor(x, v) /\ v.act = x.act /\ v.ev = x.ev
    /\ \A r \in Rows, k \in Cols :
        IF InArea(r, k, row, 1, col, len)
        THEN IF VisibleAt(x, r, k)
             THEN v.win[<<r, k>>] = Look(v, RowText(At(v, r), k), row, col)
             ELSE v.win[<<r, k>>] = x.win[<<r, k>>]
        ELSE /\ v.win[<<r, k>>] = x.win[<<r, k>>]
             /\ RowText(At(v, r), k) = RowText(At(x, r), k)

(* Where no segment is highlighted, a character looks the same in every     *)
(* string.                                                                  *)
LEMMA LookOff ==
    ASSUME NEW v, NEW ch, NEW r, NEW k, NEW j, v.act.on => v.act.row # r
    PROVE  Look(v, ch, r, k) = Look(v, ch, r, j)
  BY DEF Look

(* A row that is drawn where it has changed.                                *)
LEMMA RowRedrawn ==
    ASSUME NEW x, IsText(x), NEW v, NEW row \in Nat, NEW col \in Nat, NEW len \in Nat,
           RowChanged(x, v, row, col, len), ~OnSegment(x, row, 1), ~(x.on /\ x.crow = row)
    PROVE  Refreshed(x, v) /\ (SegmentSound(x) => SegmentSound(v))
<1>1. IsText(v) /\ SameFrame(x, v) /\ SameCursor(x, v) /\ v.act = x.act
  BY DEF RowChanged
<1>2. v.act.on => v.act.row # row
  BY <1>1 DEF OnSegment
<1>3. SameSize(x, v)
  BY <1>1 DEF SameFrame, SameSize
<1>4. ASSUME NEW r \in Rows, NEW k \in Cols
      PROVE  CellDrawn(x, v, r, k)
  <2>1. VisibleAt(v, r, k) <=> VisibleAt(x, r, k)
    BY <1>3, SameVisible
  <2>2. CASE InArea(r, k, row, 1, col, len)
    <3>1. r = row
      BY <2>2, Numbers DEF InArea, InRows
    <3>2. CASE VisibleAt(x, r, k)
      <4>1. v.win[<<r, k>>] = Look(v, RowText(At(v, r), k), row, col)
        BY <2>2, <3>2 DEF RowChanged
      <4>2. Look(v, RowText(At(v, r), k), row, col) = Look(v, RowText(At(v, r), k), row, k)
        BY <1>2, LookOff
      <4>3. Expected(v, <<r, k>>) = IF CursorAt(v, r, k) THEN CursorCell
                                    ELSE Look(v, RowText(At(v, r), k), r, k)
        BY <1>1, <2>1, <3>2, ExpectedInRow
      <4>4. ~CursorAt(v, r, k)
        BY <1>1, <3>1 DEF CursorAt, SameCursor
      <4> QED BY <2>1, <3>1, <3>2, <4>1, <4>2, <4>3, <4>4 DEF CellDrawn
    <3>3. CASE ~VisibleAt(x, r, k)
      <4>1. v.win[<<r, k>>] = x.win[<<r, k>>]
        BY <2>2, <3>3 DEF RowChanged
      <4> QED BY <2>1, <3>3, <4>1 DEF CellDrawn
    <3> QED BY <3>2, <3>3
  <2>3. CASE ~InArea(r, k, row, 1, col, len)
    <3>1. v.win[<<r, k>>] = x.win[<<r, k>>] /\ RowText(At(v, r), k) = RowText(At(x, r), k)
      BY <2>3 DEF RowChanged
    <3>2. Expected(v, <<r, k>>) = Expected(x, <<r, k>>)
      BY <1>1, <3>1, SameExpected
    <3> QED BY <3>1, <3>2 DEF CellDrawn
  <2> QED BY <2>2, <2>3
<1>5. Refreshed(x, v)
  BY <1>4 DEF Refreshed
<1>6. ASSUME SegmentSound(x)
      PROVE  SegmentSound(v)
  <2>1. CASE ~v.act.on
    BY <2>1, SegmentOff
  <2>2. CASE v.act.on
    <3>1. x.act.row \in Rows /\ x.act.row # row
      BY <1>1, <1>2, <2>2 DEF IsText, SegmentType
    <3>2. ASSUME NEW k \in Cols
          PROVE  RowText(At(v, x.act.row), k) = RowText(At(x, x.act.row), k)
      <4>1. ~InArea(x.act.row, k, row, 1, col, len)
        BY <3>1, Numbers DEF InArea, InRows
      <4> QED BY <3>1, <4>1 DEF RowChanged
    <3> QED BY <3>2, <1>1, <1>6, SegmentText
  <2> QED BY <2>1, <2>2
<1> QED BY <1>5, <1>6

(* What DrawText leaves: a row with str in it.                              *)
RowWritten(b, v, str, col) ==
    /\ v \in RowType
    /\ \A k \in Cols : RowText(v, k) = IF col <= k /\ k < col + Len(str) THEN str[k - col + 1]
                                       ELSE RowText(b, k)

StringBlinks(str) == \E k \in DOMAIN str : str[k] \in Blinking

WrittenRow(b, str, col) ==
    LET lcol == col + Len(str)
        b1 == IF col > b.n THEN ClearedChars(b, b.n, col - b.n, FALSE) ELSE b
        blinks == \E k \in DOMAIN str : str[k] \in Blinking
    IN [b1 EXCEPT !.n = Most(@, lcol),
                  !.cell = [c \in Cols |-> IF c \in col .. lcol - 1
                                           THEN str[c - col + 1] ELSE @[c]],
                  !.bs = IF blinks THEN Least(@, col) ELSE @,
                  !.bl = IF blinks THEN Most(@, lcol) ELSE @]

Padded(b, col) == IF col > b.n THEN ClearedChars(b, b.n, col - b.n, FALSE) ELSE b

(* Cells between the end of a row and a string are empty.                   *)
LEMMA RowPadded ==
    ASSUME NEW b \in RowType, NEW col \in Nat, NEW v, v = Padded(b, col)
    PROVE  /\ v \in RowType /\ v.n = b.n /\ v.bs = b.bs /\ v.bl = b.bl
           /\ \A k \in Cols : v.cell[k] = IF b.n <= k /\ k < col THEN Null ELSE b.cell[k]
<1>1. b.n \in Nat
  BY RowParts
<1>2. CASE col > b.n
  <2>1. PICK scol, ncols : scol = b.n /\ ncols = col - b.n
    OBVIOUS
  <2>2. scol \in Nat /\ ncols \in Nat
    BY <1>1, <1>2, <2>1
  <2>3. v = ClearedChars(b, scol, ncols, FALSE)
    BY <1>2, <2>1 DEF Padded
  <2>4. PICK off : off = FALSE
    OBVIOUS
  <2>5. off \in BOOLEAN /\ ~off /\ v = ClearedChars(b, scol, ncols, off)
    BY <2>3, <2>4
  <2>6. /\ v \in RowType /\ v.n = b.n /\ v.bs = b.bs /\ v.bl = b.bl
        /\ CellsCleared(b, v, scol, ncols)
    BY <2>2, <2>5, ClearedCellsOnly
  <2>7. ASSUME NEW k \in Cols
        PROVE  v.cell[k] = IF b.n <= k /\ k < col THEN Null ELSE b.cell[k]
    <3>1. v.cell[k] = IF k \in scol .. scol + ncols - 1 THEN Null ELSE b.cell[k]
      BY <2>6 DEF CellsCleared
    <3>2. k \in scol .. scol + ncols - 1 <=> b.n <= k /\ k < col
      BY <2>1, <1>1, Numbers
    <3> QED BY <3>1, <3>2
  <2> QED BY <2>6, <2>7
<1>3. CASE ~(col > b.n)
  <2>1. v = b
    BY <1>3 DEF Padded
  <2>2. \A k \in Cols : ~(b.n <= k /\ k < col)
    BY <1>1, <1>3, Numbers
  <2> QED BY <2>1, <2>2
<1> QED BY <1>2, <1>3

(* A row a string is put in, by its parts.                                  *)
LEMMA WrittenRowIs ==
    ASSUME NEW b \in RowType, NEW str, NEW col, NEW p, p = Padded(b, col), p \in RowType,
           NEW lcol, lcol = col + Len(str), NEW v, v = WrittenRow(b, str, col)
    PROVE  v = RowOf(Most(p.n, lcol),
                     [c \in Cols |-> IF c \in col .. lcol - 1 THEN str[c - col + 1] ELSE p.cell[c]],
                     IF StringBlinks(str) THEN Least(p.bs, col) ELSE p.bs,
                     IF StringBlinks(str) THEN Most(p.bl, lcol) ELSE p.bl)
<1>1. p = [n |-> p.n, cell |-> p.cell, bs |-> p.bs, bl |-> p.bl]
  BY RowParts
<1>2. v = [p EXCEPT !.n = Most(@, lcol),
                    !.cell = [c \in Cols |-> IF c \in col .. lcol - 1
                                             THEN str[c - col + 1] ELSE @[c]],
                    !.bs = IF StringBlinks(str) THEN Least(@, col) ELSE @,
                    !.bl = IF StringBlinks(str) THEN Most(@, lcol) ELSE @]
  BY DEF WrittenRow, Padded, StringBlinks
<1> QED BY <1>1, <1>2 DEF RowOf

(* What that row reads, and what is noted of its blinking.                  *)
LEMMA StringInRow ==
    ASSUME NEW b \in RowType, NEW str \in Seq(Char), NEW col \in Nat, col + Len(str) <= NCols,
           NEW v, v = WrittenRow(b, str, col)
    PROVE  /\ RowWritten(b, v, str, col)
           /\ ExtentNoted(b) => ExtentNoted(v)
           /\ Blinks(v) => Blinks(b) \/ StringBlinks(str)
<1>1. PICK p : p = Padded(b, col)
  OBVIOUS
<1>2. /\ p \in RowType /\ p.n = b.n /\ p.bs = b.bs /\ p.bl = b.bl
      /\ \A k \in Cols : p.cell[k] = IF b.n <= k /\ k < col THEN Null ELSE b.cell[k]
  BY <1>1, RowPadded
<1>3. PICK lcol : lcol = col + Len(str)
  OBVIOUS
<1>4. Len(str) \in Nat /\ lcol \in Nat /\ lcol <= NCols /\ NCols \in Nat
  BY <1>3, Numbers
<1>5. /\ b.n \in 0 .. NCols /\ b.n \in Nat /\ b.n <= NCols
      /\ b.cell \in [Cols -> Char] /\ b.bs \in Nat
      /\ b.bl \in 0 .. NCols /\ b.bl \in Nat /\ b.bl <= NCols
  BY RowParts
<1>6. PICK n, cell, bs, bl :
        /\ n = Most(b.n, lcol)
        /\ cell = [c \in Cols |-> IF c \in col .. lcol - 1 THEN str[c - col + 1] ELSE p.cell[c]]
        /\ bs = IF StringBlinks(str) THEN Least(b.bs, col) ELSE b.bs
        /\ bl = IF StringBlinks(str) THEN Most(b.bl, lcol) ELSE b.bl
  OBVIOUS
<1>7. v = RowOf(n, cell, bs, bl)
  BY <1>1, <1>2, <1>3, <1>6, WrittenRowIs
<1>8. RowFields(n, cell, bs, bl)
  <2>1. n \in 0 .. NCols /\ bs \in Nat /\ bl \in 0 .. NCols
    BY <1>4, <1>5, <1>6 DEF Most, Least
  <2>2. ASSUME NEW c \in Cols
        PROVE  cell[c] \in Char
    <3>1. p.cell[c] \in Char
      BY <1>2 DEF RowType
    <3>2. c \in col .. lcol - 1 => c - col + 1 \in 1 .. Len(str)
      BY <1>3, <1>4, Numbers
    <3> QED BY <3>1, <3>2, <1>6
  <2>3. cell \in [Cols -> Char]
    BY <1>6, <2>2
  <2> QED BY <2>1, <2>3 DEF RowFields
<1>9. v \in RowType /\ v.n = n /\ v.cell = cell /\ v.bs = bs /\ v.bl = bl
  BY <1>7, <1>8, RowBuilt
<1>10. ASSUME NEW k \in Cols
       PROVE  RowText(v, k) = IF col <= k /\ k < col + Len(str) THEN str[k - col + 1]
                              ELSE RowText(b, k)
  <2>1. k \in Nat /\ k < NCols
    BY Numbers
  <2>2. CASE col <= k /\ k < lcol
    <3>1. k < n /\ k \in col .. lcol - 1
      BY <1>4, <1>5, <1>6, <2>1, <2>2 DEF Most
    <3>2. cell[k] = str[k - col + 1]
      BY <3>1, <1>6
    <3> QED BY <3>1, <3>2, <1>3, <1>9, <2>2 DEF RowText
  <2>3. CASE ~(col <= k /\ k < lcol)
    <3>1. k \notin col .. lcol - 1
      BY <2>1, <2>3, <1>4
    <3>2. cell[k] = p.cell[k]
      BY <3>1, <1>6
    <3>3. CASE k < b.n
      <4>1. k < n /\ cell[k] = b.cell[k]
        BY <3>2, <3>3, <1>2, <1>4, <1>5, <1>6, <2>1 DEF Most
      <4> QED BY <4>1, <3>3, <2>3, <1>3, <1>9 DEF RowText
    <3>4. CASE ~(k < b.n)
      <4>1. k < n => k < col
        BY <3>4, <2>1, <2>3, <1>4, <1>5, <1>6 DEF Most
      <4>2. k < n => cell[k] = Null
        BY <4>1, <3>2, <3>4, <1>2, <1>5, <2>1
      <4> QED BY <4>2, <3>4, <2>3, <1>3, <1>9 DEF RowText
    <3> QED BY <3>3, <3>4
  <2> QED BY <2>2, <2>3
<1>11. ASSUME NEW k \in Cols, col <= k, k < col + Len(str), str[k - col + 1] \in Blinking
       PROVE  StringBlinks(str)
  <2>1. k - col + 1 \in DOMAIN str
    BY <1>4, <1>11, Numbers
  <2> QED BY <2>1, <1>11 DEF StringBlinks
<1>12. ASSUME ExtentNoted(b), NEW k \in Cols, RowText(v, k) \in Blinking
       PROVE  v.bs <= k /\ k < v.bl
  <2>1. k \in Nat
    BY Numbers
  <2>2. CASE col <= k /\ k < col + Len(str)
    <3>1. StringBlinks(str)
      BY <2>2, <1>10, <1>11, <1>12
    <3> QED BY <3>1, <2>1, <2>2, <1>3, <1>4, <1>5, <1>6, <1>9 DEF Least, Most
  <2>3. CASE ~(col <= k /\ k < col + Len(str))
    <3>1. RowText(b, k) \in Blinking
      BY <2>3, <1>10, <1>12
    <3>2. b.bs <= k /\ k < b.bl
      BY <3>1, <1>12 DEF ExtentNoted
    <3> QED BY <3>2, <2>1, <1>4, <1>5, <1>6, <1>9 DEF Least, Most
  <2> QED BY <2>2, <2>3
<1>13. ExtentNoted(b) => ExtentNoted(v)
  BY <1>12 DEF ExtentNoted
<1>14. Blinks(v) => Blinks(b) \/ StringBlinks(str)
  BY <1>10, <1>11 DEF Blinks
<1>15. RowWritten(b, v, str, col)
  BY <1>9, <1>10 DEF RowWritten
<1> QED BY <1>13, <1>14, <1>15

-----------------------------------------------------------------------------
(* DrawText with nothing to draw clears the cells.                          *)
AllNull(str) == \A k \in DOMAIN str : str[k] = Null

Erased(x, str, row, col) ==
    SetRow(Fill(x, {row} \X (col .. col + Len(str) - 1)), row,
           ClearedChars(At(x, row), col, Len(str), TRUE))

NoteString(x, str, row) ==
    NotesGiven(x, IF StringBlinks(str) THEN Least(x.bfirst, row) ELSE x.bfirst,
                  IF StringBlinks(str) THEN Most(x.blim, row + 1) ELSE x.blim,
                  x.ticking \/ StringBlinks(str))

Inscribed(x, str, row, col) ==
    DrawString(SetRow(NoteString(x, str, row), row, WrittenRow(At(x, row), str, col)), str, row, col)

(* DrawText as its two cases.                                               *)
LEMMA DrawTextIs ==
    ASSUME NEW u, NEW str, NEW row, NEW col, NEW x, x = Unmarked(u, row, 1)
    PROVE  DrawText(u, str, row, col) = IF AllNull(str) THEN Erased(x, str, row, col)
                                        ELSE Inscribed(x, str, row, col)
<1>1. DrawText(u, str, row, col) = IF AllNull(str) THEN EraseText(x, row, col, Len(str))
                                   ELSE InscribeText(x, str, row, col)
  BY DEF DrawText, Unmarked, AllNull
<1>2. EraseText(x, row, col, Len(str)) = Erased(x, str, row, col)
  BY DEF EraseText, Erased
<1>3. InscribeText(x, str, row, col) = Inscribed(x, str, row, col)
  BY Zenon DEF InscribeText, Inscribed, NoteString, NotesGiven, WrittenRow, StringBlinks
<1> QED BY <1>1, <1>2, <1>3

(* It has rewritten the row.                                                *)
Rewrites(x, v, row, col, len) == RowsIn(v) /\ RowChanged(x, v, row, col, len)

RowTextErased(v, x, row, col, len) ==
    \A r \in Rows, k \in Cols :
        RowText(At(v, r), k) = IF InArea(r, k, row, 1, col, len) THEN Null ELSE RowText(At(x, r), k)

(* Cells of a row are cleared.                                              *)
LEMMA TextErased ==
    ASSUME NEW x, Sound(x), NEW row \in Rows, NEW col \in Nat, NEW str \in Seq(Char),
           col + Len(str) <= NCols, NEW v, v = Erased(x, str, row, col)
    PROVE  Rewrites(x, v, row, col, Len(str))
<1>1. PICK len : len = Len(str)
  OBVIOUS
<1>2. len \in Nat /\ NCols \in Nat /\ NRows \in Nat /\ row \in Nat /\ row < NRows
  BY <1>1, Numbers
<1>3. PICK cells, y, b : /\ cells = AreaCells(row, 1, col, len)
                         /\ y = Fill(x, cells) /\ b = ClearedChars(At(x, row), col, len, TRUE)
  OBVIOUS
<1>4. cells = {row} \X (col .. col + len - 1)
  <2>1. PICK rows, lim : rows = row .. row + 1 - 1 /\ lim = Least(col + len, NCols)
    OBVIOUS
  <2>2. rows = {row} /\ lim = col + len
    BY <1>1, <1>2, <2>1 DEF Least
  <2>3. cells = rows \X (col .. lim - 1)
    BY <1>3, <2>1 DEF AreaCells
  <2>4. cells = {row} \X (col .. lim - 1)
    BY <2>2, <2>3
  <2> QED BY <2>2, <2>4, <1>2
<1>5. v = SetRow(y, row, b)
  BY <1>1, <1>3, <1>4 DEF Erased
<1>6. IsText(x) /\ At(x, row) \in RowType /\ BuffersApart(x)
  BY SoundRows DEF Sound, RowsIn, BuffersApart
<1>7. SameButWindow(x, y) /\ AreaBlank(x, y, row, 1, col, len)
  <2>1. 1 \in Int
    OBVIOUS
  <2> QED BY <2>1, <1>2, <1>3, <1>6, AreaFilled
<1>8. RowCleared(At(x, row), b, col, len)
  BY <1>2, <1>3, <1>6, ClearedToEnd
<1>9. IsText(y) /\ BuffersApart(y) /\ b \in RowType
  BY <1>6, <1>7, <1>8 DEF SameButWindow, SameText, BuffersApart, RowCleared
<1>10. /\ IsText(v) /\ v.row = y.row /\ v.win = y.win /\ SameNotes(y, v)
       /\ SameCursor(y, v) /\ SameRest(y, v)
       /\ \A r \in Rows : At(v, r) = IF r = row THEN b ELSE At(y, r)
  BY <1>5, <1>9, RowSet
<1>11. /\ v.row = x.row /\ SameNotes(x, v) /\ SameCursor(x, v) /\ SameFrame(x, v)
       /\ v.act = x.act /\ v.ev = x.ev /\ v.nr = x.nr
       /\ \A r \in Rows : At(v, r) = IF r = row THEN b ELSE At(x, r)
  BY <1>7, <1>10 DEF SameButWindow, SameText, SameNotes, SameCursor, SameRest, SameFrame, At
<1>12. ASSUME NEW r \in Rows, NEW k \in Cols
       PROVE  RowText(At(v, r), k) = IF InArea(r, k, row, 1, col, len) THEN Null
                                     ELSE RowText(At(x, r), k)
  <2>1. r \in Nat /\ k \in Nat
    BY Numbers
  <2>2. InArea(r, k, row, 1, col, len) <=> r = row /\ k \in col .. col + len - 1
    BY <2>1, <1>2 DEF InArea, InRows
  <2>3. CASE r = row
    BY <2>2, <2>3, <1>8, <1>11 DEF RowCleared
  <2>4. CASE r # row
    BY <2>2, <2>4, <1>11
  <2> QED BY <2>3, <2>4
<1>13. RowsIn(v)
  <2>1. ASSUME NEW r \in Rows
        PROVE  ExtentNoted(At(v, r)) /\ (Blinks(At(v, r)) => Blinks(At(x, r)))
    <3>1. ExtentNoted(At(x, r))
      BY SoundRows
    <3>2. At(v, r).bs = At(x, r).bs /\ At(v, r).bl = At(x, r).bl
      BY <1>8, <1>11 DEF RowCleared
    <3>3. \A k \in Cols : RowText(At(v, r), k) = Null \/ RowText(At(v, r), k) = RowText(At(x, r), k)
      BY <1>12
    <3> QED BY <3>1, <3>2, <3>3, LessBlinks
  <2> QED BY <2>1, <1>11, RowsStayIn
<1>14. ASSUME NEW r \in Rows, NEW k \in Cols
       PROVE  IF InArea(r, k, row, 1, col, len)
              THEN IF VisibleAt(x, r, k)
                   THEN v.win[<<r, k>>] = Look(v, RowText(At(v, r), k), row, col)
                   ELSE v.win[<<r, k>>] = x.win[<<r, k>>]
              ELSE /\ v.win[<<r, k>>] = x.win[<<r, k>>]
                   /\ RowText(At(v, r), k) = RowText(At(x, r), k)
  <2>1. v.win[<<r, k>>] = IF InArea(r, k, row, 1, col, len) /\ VisibleAt(x, r, k) THEN Blank
                          ELSE x.win[<<r, k>>]
    BY <1>7, <1>10 DEF AreaBlank
  <2>2. Look(v, Null, row, col) = Blank
    BY NullLook
  <2> QED BY <2>1, <2>2, <1>12
<1>15. RowChanged(x, v, row, col, len)
  BY <1>10, <1>11, <1>14 DEF RowChanged
<1> QED BY <1>1, <1>13, <1>15 DEF Rewrites

(* A row with a blinking string is noted.                                   *)
LEMMA StringNoted ==
    ASSUME NEW x, Sound(x), NEW row \in Rows, row < x.nr, NEW str, NEW v, v = NoteString(x, str, row)
    PROVE  /\ IsText(v) /\ v.row = x.row /\ v.buf = x.buf /\ v.win = x.win
           /\ SameCursor(x, v) /\ SameRest(x, v)
           /\ \A r \in Rows : RowNoted(x, r) => RowNoted(v, r)
           /\ StringBlinks(str) => RowNoted(v, row)
<1>1. PICK f, l, t : /\ f = IF StringBlinks(str) THEN Least(x.bfirst, row) ELSE x.bfirst
                     /\ l = IF StringBlinks(str) THEN Most(x.blim, row + 1) ELSE x.blim
                     /\ t = (x.ticking \/ StringBlinks(str))
  OBVIOUS
<1>2. v = NotesGiven(x, f, l, t)
  BY <1>1 DEF NoteString
<1>3. IsText(x) /\ x.bfirst \in Nat /\ x.blim \in Nat /\ x.ticking \in BOOLEAN /\ row \in Nat
  BY Numbers DEF Sound, IsText
<1>4. f \in Nat /\ l \in Nat
  BY <1>1, <1>3 DEF Least, Most
<1>5. t \in BOOLEAN
  BY <1>1
<1>6. /\ IsText(v) /\ v.row = x.row /\ v.buf = x.buf /\ v.win = x.win
      /\ v.bfirst = f /\ v.blim = l /\ v.ticking = t
      /\ SameCursor(x, v) /\ SameRest(x, v)
  BY <1>2, <1>3, <1>4, <1>5 DEF NotesGiven, IsText, TextFields, SameCursor, SameRest, SameFrame
<1>7. v.nr = x.nr
  BY <1>6 DEF SameRest, SameFrame
<1>8. x.ticking => v.ticking
  BY <1>1, <1>6, Zenon
<1>9. StringBlinks(str) => v.ticking
  BY <1>1, <1>6, Zenon
<1>10. ASSUME NEW r \in Rows, RowNoted(x, r)
       PROVE  RowNoted(v, r)
  <2>1. r \in Nat
    BY Numbers
  <2>2. f <= r /\ r < l
    BY <2>1, <1>1, <1>3, <1>10 DEF RowNoted, Least, Most
  <2> QED BY <2>2, <1>6, <1>7, <1>8, <1>10 DEF RowNoted
<1>11. StringBlinks(str) => f <= row /\ row < l
  BY <1>1, <1>3 DEF Least, Most
<1>12. StringBlinks(str) => RowNoted(v, row)
  BY <1>6, <1>7, <1>9, <1>11 DEF RowNoted
<1> QED BY <1>6, <1>10, <1>12

(* A string is put in a row.                                                *)
LEMMA TextInscribed ==
    ASSUME NEW x, Sound(x), NEW row \in Rows, row < x.nr, NEW col \in Nat, NEW str \in Seq(Char),
           col + Len(str) <= NCols, NEW v, v = Inscribed(x, str, row, col)
    PROVE  Rewrites(x, v, row, col, Len(str))
<1>1. PICK len, b, y, z : /\ len = Len(str) /\ b = WrittenRow(At(x, row), str, col)
                          /\ y = NoteString(x, str, row) /\ z = SetRow(y, row, b)
  OBVIOUS
<1>2. v = DrawString(z, str, row, col)
  BY <1>1 DEF Inscribed
<1>3. len \in Nat /\ NCols \in Nat /\ NRows \in Nat /\ row \in Nat /\ row < NRows
  BY <1>1, Numbers
<1>4. IsText(x) /\ At(x, row) \in RowType /\ BuffersApart(x)
  BY SoundRows DEF Sound, RowsIn, BuffersApart
<1>5. /\ RowWritten(At(x, row), b, str, col)
      /\ ExtentNoted(At(x, row)) => ExtentNoted(b)
      /\ Blinks(b) => Blinks(At(x, row)) \/ StringBlinks(str)
  BY <1>1, <1>4, StringInRow
<1>6. /\ IsText(y) /\ y.row = x.row /\ y.buf = x.buf /\ y.win = x.win
      /\ SameCursor(x, y) /\ SameRest(x, y)
      /\ \A r \in Rows : RowNoted(x, r) => RowNoted(y, r)
      /\ StringBlinks(str) => RowNoted(y, row)
  BY <1>1, StringNoted
<1>7. BuffersApart(y) /\ b \in RowType
  BY <1>4, <1>5, <1>6 DEF BuffersApart, RowWritten
<1>8. /\ IsText(z) /\ z.row = y.row /\ z.win = y.win /\ SameNotes(y, z)
      /\ SameCursor(y, z) /\ SameRest(y, z)
      /\ \A r \in Rows : At(z, r) = IF r = row THEN b ELSE At(y, r)
  BY <1>1, <1>6, <1>7, RowSet
<1>9. /\ IsText(v) /\ SameText(z, v) /\ SameCursor(z, v) /\ SameRest(z, v)
      /\ \A r \in Rows, k \in Cols : v.win[<<r, k>>] =
            IF r = row /\ k \in col .. col + Len(str) - 1 /\ VisibleAt(z, r, k)
            THEN Look(z, str[k - col + 1], row, col) ELSE z.win[<<r, k>>]
  BY <1>2, <1>8, StringDrawn
<1>10. /\ SameCursor(x, v) /\ SameFrame(x, v) /\ v.act = x.act /\ v.ev = x.ev /\ v.row = x.row
       /\ SameFrame(z, v) /\ v.act = z.act /\ SameSize(x, z) /\ z.win = x.win
       /\ SameNotes(y, v) /\ v.nr = y.nr
  BY <1>6, <1>8, <1>9 DEF SameText, SameNotes, SameCursor, SameRest, SameFrame, SameSize
<1>11. \A r \in Rows : At(v, r) = IF r = row THEN b ELSE At(x, r)
  BY <1>6, <1>8, <1>9 DEF SameText, At
<1>12. ASSUME NEW r \in Rows
       PROVE  ExtentNoted(At(v, r)) /\ (Blinks(At(v, r)) => RowNoted(v, r))
  <2>1. ExtentNoted(At(x, r)) /\ (Blinks(At(x, r)) => RowNoted(x, r))
    BY SoundRows
  <2>2. RowNoted(y, r) => RowNoted(v, r)
    BY <1>10 DEF RowNoted, SameNotes
  <2>3. CASE r = row
    BY <2>1, <2>2, <2>3, <1>5, <1>6, <1>11
  <2>4. CASE r # row
    BY <2>1, <2>2, <2>4, <1>6, <1>11
  <2> QED BY <2>3, <2>4
<1>13. RowsIn(v)
  BY <1>4, <1>10, <1>12 DEF RowsIn, BuffersApart
<1>14. ASSUME NEW r \in Rows, NEW k \in Cols
       PROVE  IF InArea(r, k, row, 1, col, len)
              THEN IF VisibleAt(x, r, k)
                   THEN v.win[<<r, k>>] = Look(v, RowText(At(v, r), k), row, col)
                   ELSE v.win[<<r, k>>] = x.win[<<r, k>>]
              ELSE /\ v.win[<<r, k>>] = x.win[<<r, k>>]
                   /\ RowText(At(v, r), k) = RowText(At(x, r), k)
  <2>1. r \in Nat /\ k \in Nat
    BY Numbers
  <2>2. InArea(r, k, row, 1, col, len) <=> r = row /\ k \in col .. col + Len(str) - 1
    BY <2>1, <1>1, <1>3 DEF InArea, InRows
  <2>3. VisibleAt(z, r, k) <=> VisibleAt(x, r, k)
    BY <1>10, SameVisible
  <2>4. v.win[<<r, k>>] = IF InArea(r, k, row, 1, col, len) /\ VisibleAt(x, r, k)
                          THEN Look(z, str[k - col + 1], row, col) ELSE x.win[<<r, k>>]
    BY <2>2, <2>3, <1>9, <1>10
  <2>5. RowText(At(v, r), k) = IF InArea(r, k, row, 1, col, len) THEN str[k - col + 1]
                               ELSE RowText(At(x, r), k)
    <3>1. CASE r = row
      <4>1. RowText(b, k) = IF col <= k /\ k < col + Len(str) THEN str[k - col + 1]
                            ELSE RowText(At(x, row), k)
        BY <1>5 DEF RowWritten
      <4>2. k \in col .. col + Len(str) - 1 <=> col <= k /\ k < col + Len(str)
        BY <2>1, <1>1, <1>3
      <4> QED BY <3>1, <4>1, <4>2, <2>2, <1>11
    <3>2. CASE r # row
      BY <3>2, <2>2, <1>11
    <3> QED BY <3>1, <3>2
  <2>6. Look(v, str[k - col + 1], row, col) = Look(z, str[k - col + 1], row, col)
    BY <1>10, SameLook
  <2> QED BY <2>4, <2>5, <2>6
<1>15. RowChanged(x, v, row, col, len)
  BY <1>9, <1>10, <1>14 DEF RowChanged
<1> QED BY <1>1, <1>13, <1>15 DEF Rewrites

(* DrawText on a row without the cursor.                                    *)
LEMMA TextDrawn ==
    ASSUME NEW u, Sound(u), NEW row \in Rows, row < u.nr, NEW col \in Nat, NEW str \in Seq(Char),
           col + Len(str) <= NCols, ~(u.on /\ u.crow = row), NEW v, v = DrawText(u, str, row, col)
    PROVE  Plain(u, v) /\ SameCursor(u, v)
<1>1. PICK x, len : x = Unmarked(u, row, 1) /\ len = Len(str)
  OBVIOUS
<1>2. Calm(u, x) /\ ~OnSegment(x, row, 1)
  BY <1>1, SegmentUnmarked DEF Sound
<1>3. /\ IsText(x) /\ SameText(u, x) /\ SameFrame(u, x) /\ SameCursor(u, x) /\ x.ev = u.ev
      /\ x.act = u.act \/ ~x.act.on
      /\ SegmentSound(u) => SegmentSound(x)
      /\ Refreshed(u, x)
  BY <1>2 DEF Calm
<1>4. Sound(x)
  BY <1>3 DEF Sound, RowsIn, SameText, SameFrame, At, RowNoted
<1>5. row < x.nr /\ ~(x.on /\ x.crow = row)
  BY <1>3 DEF SameFrame, SameCursor
<1>6. Rewrites(x, v, row, col, Len(str))
  <2>1. CASE AllNull(str)
    <3>1. v = Erased(x, str, row, col)
      BY <2>1, <1>1, DrawTextIs
    <3> QED BY <3>1, <1>4, TextErased
  <2>2. CASE ~AllNull(str)
    <3>1. v = Inscribed(x, str, row, col)
      BY <2>2, <1>1, DrawTextIs
    <3> QED BY <3>1, <1>4, <1>5, TextInscribed
  <2> QED BY <2>1, <2>2
<1>7. RowsIn(v) /\ RowChanged(x, v, row, col, len)
  BY <1>1, <1>6 DEF Rewrites
<1>8. IsText(v) /\ SameFrame(x, v) /\ SameCursor(x, v) /\ v.act = x.act /\ v.ev = x.ev
  BY <1>7 DEF RowChanged
<1>9. Refreshed(x, v) /\ (SegmentSound(x) => SegmentSound(v))
  <2>1. row \in Nat /\ len \in Nat
    BY <1>1, Numbers
  <2> QED BY <2>1, <1>2, <1>3, <1>5, <1>7, RowRedrawn
<1>10. SameSize(u, x) /\ SameSize(x, v)
  BY <1>3, <1>8 DEF SameFrame, SameSize
<1>11. ASSUME NEW D, Good(u, D)
       PROVE  Good(v, D)
  <2>1. Good(x, D)
    BY <1>3, <1>10, <1>11, GoodStays
  <2> QED BY <2>1, <1>9, <1>10, GoodStays
<1>12. SameFrame(u, v) /\ SameCursor(u, v) /\ v.ev = u.ev /\ (v.act = u.act \/ ~v.act.on)
  BY <1>3, <1>8 DEF SameFrame, SameCursor
<1>13. Sound(v)
  BY <1>7, <1>8 DEF Sound
<1>14. SegmentSound(u) => SegmentSound(v)
  BY <1>3, <1>9
<1> QED BY <1>11, <1>12, <1>13, <1>14 DEF Plain

-----------------------------------------------------------------------------
(* The parts of a method one after the other.                               *)
LEMMA DonePlain ==
    ASSUME NEW u, NEW x, NEW lost, MethodDone(u, x, lost), NEW v, Plain(x, v)
    PROVE  MethodDone(u, v, lost) /\ (GoodEnd(x, lost) => GoodEnd(v, lost))
<1>1. Sound(v) /\ SameFrame(x, v) /\ v.ev = x.ev
      /\ (SegmentSound(x) => SegmentSound(v) /\ \A D : Good(x, D) => Good(v, D))
  BY DEF Plain
<1>2. SameFrame(u, v)
  BY <1>1 DEF MethodDone, SameFrame
<1>3. MethodDone(u, v, lost)
  BY <1>1, <1>2 DEF MethodDone, AnswerOf, TwoAnswersOf
<1> QED BY <1>1, <1>3 DEF GoodEnd

(* A plain change before a method is part of it.                            *)
LEMMA PlainDone ==
    ASSUME NEW u, NEW x, Plain(u, x), NEW v, NEW lost, MethodDone(x, v, lost)
    PROVE  MethodDone(u, v, lost)
<1>1. SameFrame(u, x) /\ x.ev = u.ev
  BY DEF Plain
<1>2. SameFrame(u, v)
  BY <1>1 DEF MethodDone, SameFrame
<1>3. x.hidden = u.hidden
  BY <1>1 DEF SameFrame
<1> QED BY <1>1, <1>2, <1>3 DEF MethodDone, AnswerOf, TwoAnswersOf

(* The cursor, not being on, is placed elsewhere.                           *)
LEMMA PlacedPlain ==
    ASSUME NEW u, Sound(u), ~u.on, NEW r \in 0 .. u.nr - 1, NEW k \in 0 .. NCols,
           NEW v, v = CursorPlaced(u, r, k)
    PROVE  Plain(u, v) /\ v.crow = r /\ v.ccol = k /\ ~v.on
<1>1. /\ IsText(v) /\ v.crow = r /\ v.ccol = k /\ v.on = u.on /\ v.win = u.win
      /\ SameText(u, v) /\ SameRest(u, v)
  BY ColumnAssigned DEF Sound
<1>2. IsText(u) /\ SameFrame(u, v) /\ v.ev = u.ev /\ v.act = u.act
  BY <1>1 DEF SameRest, Sound
<1>3. Sound(v)
  BY <1>1, <1>2 DEF Sound, RowsIn, SameText, SameFrame, RowNoted, At
<1>4. SegmentSound(u) => SegmentSound(v)
  BY <1>1, <1>2, SameSegment DEF SameText
<1>5. ASSUME NEW q \in Rows, NEW j \in Cols
      PROVE  CellDrawn(u, v, q, j)
  <2>1. CharAt(v, q, j) = CharAt(u, q, j)
    BY <1>1, <1>2, SameChar DEF SameText
  <2>2. Expected(u, <<q, j>>) = IF CursorAt(u, q, j) THEN CursorCell ELSE Look(u, CharAt(u, q, j), q, j)
    BY <1>2, ExpectedIs
  <2>3. Expected(v, <<q, j>>) = IF CursorAt(v, q, j) THEN CursorCell ELSE Look(v, CharAt(v, q, j), q, j)
    BY <1>1, ExpectedIs
  <2>4. ~CursorAt(u, q, j) /\ ~CursorAt(v, q, j)
    BY <1>1 DEF CursorAt
  <2>5. Look(v, CharAt(u, q, j), q, j) = Look(u, CharAt(u, q, j), q, j)
    BY <1>2, SameLook
  <2> QED BY <2>1, <2>2, <2>3, <2>4, <2>5, <1>1 DEF CellDrawn
<1>6. Refreshed(u, v) /\ SameSize(u, v)
  BY <1>2, <1>5 DEF Refreshed, SameFrame, SameSize
<1>7. \A D : Good(u, D) => Good(v, D)
  BY <1>6, GoodStays
<1> QED BY <1>1, <1>2, <1>3, <1>4, <1>7 DEF Plain

-----------------------------------------------------------------------------
(* Room is made for a string in a row.                                      *)
Inserted(u, row, col, len, n) ==
    CopyText(XCopyArea(u, row, 1, col, n, row, col + len), row, 1, col, n, 0, len)

(* Characters move to the right to make room.                               *)
LEMMA RowShiftedRight ==
    ASSUME NEW u, Sound(u), NEW row \in Rows, row < u.nr, NEW col \in Nat, NEW len \in Nat, NEW n \in Nat,
           col + len + n <= NCols, ~(u.on /\ u.crow = row), NEW v, v = Inserted(u, row, col, len, n)
    PROVE  /\ SameCursor(u, v)
           /\ \E lost : /\ MethodDone(u, v, lost)
                        /\ SegmentSound(u) /\ Good(u, {}) /\ ActiveAway(u, row, 1) => GoodEnd(v, lost)
<1>1. PICK one, zero, dcol, y, w : /\ one = 1 /\ zero = 0 /\ dcol = col + len
                                   /\ y = XCopyArea(u, row, one, col, n, row, dcol)
                                   /\ w = Unmarked(y, row, one)
  OBVIOUS
<1>2. one \in Nat /\ zero \in Nat /\ zero \in Int /\ len \in Int /\ dcol \in Nat /\ row \in Nat /\ row + zero = row
  BY <1>1, Numbers
<1>3. u.nr \in Nat /\ NCols \in Nat
  BY Numbers DEF Sound, IsText
<1>4. InPlace(u, row, one, zero) /\ ColumnsFit(col, col + len, n)
  BY <1>1, <1>2, <1>3 DEF InPlace, ColumnsFit
<1>5. Fitting(u, row, one, zero, col, n, len)
  BY <1>2, <1>4 DEF Fitting
<1>6. v = CopyText(y, row, one, col, n, zero, len)
  BY <1>1 DEF Inserted
<1>7. /\ IsText(y) /\ SameText(u, y) /\ SameCursor(u, y) /\ SameFrame(u, y) /\ y.act = u.act
      /\ \E lost : AnswerOf(u, y, lost) /\ AreaCopied(u, y, lost, row, one, col, n, zero, len)
  <2>1. row = row + zero /\ dcol = col + len
    BY <1>1, <1>2
  <2> QED BY <2>1, <1>1, <1>5, WindowCopied DEF Sound
<1>8. PICK lost : AnswerOf(u, y, lost) /\ AreaCopied(u, y, lost, row, one, col, n, zero, len)
  BY <1>7
<1>9. Sound(y) /\ \A r : At(y, r) = At(u, r)
  BY <1>7 DEF Sound, SameText, SameFrame, RowsIn, RowNoted, At
<1>10. Calm(y, w) /\ ~OnSegment(w, row, one)
  BY <1>1, <1>7, SegmentUnmarked
<1>11. /\ IsText(w) /\ SameText(y, w) /\ SameFrame(y, w) /\ SameCursor(y, w) /\ w.ev = y.ev
       /\ w.act = y.act \/ ~w.act.on
  BY <1>10 DEF Calm
<1>12. Sound(w)
  BY <1>9, <1>11 DEF Sound, SameText, SameFrame, RowsIn, RowNoted, At
<1>13. v = Shifted(w, row, one, col, n, zero, len)
  BY <1>1, <1>2, <1>6, CopyTextIs
<1>14. InPlace(w, row, one, zero)
  BY <1>4, <1>7, <1>11 DEF InPlace, SameFrame
<1>15. /\ Shifts(w, v, row, one, zero)
       /\ zero = 0 \/ RowsReach(w, row, one, col)
            => TextMoved(w, v, row, one, col, n, zero, len)
  BY <1>2, <1>4, <1>12, <1>13, <1>14, TextShifted
<1>16. /\ Sound(v) /\ v.win = w.win /\ SameCursor(w, v) /\ SameRest(w, v)
       /\ \A r \in Rows : ~InRows(r, row, one) /\ ~InRows(r - zero, row, one) => SameInRow(w, v, r)
  BY <1>15 DEF Shifts
<1>17. SameFrame(u, v) /\ SameCursor(u, v) /\ v.ev = y.ev /\ IsText(v)
  BY <1>7, <1>11, <1>16 DEF SameFrame, SameCursor, SameRest, Sound
<1>18. MethodDone(u, v, lost)
  BY <1>8, <1>16, <1>17 DEF MethodDone, AnswerOf
<1>19. ASSUME SegmentSound(u), Good(u, {}), ActiveAway(u, row, 1)
       PROVE  GoodEnd(v, lost)
  <2>1. ActiveAway(u, row, one)
    BY <1>1, <1>19
  <2>2. ~OnSegment(y, row, one)
    <3>1. u.act.on => u.act.row \in Int
      BY Numbers DEF Sound, IsText, SegmentType
    <3>2. u.act.on => u.act.row \notin row .. row + one - 1
      BY <2>1, <3>1, <1>2 DEF ActiveAway, InRows
    <3> QED BY <3>2, <1>7 DEF OnSegment
  <2>3. w = y
    BY <2>2, <1>1 DEF Unmarked
  <2>4. v.act = u.act /\ v.win = y.win
    BY <2>3, <1>7, <1>16 DEF SameRest
  <2>5. ActiveOff(u, row, one, zero)
    <3>1. u.act.on => u.act.row - zero = u.act.row
      BY <1>1, Numbers DEF Sound, IsText, SegmentType
    <3> QED BY <3>1, <2>1 DEF ActiveOff, ActiveAway
  <2>6. CursorAway(u, row, one, zero)
    <3>1. u.crow \in Int
      BY <1>3 DEF Sound, IsText
    <3>2. u.on => ~InRows(u.crow, row, one) /\ u.crow - zero = u.crow
      BY <3>1, <1>1, <1>2 DEF InRows
    <3> QED BY <3>2 DEF CursorAway
  <2>7. TextMoved(w, v, row, one, col, n, zero, len)
    BY <1>1, <1>15
  <2>8. TextMoved(u, v, row, one, col, n, zero, len)
    BY <2>3, <2>7, <1>9 DEF TextMoved
  <2>9. AreaCopied(u, v, lost, row, one, col, n, zero, len)
    BY <2>4, <1>8 DEF AreaCopied
  <2>10. GoodBut(v, lost, BehindCells(row, one, col, n, zero, len))
    BY <2>4, <2>5, <2>6, <2>8, <2>9, <1>5, <1>17, <1>19, MovedGood DEF Sound
  <2>11. BehindCells(row, one, col, n, zero, len) = {}
    <3>1. \A k \in Cols : ~Between(col, col + len, n, k)
      BY Numbers DEF Between
    <3>2. \A c \in Cells : c[2] \in Cols
      BY CellsArePairs
    <3> QED BY <3>1, <3>2, <1>1 DEF BehindCells, Behind
  <2>12. Good(v, lost)
    BY <2>10, <2>11 DEF Good
  <2>13. SegmentSound(v)
    <3>1. CASE ~u.act.on
      BY <3>1, <2>4, SegmentOff
    <3>2. CASE u.act.on
      <4>1. u.act.row \in Rows /\ SameInRow(w, v, u.act.row)
        BY <3>2, <2>5, <1>16 DEF ActiveOff, Sound, IsText, SegmentType
      <4>2. \A k \in Cols : RowText(At(v, u.act.row), k) = RowText(At(u, u.act.row), k)
        BY <4>1, <2>3, <1>9 DEF SameInRow
      <4> QED BY <4>2, <2>4, <1>19, SegmentText DEF Sound
    <3> QED BY <3>1, <3>2
  <2> QED BY <2>12, <2>13 DEF GoodEnd
<1> QED BY <1>17, <1>18, <1>19

Room(str, col) == SubSeq(str, 1, Most(0, Least(Len(str), NCols - col)))

MadeRoom(u, str, row, col) ==
    LET len == Len(Room(str, col))
        n == Least(NCols - (col + len), At(u, row).n - col)
    IN IF n > 0 THEN Inserted(u, row, col, len, n) ELSE u

Put(u, str, row, col) == DrawText(u, Room(str, col), row, col)

(* What is put there fits in the row.                                       *)
LEMMA RoomFits ==
    ASSUME NEW str \in Seq(Char), NEW col \in Nat, col < NCols
    PROVE  Room(str, col) \in Seq(Char) /\ Len(Room(str, col)) \in Nat /\ col + Len(Room(str, col)) <= NCols
<1>1. PICK m : m = Most(0, Least(Len(str), NCols - col))
  OBVIOUS
<1>2. m \in 0 .. Len(str) /\ col + m <= NCols /\ NCols \in Nat
  BY <1>1, Numbers DEF Most, Least
<1>3. SubSeq(str, 1, m) \in Seq(Char) /\ Len(SubSeq(str, 1, m)) = m
  BY <1>2
<1> QED BY <1>1, <1>2, <1>3 DEF Room

(* Putting it there is plain.                                               *)
LEMMA PutPlain ==
    ASSUME NEW u, Sound(u), NEW row \in Rows, row < u.nr, NEW col \in Nat, col < NCols,
           NEW str \in Seq(Char), ~(u.on /\ u.crow = row), NEW v, v = Put(u, str, row, col)
    PROVE  Plain(u, v) /\ SameCursor(u, v)
<1>1. PICK s : s = Room(str, col)
  OBVIOUS
<1>2. s \in Seq(Char) /\ col + Len(s) <= NCols
  BY <1>1, RoomFits
<1>3. v = DrawText(u, s, row, col)
  BY <1>1 DEF Put
<1> QED BY <1>2, <1>3, TextDrawn

(* Room is made, if it is needed, by a method.                              *)
LEMMA RoomMade ==
    ASSUME NEW u, Sound(u), NEW row \in Rows, row < u.nr, NEW col \in Nat, col < NCols,
           NEW str \in Seq(Char), ~(u.on /\ u.crow = row), NEW v, v = MadeRoom(u, str, row, col)
    PROVE  /\ SameCursor(u, v)
           /\ \E lost : /\ MethodDone(u, v, lost)
                        /\ SegmentSound(u) /\ Good(u, {}) /\ ActiveAway(u, row, 1) => GoodEnd(v, lost)
<1>1. PICK len, n : len = Len(Room(str, col)) /\ n = Least(NCols - (col + len), At(u, row).n - col)
  OBVIOUS
<1>2. len \in Nat /\ col + len <= NCols /\ NCols \in Nat
  BY <1>1, RoomFits, Numbers
<1>3. n \in Int /\ n <= NCols - (col + len)
  <2>1. At(u, row).n \in Nat
    BY SoundRows, RowParts
  <2> QED BY <2>1, <1>1, <1>2 DEF Least
<1>4. CASE n > 0
  <2>1. v = Inserted(u, row, col, len, n) /\ n \in Nat /\ col + len + n <= NCols
    BY <1>1, <1>2, <1>3, <1>4 DEF MadeRoom
  <2> QED BY <2>1, <1>2, RowShiftedRight
<1>5. CASE ~(n > 0)
  <2>1. v = u
    BY <1>1, <1>5 DEF MadeRoom
  <2>2. MethodDone(u, u, {}) /\ SameCursor(u, u)
    BY DEF MethodDone, SameFrame, SameCursor
  <2> QED BY <2>1, <2>2 DEF GoodEnd
<1> QED BY <1>4, <1>5

-----------------------------------------------------------------------------
(* write_string in its modes.                                               *)
Written(u, str, row, col) == WriteString(u, str, row, col, FALSE, FALSE)
InsertedAt(u, str, row, col) == WriteString(u, str, row, col, TRUE, FALSE)
Opened(u, str, row, col, insert) == IF insert THEN MadeRoom(u, str, row, col) ELSE u

(* write_string as its steps.                                               *)
LEMMA WriteStringIs ==
    ASSUME NEW u, NEW str, NEW row, NEW col, NEW insert \in BOOLEAN, NEW atcursor \in BOOLEAN,
           NEW x, x = Opened(u, str, row, col, insert), NEW d, d = Put(x, str, row, col)
    PROVE  WriteString(u, str, row, col, insert, atcursor) =
            IF col >= NCols THEN u
            ELSE IF atcursor THEN [d EXCEPT !.ccol = col + Len(Room(str, col))] ELSE d
<1>1. PICK s, n : s = Room(str, col) /\ n = Least(NCols - (col + Len(s)), At(u, row).n - col)
  OBVIOUS
<1>2. x = IF insert /\ n > 0 THEN Inserted(u, row, col, Len(s), n) ELSE u
  BY <1>1 DEF Opened, MadeRoom
<1>3. d = DrawText(x, s, row, col)
  BY <1>1 DEF Put
<1> QED BY <1>1, <1>2, <1>3 DEF WriteString, Room, Inserted

(* write_string over what is there.                                         *)
LEMMA WrittenPlain ==
    ASSUME NEW u, Sound(u), NEW row \in Rows, row < u.nr, NEW col \in Nat, NEW str \in Seq(Char),
           ~(u.on /\ u.crow = row), NEW v, v = Written(u, str, row, col)
    PROVE  Plain(u, v) /\ SameCursor(u, v)
<1>1. PICK off : off = FALSE
  OBVIOUS
<1>2. off \in BOOLEAN /\ ~off /\ v = WriteString(u, str, row, col, off, off)
  BY <1>1 DEF Written
<1>3. PICK x, d : x = Opened(u, str, row, col, off) /\ d = Put(x, str, row, col)
  OBVIOUS
<1>4. x = u
  BY <1>2, <1>3 DEF Opened
<1>5. v = IF col >= NCols THEN u ELSE d
  <2>1. v = IF col >= NCols THEN u
            ELSE IF off THEN [d EXCEPT !.ccol = col + Len(Room(str, col))] ELSE d
    BY <1>2, <1>3, WriteStringIs
  <2> QED BY <2>1, <1>2
<1>6. CASE col >= NCols
  BY <1>5, <1>6, PlainItself
<1>7. CASE ~(col >= NCols)
  <2>1. col < NCols
    BY <1>7, Numbers
  <2> QED BY <2>1, <1>3, <1>4, <1>5, <1>7, PutPlain
<1> QED BY <1>6, <1>7

(* Room made, if asked for, and the string put there.                       *)
LEMMA OpenedPut ==
    ASSUME NEW u, Sound(u), NEW row \in Rows, row < u.nr, NEW col \in Nat, col < NCols,
           NEW str \in Seq(Char), ~(u.on /\ u.crow = row), NEW insert \in BOOLEAN,
           NEW x, x = Opened(u, str, row, col, insert), NEW d, d = Put(x, str, row, col)
    PROVE  /\ SameCursor(u, d) /\ SameFrame(u, d) /\ Sound(d)
           /\ \E lost : /\ MethodDone(u, d, lost)
                        /\ SegmentSound(u) /\ Good(u, {}) /\ (insert => ActiveAway(u, row, 1))
                            => GoodEnd(d, lost)
<1>1. /\ SameCursor(u, x)
      /\ \E lost : /\ MethodDone(u, x, lost)
                   /\ SegmentSound(u) /\ Good(u, {}) /\ (insert => ActiveAway(u, row, 1))
                        => GoodEnd(x, lost)
  <2>1. CASE insert
    <3>1. x = MadeRoom(u, str, row, col)
      BY <2>1 DEF Opened
    <3> QED BY <2>1, <3>1, RoomMade
  <2>2. CASE ~insert
    <3>1. x = u
      BY <2>2 DEF Opened
    <3>2. MethodDone(u, u, {}) /\ SameCursor(u, u)
      BY DEF MethodDone, SameFrame, SameCursor
    <3> QED BY <3>1, <3>2 DEF GoodEnd
  <2> QED BY <2>1, <2>2
<1>2. PICK lost : /\ MethodDone(u, x, lost)
                  /\ SegmentSound(u) /\ Good(u, {}) /\ (insert => ActiveAway(u, row, 1))
                        => GoodEnd(x, lost)
  BY <1>1
<1>3. Sound(x) /\ row < x.nr /\ ~(x.on /\ x.crow = row)
  BY <1>1, <1>2 DEF MethodDone, SameFrame, SameCursor
<1>4. Plain(x, d) /\ SameCursor(x, d)
  BY <1>3, PutPlain
<1>5. MethodDone(u, d, lost) /\ (GoodEnd(x, lost) => GoodEnd(d, lost))
  BY <1>2, <1>4, DonePlain
<1>6. SameCursor(u, d) /\ SameFrame(u, d) /\ Sound(d)
  BY <1>1, <1>4, <1>5 DEF SameCursor, MethodDone
<1> QED BY <1>2, <1>5, <1>6

(* Insert as a method.                                                      *)
LEMMA InsertDone ==
    ASSUME NEW u, Sound(u), NEW row \in Rows, row < u.nr, NEW col \in Nat, NEW str \in Seq(Char),
           ~(u.on /\ u.crow = row), NEW v, v = InsertedAt(u, str, row, col)
    PROVE  /\ SamePlace(u, v)
           /\ \E lost : /\ MethodDone(u, v, lost)
                        /\ SegmentSound(u) /\ Good(u, {}) /\ ActiveAway(u, row, 1) => GoodEnd(v, lost)
<1>1. PICK off, yes : off = FALSE /\ yes = TRUE
  OBVIOUS
<1>2. off \in BOOLEAN /\ ~off /\ yes \in BOOLEAN /\ v = WriteString(u, str, row, col, yes, off)
  BY <1>1 DEF InsertedAt
<1>3. PICK x, d : x = Opened(u, str, row, col, yes) /\ d = Put(x, str, row, col)
  OBVIOUS
<1>4. v = IF col >= NCols THEN u ELSE d
  <2>1. v = IF col >= NCols THEN u
            ELSE IF off THEN [d EXCEPT !.ccol = col + Len(Room(str, col))] ELSE d
    BY <1>2, <1>3, WriteStringIs
  <2> QED BY <2>1, <1>2
<1>5. CASE col >= NCols
  <2>1. v = u
    BY <1>4, <1>5
  <2>2. MethodDone(u, u, {})
    BY DEF MethodDone, SameFrame
  <2> QED BY <2>1, <2>2 DEF GoodEnd, SamePlace
<1>6. CASE ~(col >= NCols)
  <2>1. col < NCols /\ v = d
    BY <1>4, <1>6, Numbers
  <2>2. /\ SameCursor(u, d) /\ SameFrame(u, d) /\ Sound(d)
        /\ \E lost : /\ MethodDone(u, d, lost)
                     /\ SegmentSound(u) /\ Good(u, {}) /\ (yes => ActiveAway(u, row, 1))
                            => GoodEnd(d, lost)
    BY <2>1, <1>2, <1>3, OpenedPut
  <2> QED BY <2>1, <2>2 DEF SameCursor, SamePlace
<1> QED BY <1>5, <1>6

(* At the cursor, which is off and ends up behind the string.               *)
WrittenAt(u, str, insert) == WriteString(u, str, u.crow, u.ccol, insert, TRUE)

(* Writing or inserting at the cursor as a method.                          *)
LEMMA CursorWriteDone ==
    ASSUME NEW u, Sound(u), ~u.on, NEW str \in Seq(Char), NEW insert \in BOOLEAN,
           NEW v, v = WrittenAt(u, str, insert)
    PROVE  /\ ~v.on
           /\ \E lost : /\ MethodDone(u, v, lost)
                        /\ SegmentSound(u) /\ Good(u, {}) /\ (insert => ActiveAway(u, u.crow, 1))
                            => GoodEnd(v, lost)
<1>1. PICK row, col, over : row = u.crow /\ col = u.ccol /\ over = insert
  OBVIOUS
<1>2. row \in Rows /\ row < u.nr /\ row \in Nat /\ col \in 0 .. NCols /\ col \in Nat /\ u.nr \in Nat
  BY <1>1, Numbers DEF Sound, IsText
<1>3. PICK x, d : x = Opened(u, str, row, col, over) /\ d = Put(x, str, row, col)
  OBVIOUS
<1>4. v = IF col >= NCols THEN u ELSE [d EXCEPT !.ccol = col + Len(Room(str, col))]
  <2>1. PICK yes : yes = TRUE
    OBVIOUS
  <2>2. yes \in BOOLEAN /\ over \in BOOLEAN /\ v = WriteString(u, str, row, col, over, yes)
    BY <2>1, <1>1 DEF WrittenAt
  <2>3. v = IF col >= NCols THEN u
            ELSE IF yes THEN [d EXCEPT !.ccol = col + Len(Room(str, col))] ELSE d
    BY <2>2, <1>3, WriteStringIs
  <2> QED BY <2>1, <2>3
<1>5. CASE col >= NCols
  <2>1. v = u
    BY <1>4, <1>5
  <2>2. MethodDone(u, u, {})
    BY DEF MethodDone, SameFrame
  <2> QED BY <2>1, <2>2 DEF GoodEnd
<1>6. CASE ~(col >= NCols)
  <2>1. col < NCols
    BY <1>2, <1>6, Numbers
  <2>2. /\ SameCursor(u, d) /\ SameFrame(u, d) /\ Sound(d)
        /\ \E lost : /\ MethodDone(u, d, lost)
                     /\ SegmentSound(u) /\ Good(u, {}) /\ (over => ActiveAway(u, row, 1))
                            => GoodEnd(d, lost)
    <3>1. over \in BOOLEAN /\ ~(u.on /\ u.crow = row)
      BY <1>1
    <3> QED BY <3>1, <2>1, <1>2, <1>3, OpenedPut
  <2>3. PICK k : k = col + Len(Room(str, col))
    OBVIOUS
  <2>4. k \in 0 .. NCols
    BY <2>1, <2>3, <1>2, RoomFits, Numbers
  <2>5. d.crow = row /\ ~d.on /\ d.crow \in 0 .. d.nr - 1
    BY <2>2, <1>1, <1>2 DEF SameCursor, SameFrame
  <2>6. v = CursorPlaced(d, d.crow, k)
    <3>1. v = [d EXCEPT !.ccol = k]
      BY <2>3, <1>4, <1>6
    <3>2. d = [z \in TextFields |-> d[z]]
      BY <2>2 DEF Sound, IsText
    <3> QED BY <3>1, <3>2 DEF CursorPlaced, TextFields
  <2>7. Plain(d, v) /\ ~v.on
    <3>1. PICK r : r = d.crow
      OBVIOUS
    <3>2. Sound(d) /\ ~d.on /\ r \in 0 .. d.nr - 1 /\ v = CursorPlaced(d, r, k)
      BY <3>1, <2>2, <2>5, <2>6
    <3> QED BY <3>2, <2>4, PlacedPlain
  <2>8. PICK lost : /\ MethodDone(u, d, lost)
                    /\ SegmentSound(u) /\ Good(u, {}) /\ (over => ActiveAway(u, row, 1))
                            => GoodEnd(d, lost)
    BY <2>2
  <2>9. MethodDone(u, v, lost) /\ (GoodEnd(d, lost) => GoodEnd(v, lost))
    <3>1. MethodDone(u, d, lost) /\ Plain(d, v)
      BY <2>7, <2>8
    <3> QED BY <3>1, DonePlain
  <2> QED BY <2>7, <2>8, <2>9, <1>1
<1> QED BY <1>5, <1>6

-----------------------------------------------------------------------------
(* Strings written in one row after the other.                              *)
LineStep(x, u, strs, row, col, n) ==
    IF row + n > u.nr THEN x ELSE Written(x, strs[n], row + n - 1, col)

LineSteps(g, u, strs, row, col, N) ==
    [n \in 0 .. N |-> IF n = 0 THEN u ELSE LineStep(g[n - 1], u, strs, row, col, n)]

(* The lines written one by one form a function.                            *)
LEMMA LineStepsExist ==
    ASSUME NEW u, NEW strs, NEW row, NEW col, NEW N \in Nat
    PROVE  \E g : g = LineSteps(g, u, strs, row, col, N)
<1> DEFINE T == {n \in Nat : \E g : g = LineSteps(g, u, strs, row, col, n)}
<1>1. 0 \in T
  <2> DEFINE g == [n \in 0 .. 0 |-> u]
  <2>1. g = LineSteps(g, u, strs, row, col, 0)
    BY DEF LineSteps
  <2> QED BY <2>1
<1>2. ASSUME NEW n \in Nat, n \in T
      PROVE  n + 1 \in T
  <2>1. PICK g : g = LineSteps(g, u, strs, row, col, n)
    BY <1>2
  <2>2. PICK next : next = LineStep(g[n], u, strs, row, col, n + 1)
    OBVIOUS
  <2>3. PICK h : h = [i \in 0 .. n + 1 |-> IF i = n + 1 THEN next ELSE g[i]]
    OBVIOUS
  <2>4. ASSUME NEW i \in 0 .. n + 1
        PROVE  h[i] = IF i = 0 THEN u ELSE LineStep(h[i - 1], u, strs, row, col, i)
    <3>1. CASE i = n + 1
      <4>1. h[i] = next /\ i # 0 /\ h[i - 1] = g[n]
        BY <3>1, <2>3
      <4> QED BY <4>1, <2>2, <3>1
    <3>2. CASE i \in 1 .. n
      <4>1. h[i] = g[i] /\ i # 0 /\ h[i - 1] = g[i - 1] /\ i \in 0 .. n
        BY <3>2, <2>3
      <4>2. g[i] = LineStep(g[i - 1], u, strs, row, col, i)
        BY <4>1, <2>1 DEF LineSteps
      <4> QED BY <4>1, <4>2
    <3>3. CASE i = 0
      <4>1. h[0] = g[0] /\ 0 \in 0 .. n
        BY <2>3
      <4>2. g[0] = u
        BY <4>1, <2>1 DEF LineSteps
      <4> QED BY <3>3, <4>1, <4>2
    <3> QED BY <3>1, <3>2, <3>3
  <2>5. h = LineSteps(h, u, strs, row, col, n + 1)
    BY <2>3, <2>4 DEF LineSteps
  <2> QED BY <2>5
<1>3. N \in T
  <2> HIDE DEF T
  <2> QED BY <1>1, <1>2, NatSetInduction
<1> QED BY <1>3

PlainHere(u, v) == Plain(u, v) /\ SameCursor(u, v)

(* Two plain changes that leave the cursor are one.                         *)
LEMMA PlainHereTwice ==
    ASSUME NEW u, NEW v, NEW x, PlainHere(u, v), PlainHere(v, x)
    PROVE  PlainHere(u, x)
<1>1. Plain(u, x)
  BY PlainTwice DEF PlainHere
<1>2. SameCursor(u, x)
  BY DEF PlainHere, SameCursor
<1> QED BY <1>1, <1>2 DEF PlainHere

(* One more line.                                                           *)
LEMMA LineWritten ==
    ASSUME NEW u, Sound(u), NEW x, PlainHere(u, x), NEW strs \in Seq(Seq(Char)), NEW row \in Nat,
           NEW col \in Nat, NEW n \in 1 .. Len(strs),
           ~(u.on /\ row <= u.crow /\ u.crow < row + Least(Len(strs), u.nr - row)),
           NEW v, v = LineStep(x, u, strs, row, col, n)
    PROVE  PlainHere(u, v)
<1>1. u.nr \in Nat /\ u.nr <= NRows /\ NRows \in Nat /\ Len(strs) \in Nat /\ u.crow \in Int
  BY Numbers DEF Sound, IsText
<1>2. Sound(x) /\ SameFrame(u, x) /\ SameCursor(u, x)
  BY DEF PlainHere, Plain
<1>3. CASE row + n > u.nr
  BY <1>3 DEF LineStep
<1>4. CASE ~(row + n > u.nr)
  <2>1. PICK r, s : r = row + n - 1 /\ s = strs[n]
    OBVIOUS
  <2>2. r \in Rows /\ r < x.nr /\ s \in Seq(Char)
    BY <2>1, <1>1, <1>2, <1>4, Numbers DEF SameFrame
  <2>3. n <= Least(Len(strs), u.nr - row)
    BY <1>1, <1>4 DEF Least
  <2>4. ~(x.on /\ x.crow = r)
    BY <2>1, <2>3, <1>1, <1>2 DEF SameCursor, Least
  <2>5. v = Written(x, s, r, col)
    BY <2>1, <1>4 DEF LineStep
  <2>6. Plain(x, v) /\ SameCursor(x, v)
    BY <2>2, <2>4, <2>5, <1>2, WrittenPlain
  <2> QED BY <2>6, PlainHereTwice DEF PlainHere
<1> QED BY <1>3, <1>4

(* All lines.                                                               *)
LEMMA StringsWritten ==
    ASSUME NEW u, Sound(u), NEW strs \in Seq(Seq(Char)), NEW row \in Nat, NEW col \in Nat,
           ~(u.on /\ row <= u.crow /\ u.crow < row + Least(Len(strs), u.nr - row)),
           NEW v, v = WriteStrings(u, strs, row, col)
    PROVE  PlainHere(u, v)
<1> DEFINE written == CHOOSE g : g = LineSteps(g, u, strs, row, col, Len(strs))
<1>1. Len(strs) \in Nat
  OBVIOUS
<1>2. written = LineSteps(written, u, strs, row, col, Len(strs))
  BY <1>1, LineStepsExist
<1>3. v = written[Len(strs)]
  BY DEF WriteStrings, LineSteps, LineStep, Written
<1> HIDE DEF written
<1>4. PICK g, N : g = written /\ N = Len(strs)
  OBVIOUS
<1>5. \A n \in 0 .. N : g[n] = IF n = 0 THEN u ELSE LineStep(g[n - 1], u, strs, row, col, n)
  BY <1>2, <1>4 DEF LineSteps
<1> DEFINE T == {n \in Nat : n <= N => PlainHere(u, g[n])}
<1>6. 0 \in T
  <2>1. g[0] = u
    BY <1>1, <1>4, <1>5
  <2> QED BY <2>1, PlainItself DEF PlainHere
<1>7. ASSUME NEW n \in Nat, n \in T
      PROVE  n + 1 \in T
  <2> SUFFICES ASSUME n + 1 <= N
               PROVE  PlainHere(u, g[n + 1])
    OBVIOUS
  <2>1. PlainHere(u, g[n])
    BY <1>1, <1>4, <1>7
  <2>2. PICK x, y, m : x = g[n] /\ y = g[n + 1] /\ m = n + 1
    OBVIOUS
  <2>3. m \in 1 .. Len(strs) /\ y = LineStep(x, u, strs, row, col, m)
    BY <2>2, <1>1, <1>4, <1>5
  <2>4. PlainHere(u, x)
    BY <2>1, <2>2
  <2> HIDE DEF T
  <2> QED BY <2>2, <2>3, <2>4, LineWritten
<1>8. N \in T
  <2> HIDE DEF T
  <2> QED BY <1>1, <1>4, <1>6, <1>7, NatSetInduction
<1> QED BY <1>1, <1>3, <1>4, <1>8

Readied(u, row, col, nlines, clear) == IF clear THEN ClearArea(u, row, col, nlines, 0) ELSE u

(* Before them the area is cleared, if that is asked for.                   *)
LEMMA AreaReadied ==
    ASSUME NEW u, Sound(u), NEW row \in Nat, NEW col \in Nat, NEW nlines \in Nat, NEW clear \in BOOLEAN,
           NEW v, v = Readied(u, row, col, nlines, clear)
    PROVE  PlainHere(u, v)
<1>1. CASE clear
  <2>1. PICK zero : zero = 0
    OBVIOUS
  <2>2. zero \in Nat /\ v = ClearArea(u, row, col, nlines, zero)
    BY <1>1, <2>1 DEF Readied
  <2>3. Plain(u, v) /\ SamePlace(u, v)
    BY <2>2, AreaCleared
  <2> QED BY <2>3 DEF PlainHere, SamePlace, SameCursor
<1>2. CASE ~clear
  <2>1. v = u
    BY <1>2 DEF Readied
  <2> QED BY <2>1, PlainItself DEF PlainHere
<1> QED BY <1>1, <1>2

(* The method that writes lines.                                            *)
LEMMA LinesWritten ==
    ASSUME NEW u, Sound(u), NEW strs \in Seq(Seq(Char)), NEW row \in Nat, NEW col \in Nat,
           NEW clear \in BOOLEAN, NEW v, v = WriteLines(u, strs, row, col, clear)
    PROVE  Plain(u, v) /\ SamePlace(u, v)
<1>1. PICK nlines : nlines = Least(Len(strs), u.nr - row)
  OBVIOUS
<1>2. u.nr \in Nat /\ Len(strs) \in Nat /\ u.crow \in Int /\ u.on \in BOOLEAN
  BY Numbers DEF Sound, IsText
<1>3. CASE row >= u.nr
  <2>1. v = u
    BY <1>3 DEF WriteLines
  <2> QED BY <2>1, PlainItself
<1>4. CASE ~(row >= u.nr) /\ u.crow \in row .. row + nlines
  <2>1. PICK x, y, z : /\ x = Uncursored(u) /\ y = Readied(x, row, col, nlines, clear)
                       /\ z = WriteStrings(y, strs, row, col)
    OBVIOUS
  <2>2. v = CursorTo(z, u.on)
    BY <1>1, <1>4, <2>1 DEF WriteLines, CursorBack, Readied
  <2>3. Plain(u, x) /\ ~x.on /\ x.crow = u.crow /\ x.ccol = u.ccol
    BY <2>1, UncursoredPlain
  <2>4. nlines \in Nat
    BY <1>1, <1>2, <1>4 DEF Least
  <2>5. Sound(x)
    BY <2>3 DEF Plain
  <2>6. PlainHere(x, y)
    BY <2>1, <2>4, <2>5, AreaReadied
  <2>7. Sound(y) /\ ~y.on
    BY <2>3, <2>6 DEF PlainHere, Plain, SameCursor
  <2>8. PlainHere(y, z)
    BY <2>1, <2>7, StringsWritten
  <2>9. PlainHere(x, z)
    BY <2>6, <2>8, PlainHereTwice
  <2>10. Sound(z) /\ Plain(x, z) /\ SameCursor(x, z)
    BY <2>9 DEF PlainHere, Plain
  <2>11. Plain(z, v) /\ v.on = u.on /\ v.crow = z.crow /\ v.ccol = z.ccol
    BY <2>2, <2>10, <1>2, CursorPlain
  <2>12. SamePlace(u, v)
    BY <2>3, <2>10, <2>11 DEF SameCursor, SamePlace
  <2>13. Plain(u, z)
    BY <2>3, <2>10, PlainTwice
  <2> QED BY <2>11, <2>12, <2>13, PlainTwice
<1>5. CASE ~(row >= u.nr) /\ u.crow \notin row .. row + nlines
  <2>1. PICK y : y = Readied(u, row, col, nlines, clear)
    OBVIOUS
  <2>2. v = WriteStrings(y, strs, row, col)
    BY <1>1, <1>5, <2>1 DEF WriteLines, Readied
  <2>3. nlines \in Nat
    BY <1>1, <1>2, <1>5 DEF Least
  <2>4. PlainHere(u, y)
    BY <2>1, <2>3, AreaReadied
  <2>5. Sound(y) /\ y.nr = u.nr /\ y.crow = u.crow
    BY <2>4 DEF PlainHere, Plain, SameFrame, SameCursor
  <2>6. ~(y.on /\ row <= y.crow /\ y.crow < row + Least(Len(strs), y.nr - row))
    BY <2>3, <2>5, <1>1, <1>2, <1>5
  <2>7. PlainHere(y, v)
    BY <2>2, <2>5, <2>6, StringsWritten
  <2>8. PlainHere(u, v)
    BY <2>4, <2>7, PlainHereTwice
  <2> QED BY <2>8 DEF PlainHere, SameCursor, SamePlace
<1> QED BY <1>3, <1>4, <1>5
=============================================================================
