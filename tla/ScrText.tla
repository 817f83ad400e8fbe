------------------------------ MODULE ScrText ------------------------------
(***************************************************************************)
(* The text of an XpwScrollText widget, its window, and the events the X   *)
(* server sends about the window, for text of fixed width (Text.c and the  *)
(* redisplay half of XpwScrText.c).                                        *)
(*                                                                         *)
(* The widget keeps its text in row buffers reached through an array of    *)
(* pointers, each with the number of characters in use; the window keeps   *)
(* what was last drawn and nothing where another window covers it.  A move *)
(* is made twice, in the buffers and by XCopyArea in the window, and the   *)
(* widget then waits for the server to say what could not be copied.       *)
(*                                                                         *)
(* A method is one step up to that wait: its requests reach the server in  *)
(* order, and a window uncovered between two of them leaves no more behind *)
(* than one uncovered before or after, since the Expose event is queued.   *)
(***************************************************************************)
EXTENDS Integers, Sequences, FiniteSetsExt

CONSTANTS
    NRows, NCols,   \* largest size in cells; row 0 is the status line
    Buffer,         \* the row buffers
    Null,           \* a cell no character was written to
    CursorShape,    \* what the cursor looks like
    Blinking,       \* characters with ATTR_BLINK ..
    Active,         \* .. with ATTR_ACTIVE
    Covered,        \* the cells another window may cover
    Areas, Moves, Texts,    \* arguments, as in TextGrid
    MouseAt,        \* cells the mouse moves to
    Sizes,          \* heights the window is given, in rows
    Late,           \* kinds of event that may be unread when a method is called
    MaxOps, MaxCovers,      \* bounds of the model
    Tame            \* the program moves no highlighted segment, no block of
                    \* columns up or down that a row ends before, no rows down
                    \* over themselves from a status line that is set apart,
                    \* and deletes no more characters than follow the cursor;
                    \* no text below the cursor blinks while its row does

VARIABLES
    tw,         \* the widget, its window and the events to it
    waits,      \* calls of _XpwTextCopyWait to come before the method returns
    restore,    \* the method turns the cursor on again after them
    ops, covers \* how much has happened

textvars == <<tw, waits, restore, ops, covers>>

MAX_COLS == NCols + 1       \* 1024: more than there are
Rows == 0 .. NRows - 1
Cols == 0 .. NCols - 1
Cells == Rows \X Cols
Least(a, b) == IF a < b THEN a ELSE b
Most(a, b) == IF a > b THEN a ELSE b
Blank == [ch |-> Null, inv |-> FALSE]
CursorCell == [ch |-> CursorShape, inv |-> FALSE]
NoSegment == [on |-> FALSE, row |-> 0, from |-> 0, lim |-> 0]
EmptyRow == [n |-> 0, cell |-> [c \in Cols |-> Null], bs |-> MAX_COLS, bl |-> 0]

InWindow(u) == (0 .. u.nr - 1) \X Cols
Visible(u) == InWindow(u) \ (IF u.hidden THEN Covered ELSE {})
At(u, row) == u.buf[u.row[row]]
SetRow(u, row, b) == [u EXCEPT !.buf[u.row[row]] = b]

(* The characters a program writes, and those of cells it does not.        *)
Char == (UNION {{str[k] : k \in DOMAIN str} : str \in Texts}) \cup {Null}

(* A range of num rows or columns from first on can move by d.             *)
Fits(first, num, d) == Least(first, num) + d <= num /\ -d <= num

ASSUME SizesAssumption ==
    /\ NRows \in Nat \ {0} /\ NCols \in Nat \ {0}
    /\ Cardinality(Buffer) = NRows
    /\ NRows \in Sizes /\ Sizes \subseteq 1 .. NRows
    /\ Covered \subseteq Cells /\ MouseAt \subseteq Cells

ASSUME TextAssumption ==
    /\ Texts \subseteq Seq(Char)
    /\ Null \notin Blinking \cup Active

ASSUME MethodAssumption ==
    /\ Areas \subseteq Nat \X Nat \X Nat \X Nat
    /\ Moves \subseteq Nat \X Nat \X Nat \X Nat \X Int \X Int
    /\ \A m \in Moves : /\ \A n \in Sizes : Fits(m[1], n, m[5])
                         /\ Fits(m[2], NCols, m[6])

-----------------------------------------------------------------------------
(* Drawing.  What is drawn where the window is covered is lost.            *)

Drawn(image, cells, look) == [c \in DOMAIN image |-> IF c \in cells THEN look[c] ELSE image[c]]

Paint(u, cells, look) == [u EXCEPT !.win = Drawn(@, cells \intersect Visible(u), look)]

Fill(u, cells) == Paint(u, cells, [c \in cells |-> Blank])

(* A character as it is drawn now, in a string that starts at column col.  *)
Look(u, ch, row, col) ==
    [ch |-> IF ch \in Blinking /\ ~u.phase THEN Null ELSE ch,
     inv |-> /\ ch \in Active
             /\ u.act.on /\ row = u.act.row
             /\ col \in u.act.from .. u.act.lim - 1]

DrawString(u, str, row, col) ==
    Paint(u, {row} \X (col .. col + Len(str) - 1),
          [c \in {row} \X (col .. col + Len(str) - 1) |->
              Look(u, str[c[2] - col + 1], row, col)])

Attrs(ch) == <<ch \in Blinking, ch \in Active>>

(* Cells scol to lcol-1 of a row: one string for each run of characters    *)
(* with the same attributes; what was never written is not drawn.          *)
DrawRowSequences(u, row, scol, lcol, blinkonly) ==
    LET b == At(u, row)
        drawn == {c \in Cols : /\ scol <= c /\ c < Least(b.n, lcol)
                               /\ b.cell[c] # Null
                               /\ blinkonly => b.cell[c] \in Blinking}
        together(c, d) == \A k \in d .. c : /\ k \in drawn
                                            /\ Attrs(b.cell[k]) = Attrs(b.cell[c])
        start(c) == CHOOSE d \in scol .. c :
                        together(c, d) /\ (d = scol \/ ~together(c, d - 1))
    IN Paint(u, {row} \X drawn,
             [x \in {row} \X drawn |-> Look(u, b.cell[x[2]], row, start(x[2]))])

WincharAt(u, row, col) == IF col >= At(u, row).n THEN Null ELSE At(u, row).cell[col]

CursorTo(u, on) ==
    IF u.on = on THEN u
    ELSE LET there == IF u.ccol >= NCols THEN u
                      ELSE IF on
                      THEN Paint(u, {<<u.crow, u.ccol>>}, [c \in Cells |-> CursorCell])
                      ELSE DrawString(u, <<WincharAt(u, u.crow, u.ccol)>>, u.crow, u.ccol)
         IN [there EXCEPT !.on = on]

(* The cursor is turned off for what gets from u to v, and on again if it   *)
(* was on.                                                                 *)
Uncursored(u) == CursorTo(u, FALSE)
CursorBack(u, v) == CursorTo(v, u.on)

(* Bugs a maintainer could introduce, here and below: the cursor is taken  *)
(* off and forgotten.                                                      *)
DrawRowCharsUncursored(u, row, scol, lcol) ==
    DrawRowSequences(IF u.crow = row /\ u.ccol \in scol .. lcol - 1
                     THEN CursorTo(u, FALSE) ELSE u, row, scol, lcol, FALSE)

DrawRowChars(u, row, scol, lcol) ==
    IF u.crow = row /\ u.ccol \in scol .. lcol - 1
    THEN CursorBack(u, DrawRowSequences(Uncursored(u), row, scol, lcol, FALSE))
    ELSE DrawRowSequences(u, row, scol, lcol, FALSE)

ClearOnActive(u) ==
    DrawRowChars([u EXCEPT !.act.on = FALSE], u.act.row, u.act.from, u.act.lim)

(* A request to the server: the rectangle reappears elsewhere, except for  *)
(* cells that were not there to be copied, which are cleared and reported. *)
XCopyArea(u, row, nrows, col, ncols, drow, dcol) ==
    LET to == (drow .. drow + nrows - 1) \X (dcol .. dcol + ncols - 1)
        from(c) == <<c[1] - drow + row, c[2] - dcol + col>>
        lost == {c \in to \intersect Visible(u) : from(c) \notin Visible(u)}
        v == Paint(u, to, [c \in to |-> IF from(c) \in Visible(u) THEN u.win[from(c)]
                                        ELSE Blank])
    IN [v EXCEPT !.ev = Append(@, [type |-> IF lost = {} THEN "NoExpose" ELSE "GraphicsExpose",
                                   cells |-> lost])]

-----------------------------------------------------------------------------
(* The buffers.                                                            *)

ClearedChars(b, scol, ncols, setend) ==
    IF setend /\ scol + ncols >= b.n
    THEN [b EXCEPT !.n = Least(scol, @)]
    ELSE [b EXCEPT !.cell = [c \in Cols |->
            IF c \in scol .. scol + ncols - 1 THEN Null ELSE @[c]]]

ClearChars(u, row, nrows, scol, ncols) ==
    [u EXCEPT !.buf = [p \in Buffer |->
        IF \E r \in row .. row + nrows - 1 : u.row[r] = p
        THEN ClearedChars(@[p], scol, ncols, TRUE) ELSE @[p]]]

OnSegment(u, row, nrows) == u.act.on /\ u.act.row \in row .. row + nrows - 1

ClearText(u, row, nrows, col, ncols0) ==
    LET ncols == IF ncols0 = 0 THEN MAX_COLS ELSE ncols0
        v == IF OnSegment(u, row, nrows) THEN ClearOnActive(u) ELSE u
    IN Fill(ClearChars(v, row, nrows, col, ncols),
            (row .. row + nrows - 1) \X (col .. Least(col + ncols, NCols) - 1))

(* src and dst may be the same row; the characters are moved as if all     *)
(* were read first.                                                        *)
CopiedChars(src, dst, scol, dcol, ncols) ==
    LET short == Most(scol + ncols - src.n, 0)
        nc == IF short > 0 THEN Most(ncols - short, 0) ELSE ncols
        dlcol == dcol + nc
        d1 == IF dcol > dst.n THEN ClearedChars(dst, dst.n, dcol - dst.n, FALSE) ELSE dst
        toend == dlcol + short >= dst.n
        n == IF toend THEN dlcol ELSE dst.n
        trail == IF toend THEN 0 ELSE short
        blinks == src.bl # 0 \/ dst.bl # 0
    IN [n |-> n,
        cell |-> [c \in Cols |->
            IF c \in dcol .. dlcol - 1 THEN src.cell[c - dcol + scol]
            ELSE IF c \in dlcol .. dlcol + trail - 1 THEN Null
            ELSE d1.cell[c]],
        bs |-> IF blinks THEN 0 ELSE dst.bs,
        bl |-> IF blinks THEN n ELSE dst.bl]

CopyRowChars(u, srow, drow, scol, dcol, ncols) ==
    SetRow(u, drow, CopiedChars(At(u, srow), At(u, drow), scol, dcol, ncols))

(* Rows copied one by one, away from the direction of the move. *)
CopyRows(u, row, nrows, scol, dcol, ncols, dr) ==
    LET copied[n \in 0 .. nrows] ==
            IF n = 0 THEN u
            ELSE LET r == IF dr < 0 THEN row + n - 1 ELSE row + nrows - n
                 IN CopyRowChars(copied[n - 1], r, r + dr, scol, dcol, ncols)
    IN copied[nrows]

(* Whole rows move by their pointers; the rows moved over take the places  *)
(* that are left.                                                          *)
RotateRows(u, row, nrows, dr) ==
    LET savesrc == IF dr < 0 THEN dr ELSE Most(dr, nrows)
        savelim == IF dr < 0 THEN Least(dr + nrows, 0) ELSE dr + nrows
        savedst == IF dr < 0 THEN Most(dr + nrows, 0) ELSE 0
    IN [u EXCEPT !.row = [r \in Rows |->
            IF r - row - dr \in 0 .. nrows - 1 THEN @[r - dr]
            ELSE IF r - row - savedst \in 0 .. savelim - savesrc - 1
            THEN @[r - savedst + savesrc]
            ELSE @[r]]]

CopyText(u, row, nrows, col, ncols, dr, dc) ==
    LET noted(v) == IF v.blim # 0 /\ dr # 0 THEN [v EXCEPT !.bfirst = 0, !.blim = v.nr] ELSE v
        copied(v) == IF dc = 0 /\ col = 0 /\ ncols = NCols
                     THEN RotateRows(v, row, nrows, dr)
                     ELSE CopyRows(v, row, nrows, col, col + dc, ncols, dr)
    IN copied(noted(IF OnSegment(u, row + dr, nrows) THEN ClearOnActive(u) ELSE u))

(* n cells of a row are cleared, or a string is put there.                 *)
EraseText(u, row, col, n) ==
    SetRow(Fill(u, {row} \X (col .. col + n - 1)), row, ClearedChars(At(u, row), col, n, TRUE))

InscribeText(u, str, row, col) ==
    LET lcol == col + Len(str)
        b == At(u, row)
        b1 == IF col > b.n THEN ClearedChars(b, b.n, col - b.n, FALSE) ELSE b
        blinks == \E k \in DOMAIN str : str[k] \in Blinking
        b2 == [b1 EXCEPT !.n = Most(@, lcol),
                         !.cell = [c \in Cols |-> IF c \in col .. lcol - 1
                                                  THEN str[c - col + 1] ELSE @[c]],
                         !.bs = IF blinks THEN Least(@, col) ELSE @,
                         !.bl = IF blinks THEN Most(@, lcol) ELSE @]
    IN DrawString(SetRow([u EXCEPT !.bfirst = IF blinks THEN Least(@, row) ELSE @,
                                   !.blim = IF blinks THEN Most(@, row + 1) ELSE @,
                                   !.ticking = @ \/ blinks],
                         row, b2),
                  str, row, col)

DrawText(u, str, row, col) ==
    LET drawn(v) == IF \A k \in DOMAIN str : str[k] = Null
                    THEN EraseText(v, row, col, Len(str))
                    ELSE InscribeText(v, str, row, col)
    IN drawn(IF OnSegment(u, row, 1) THEN ClearOnActive(u) ELSE u)

-----------------------------------------------------------------------------
(* The methods.                                                            *)

(* Clear(w, col, row, ncols, nrows)                                        *)
ClearArea(u, row, col, nrows0, ncols) ==
    LET nrows == IF nrows0 = 0 THEN u.nr - row ELSE Least(nrows0, u.nr - row)
        nc == IF ncols = 0 THEN MAX_COLS ELSE ncols
        clear(v) == ClearText(v, row, nrows, col, ncols)
    IN IF row >= u.nr THEN u
       ELSE IF u.ccol \in col .. col + nc - 1 /\ u.crow \in row .. row + nrows - 1
       THEN CursorBack(u, clear(Uncursored(u)))
       ELSE clear(u)

(* A range that would move over the edge stops one short of it. *)
ClippedShort(first0, n0, num, d) ==
    LET f1 == Most(Least(first0, num), 0)
        f == IF f1 + d < 0 THEN -d ELSE f1
        n == IF n0 = 0 THEN num - f ELSE Least(n0, num - f)
    IN <<f, IF f + n + d >= num THEN num - (f + d) - 1 ELSE n>>

(* First and number of the rows, or columns, that move by d: the code's    *)
(* clipping of a range to what is there before and after the move.         *)
Clipped(first0, n0, num, d) ==
    LET f1 == Most(Least(first0, num), 0)
        f == IF f1 + d < 0 THEN -d ELSE f1
        n == IF n0 = 0 THEN num - f ELSE Least(n0, num - f)
    IN <<f, IF f + n + d >= num THEN num - (f + d) ELSE n>>

(* The status line last: where the rows move up, what is to be copied to it *)
(* has been overwritten.                                                   *)
CopyWindowLast(u, row, nrows, col, ncols, dr, dc) ==
    LET copied(v, r, n) == XCopyArea(v, r, n, col, ncols, r + dr, col + dc)
    IN IF u.apart /\ nrows > 1 /\ (row = 0 \/ row + dr = 0)
       THEN copied(copied(u, row + 1, nrows - 1), row, 1)
       ELSE copied(u, row, nrows)

(* The rows in the window: a status line set apart (XtNstatusStyle) is      *)
(* copied first and by itself, where it is the source or the destination.  *)
CopyWindow(u, row, nrows, col, ncols, dr, dc) ==
    LET copied(v, r, n) == XCopyArea(v, r, n, col, ncols, r + dr, col + dc)
    IN IF u.apart /\ nrows > 1 /\ (row = 0 \/ row + dr = 0)
       THEN copied(copied(u, row, 1), row + 1, nrows - 1)
       ELSE copied(u, row, nrows)

ScrollArea(u, row0, col0, nrows0, ncols0, dr, dc) ==
    LET row == Clipped(row0, nrows0, u.nr, dr)[1]
        nrows == Clipped(row0, nrows0, u.nr, dr)[2]
        col == Clipped(col0, ncols0, NCols, dc)[1]
        ncols == Clipped(col0, ncols0, NCols, dc)[2]
        copied(v) == IF ncols # 0 /\ nrows # 0
                     THEN CopyWindow(CopyText(v, row, nrows, col, ncols, dr, dc),
                                     row, nrows, col, ncols, dr, dc)
                     ELSE v
        across(v) == IF dc = 0 \/ nrows = 0 THEN v
                     ELSE IF dc > 0 THEN ClearText(v, row, nrows, col, dc)
                     ELSE ClearText(v, row, nrows, col + ncols + dc, -dc)
        down(v) == IF dr = 0 \/ ncols = 0 THEN v
                   ELSE IF dr > 0 THEN ClearText(v, row, dr, col, ncols)
                   ELSE ClearText(v, row + nrows + dr, -dr, col, ncols)
    IN CursorTo(down(across(copied(CursorTo(u, FALSE)))), u.on)

(* Two answers are waited for wherever the status line is set apart. *)
CopiesApart(u, v) == IF u.apart THEN 2 ELSE Len(v.ev) - Len(u.ev)

(* How many copies ScrollArea asked for. *)
Copies(u, v) == Len(v.ev) - Len(u.ev)

(* write_string up to its wait. *)
WriteString(u, str0, row, col, insert, atcursor) ==
    LET str == SubSeq(str0, 1, Most(0, Least(Len(str0), NCols - col)))
        len == Len(str)
        ncols == Least(NCols - (col + len), At(u, row).n - col)
        v == IF insert /\ ncols > 0
             THEN CopyText(XCopyArea(u, row, 1, col, ncols, row, col + len),
                           row, 1, col, ncols, 0, len)
             ELSE u
        after(d) == IF atcursor THEN [d EXCEPT !.ccol = col + len] ELSE d
    IN IF col >= NCols THEN u ELSE after(DrawText(v, str, row, col))

WriteStrings(u, strs, row, col) ==
    LET written[n \in 0 .. Len(strs)] ==
            IF n = 0 THEN u
            ELSE IF row + n > u.nr THEN written[n - 1]
            ELSE WriteString(written[n - 1], strs[n], row + n - 1, col, FALSE, FALSE)
    IN written[Len(strs)]

WriteLines(u, strs, row, col, clear) ==
    LET nlines == Least(Len(strs), u.nr - row)
        write(v) == WriteStrings(IF clear THEN ClearArea(v, row, col, nlines, 0) ELSE v,
                                 strs, row, col)
    IN IF row >= u.nr THEN u
       ELSE IF u.crow \in row .. row + nlines THEN CursorBack(u, write(Uncursored(u)))
       ELSE write(u)

-----------------------------------------------------------------------------
(* What the program calls.                                                 *)

(* A method can be called: the last one has returned, and of the window's  *)
(* events only those of the kinds in Late are unread.                      *)
Ready ==
    /\ waits = 0 /\ ~restore
    /\ ops < MaxOps
    /\ \A i \in DOMAIN tw.ev : tw.ev[i].type \in Late

(* The method has made its requests and v is the state then; it waits for  *)
(* the answers to its copies unless it believes the window fully visible.  *)
Requested(v, cursorlater) ==
    /\ waits' = IF v.vis THEN 0 ELSE Copies(tw, v)
    /\ tw' = IF waits' = 0 THEN CursorTo(v, v.on \/ cursorlater) ELSE v
    /\ restore' = (waits' # 0 /\ cursorlater)
    /\ ops' = ops + 1
    /\ UNCHANGED covers

Clear(a) ==
    /\ Ready
    /\ Requested(ClearArea(tw, a[1], a[2], a[3], a[4]), FALSE)

Holds(row) == Tame => ~(tw.act.on /\ tw.act.row = row)

(* Every row of a block that moves up or down reaches its first column.     *)
Reaches(m) ==
    LET rows == Clipped(m[1], m[3], tw.nr, m[5])
        col == Clipped(m[2], m[4], NCols, m[6])[1]
    IN m[5] # 0 => \A r \in rows[1] .. rows[1] + rows[2] - 1 : col <= At(tw, r).n

(* The copy of row 0 would be over a row that has yet to be copied.         *)
Smears(u, row, nrows, dr) == u.apart /\ row = 0 /\ dr \in 1 .. nrows - 1

Scroll(m) ==
    /\ Ready
    /\ \A r \in Rows : r >= m[1] => Holds(r)
    /\ Tame => Reaches(m)
    /\ LET rows == Clipped(m[1], m[3], tw.nr, m[5])
       IN Tame => ~Smears(tw, rows[1], rows[2], m[5])
    /\ Requested(ScrollArea(tw, m[1], m[2], m[3], m[4], m[5], m[6]), FALSE)

Insert(row, col, str) ==
    /\ Ready
    /\ row < tw.nr /\ Holds(row)
    /\ LET here == row = tw.crow
           v == IF here THEN CursorTo(tw, FALSE) ELSE tw
       IN Requested(WriteString(v, str, row, col, TRUE, FALSE), here /\ tw.on)

Write(row, col, strs, clear) ==
    /\ Ready
    /\ Requested(WriteLines(tw, strs, row, col, clear), FALSE)

WriteAtCursor(str, insert) ==
    /\ Ready
    /\ insert => Holds(tw.crow)
    /\ Requested(WriteString(CursorTo(tw, FALSE), str, tw.crow, tw.ccol, insert, TRUE), tw.on)

(* Fixed width: what follows the characters is scrolled over them. *)
DeleteCharsAtCursor(n) ==
    /\ Ready
    /\ Holds(tw.crow)
    /\ Tame => tw.ccol + n <= NCols
    /\ Requested(ScrollArea(tw, tw.crow, tw.ccol + n, 1, 0, 0, -n), FALSE)

MoveCursorTo(row0, col) ==
    /\ Ready
    /\ LET row == Least(tw.nr - 1, row0)
           moved == [Uncursored(tw) EXCEPT !.crow = row, !.ccol = col]
       IN /\ <<row, col>> # <<tw.crow, tw.ccol>>
          /\ Requested(CursorBack(tw, moved), FALSE)

-----------------------------------------------------------------------------
(* The redisplay of exposed cells: the cursor is taken off and put back    *)
(* row by row where it stands in them.                                     *)

ExposeRow(u, row, cols) ==
    IF cols = {} THEN u ELSE DrawRowChars(u, row, Min(cols), Max(cols) + 1)

TextExpose(u, cells) ==
    LET cols(r) == {c \in Cols : <<r, c>> \in cells}
        drawn[n \in 0 .. u.nr] ==
            IF n = 0 THEN u ELSE ExposeRow(drawn[n - 1], n - 1, cols(n - 1))
    IN drawn[u.nr]

IsExposure(e) == e.type \in {"Expose", "GraphicsExpose", "NoExpose"}

Without(s, i) == SubSeq(s, 1, i - 1) \o SubSeq(s, i + 1, Len(s))

(* One round of _XpwTextCopyWait: XWindowEvent takes the first exposure    *)
(* event out of the queue, whatever is before it.                          *)
CopyWait ==
    /\ waits > 0
    /\ \E i \in DOMAIN tw.ev :
        /\ IsExposure(tw.ev[i])
        /\ \A j \in 1 .. i - 1 : ~IsExposure(tw.ev[j])
        /\ LET e == tw.ev[i]
               v == [tw EXCEPT !.ev = Without(@, i)]
               u == IF e.type = "NoExpose" THEN v ELSE TextExpose(v, e.cells)
           IN /\ waits' = IF e.type = "Expose" THEN waits ELSE waits - 1
              /\ tw' = IF waits' = 0 THEN CursorTo(u, u.on \/ restore) ELSE u
              /\ restore' = (restore /\ waits' # 0)
    /\ UNCHANGED <<ops, covers>>

(* The event loop.  Xt passes Expose to the widget's expose procedure but  *)
(* neither GraphicsExpose nor NoExpose, which compress_exposure would have *)
(* to ask for.                                                             *)
Dispatch ==
    /\ waits = 0 /\ ~restore
    /\ tw.ev # <<>>
    /\ LET e == Head(tw.ev)
           v == [tw EXCEPT !.ev = Tail(@)]
       IN tw' = IF e.type = "Expose" THEN TextExpose(v, e.cells)
               ELSE IF e.type = "Obscured" THEN [v EXCEPT !.vis = FALSE]
               ELSE IF e.type = "Unobscured" THEN [v EXCEPT !.vis = TRUE]
               ELSE v
    /\ UNCHANGED <<waits, restore, ops, covers>>

(* DoBlink for this widget: every row that may hold blinking characters is *)
(* drawn in the other phase, and what is found there is remembered.        *)
BlinkCols(b, scol, lcol) ==
    {c \in Cols : scol <= c /\ c < Least(lcol, b.n) /\ b.cell[c] \in Blinking}

(* The last blinking column is taken for the limit. *)
BlinkExtentShort(b, scol, lcol) ==
    LET cs == BlinkCols(b, scol, lcol)
    IN IF cs = {} THEN <<MAX_COLS, 0>> ELSE <<Min(cs), Max(cs)>>

BlinkExtent(b, scol, lcol) ==
    LET cs == BlinkCols(b, scol, lcol)
    IN IF cs = {} THEN <<MAX_COLS, 0>> ELSE <<Min(cs), Max(cs) + 1>>

(* The rows DoBlink looks at.                                              *)
Noted(u) == {r \in u.bfirst .. Least(u.nr, u.blim) - 1 : At(u, r).bl # 0}

(* One of them; s.did is did_cursor and s.save save_cursor.                *)
BlinkRow(s, row) ==
    LET u == s.after
        did == row = u.crow
        blinked(v) ==
            LET b == At(v, row)
                x == BlinkExtent(b, b.bs, b.bl)
                d == DrawRowSequences(v, row, b.bs, b.bl, TRUE)
            IN SetRow(d, row, [b EXCEPT !.bs = x[1], !.bl = x[2]])
    IN [after |-> blinked(IF did THEN CursorTo(u, FALSE) ELSE u),
        did |-> did, save |-> IF did THEN u.on ELSE s.save]

BlinkRows(u) ==
    LET blinked[n \in 0 .. u.nr] ==
            IF n = 0 THEN [after |-> u, did |-> FALSE, save |-> FALSE]
            ELSE IF n - 1 \notin Noted(u) THEN blinked[n - 1]
            ELSE BlinkRow(blinked[n - 1], n - 1)
        done(s) == IF s.did THEN CursorTo(s.after, s.save) ELSE s.after
    IN done(blinked[u.nr])

(* It forgets the cursor of a row that is not the last of them.            *)
DoBlink ==
    /\ waits = 0 /\ ~restore
    /\ tw.ticking
    /\ Tame => (tw.crow \in Noted(tw) => \A r \in Noted(tw) : r <= tw.crow)
    /\ LET rows(u) == {r \in Noted(tw) : At(u, r).bl # 0}
           bounds(u, rs) == [u EXCEPT !.bfirst = IF rs = {} THEN NRows + 1 ELSE Min(rs),
                                      !.blim = IF rs = {} THEN 0 ELSE Max(rs) + 1,
                                      !.ticking = rs # {}]
           noted(u) == bounds(u, rows(u))
       IN tw' = noted(BlinkRows([tw EXCEPT !.phase = ~@]))
    /\ UNCHANGED <<waits, restore, ops, covers>>

(* The mouse moves.  The segment under it is highlighted, if the client's  *)
(* callback wants that, once the old one is not.                           *)
TestActiveChange(row, col, wanted) ==
    /\ waits = 0 /\ ~restore
    /\ LET b == At(tw, row)
           live(c) == c \in Cols /\ c < b.n /\ b.cell[c] \in Active
           inside == tw.act.on /\ tw.act.row = row /\ col \in tw.act.from .. tw.act.lim - 1
           old == IF tw.act.on /\ tw.act.row < tw.nr THEN ClearOnActive(tw)
                  ELSE [tw EXCEPT !.act.on = FALSE]
           first == CHOOSE c \in 0 .. col :
                        (\A k \in c .. col : live(k)) /\ ~live(c - 1)
           lim == CHOOSE c \in col + 1 .. NCols :
                        (\A k \in col .. c - 1 : live(k)) /\ ~live(c)
           new == [on |-> TRUE, row |-> row, from |-> first, lim |-> lim]
       IN /\ row < tw.nr
          /\ ~(live(col) /\ inside)
          /\ tw' = IF live(col) /\ wanted
                  THEN DrawRowChars([old EXCEPT !.act = new], row, first, lim)
                  ELSE old
    /\ UNCHANGED <<waits, restore, ops, covers>>

(* Another number of rows: the text starts afresh, and the server clears   *)
(* and exposes the whole window (ForgetGravity).                           *)
Resize(n) ==
    /\ Ready
    /\ n # tw.nr
    /\ LET u == [tw EXCEPT !.nr = n,
                          !.buf = [p \in Buffer |-> EmptyRow],
                          !.bfirst = NRows + 1, !.blim = 0,
                          !.ccol = 0, !.crow = 0,
                          !.win = [c \in Cells |-> Blank],
                          !.ev = Append(@, [type |-> "Expose", cells |-> (0 .. n - 1) \X Cols])]
       IN tw' = CursorTo(u, TRUE)
    /\ ops' = ops + 1
    /\ UNCHANGED <<waits, restore, covers>>

-----------------------------------------------------------------------------
(* The server: another window comes in front of this one, or goes away.    *)

Cover ==
    /\ ~tw.hidden /\ covers < MaxCovers
    /\ tw' = [tw EXCEPT !.hidden = TRUE,
                      !.win = Drawn(@, Covered, [c \in Cells |-> Blank]),
                      !.ev = Append(@, [type |-> "Obscured", cells |-> {}])]
    /\ covers' = covers + 1
    /\ UNCHANGED <<waits, restore, ops>>

Uncover ==
    /\ tw.hidden
    /\ tw' = [tw EXCEPT !.hidden = FALSE,
                      !.ev = @ \o <<[type |-> "Unobscured", cells |-> {}],
                                    [type |-> "Expose", cells |-> Covered]>>]
    /\ UNCHANGED <<waits, restore, ops, covers>>

TextInit ==
    /\ \E p \in [Rows -> Buffer], apart \in BOOLEAN :
        /\ \A r, q \in Rows : p[r] = p[q] => r = q
        /\ tw = [row |-> p, buf |-> [b \in Buffer |-> EmptyRow], nr |-> NRows, apart |-> apart,
                  crow |-> 0, ccol |-> 0, on |-> FALSE,
                  bfirst |-> NRows + 1, blim |-> 0, phase |-> TRUE, ticking |-> FALSE,
                  act |-> NoSegment,
                  win |-> [c \in Cells |-> Blank], hidden |-> FALSE, vis |-> TRUE, ev |-> <<>>]
    /\ waits = 0 /\ restore = FALSE
    /\ ops = 0 /\ covers = 0

TextNext ==
    \/ \E a \in Areas : Clear(a)
    \/ \E m \in Moves : Scroll(m)
    \/ \E row \in Rows, col \in Cols, str \in Texts :
        \/ Insert(row, col, str)
        \/ \E clear \in BOOLEAN, strs \in {<<str>>, <<str, str>>} : Write(row, col, strs, clear)
    \/ \E str \in Texts, insert \in BOOLEAN : WriteAtCursor(str, insert)
    \/ \E n \in 1 .. NCols : DeleteCharsAtCursor(n)
    \/ \E row \in Rows, col \in 0 .. NCols : MoveCursorTo(row, col)
    \/ CopyWait \/ Dispatch \/ DoBlink
    \/ \E c \in MouseAt, wanted \in BOOLEAN : TestActiveChange(c[1], c[2], wanted)
    \/ \E n \in Sizes : Resize(n)
    \/ Cover \/ Uncover

TextSpec == TextInit /\ [][TextNext]_textvars

-----------------------------------------------------------------------------
(* Properties.                                                             *)

Text(u) == [c \in Cells |->
    IF c[1] < u.nr /\ c[2] < At(u, c[1]).n THEN At(u, c[1]).cell[c[2]] ELSE Null]

TypeOK ==
    /\ tw.row \in [Rows -> Buffer]
    /\ tw.nr \in Sizes /\ tw.crow \in 0 .. tw.nr - 1 /\ tw.ccol \in 0 .. NCols
    /\ \A b \in Buffer : tw.buf[b].n \in 0 .. NCols /\ tw.buf[b].bl \in 0 .. NCols
    /\ DOMAIN tw.win = Cells
    /\ waits \in Nat /\ restore \in BOOLEAN

(* What the user sees is the text: every cell of the window that is not    *)
(* covered, and that no exposure still to be handled will draw, shows the  *)
(* character in the buffers, the phase of its blinking, its highlight, or  *)
(* the cursor.  Broken by a move whose copy in the window and in the       *)
(* buffers differ, by cells that could not be copied and are not redrawn,  *)
(* by a cursor left behind (Scroll, write_string, _XpwTextCopyWait).       *)
Expected(u, c) ==
    IF u.on /\ c = <<u.crow, u.ccol>> THEN CursorCell
    ELSE LET ch == Text(u)[c]
         IN [ch |-> IF ch \in Blinking /\ ~u.phase THEN Null ELSE ch,
             inv |-> /\ ch \in Active /\ u.act.on
                     /\ c[1] = u.act.row /\ c[2] \in u.act.from .. u.act.lim - 1]

ToBeDrawn(u) == UNION {u.ev[i].cells : i \in {j \in DOMAIN u.ev : IsExposure(u.ev[j])}}

Shown == \A c \in Visible(tw) \ ToBeDrawn(tw) : tw.win[c] = Expected(tw, c)

(* No two rows share a buffer, whatever rows have been rotated (copy_text). *)
RowsApart == \A r, q \in Rows : tw.row[r] = tw.row[q] => r = q

(* Blinking goes on: every blinking character lies in the rows and columns *)
(* that DoBlink will look at, and the timer that calls it is set.          *)
BlinkCovered ==
    \A c \in InWindow(tw) : Text(tw)[c] \in Blinking =>
        LET b == At(tw, c[1])
        IN /\ tw.ticking
           /\ tw.bfirst <= c[1] /\ c[1] < tw.blim
           /\ b.bs <= c[2] /\ c[2] < b.bl

(* _XpwTextCopyWait blocks the whole program until the server has answered *)
(* a copy: an answer it may take is always in the queue for each call that *)
(* is to come.                                                             *)
WaitAnswered ==
    waits <= Cardinality({i \in DOMAIN tw.ev : tw.ev[i].type \in {"NoExpose", "GraphicsExpose"}})

(* The rows of the text, through rotations and resizes: each has a buffer  *)
(* of its own, and the parts of it noted as blinking are enough.           *)
RowsSound == TypeOK /\ RowsApart /\ BlinkCovered

(* Redrawing never changes whether the cursor is on: only methods do. *)
CursorKept == [][ops' = ops /\ waits = 0 => tw'.on = tw.on]_textvars

Grid == INSTANCE TextGrid WITH
            size <- tw.nr, grid <- Text(tw), cursor <- <<tw.crow, tw.ccol>>

(* The buffers, however much of each is in use and wherever the pointers   *)
(* lead, behave as the grid of characters the methods are described by.    *)
ImplementsGrid == Grid!Spec
=============================================================================
