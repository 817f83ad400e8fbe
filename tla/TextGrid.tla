------------------------------ MODULE TextGrid ------------------------------
(***************************************************************************)
(* What the methods of the XpwScrollText widget promise a program: a grid  *)
(* of characters that can be cleared, moved and overwritten by rectangles, *)
(* and a cursor.  Nothing here knows of row buffers, of how much of a row  *)
(* is in use, of the window or of the events that come from it.            *)
(***************************************************************************)
EXTENDS Integers, Sequences

CONSTANTS
    NRows, NCols,   \* the largest size; row 0 is the status line
    Null,           \* an empty cell
    Areas,          \* rectangles <<row, column, rows, columns>>; 0: to the end
    Moves,          \* rectangles with distances <<.., rows down, columns right>>
    Texts           \* strings

VARIABLES
    size,           \* rows in use
    grid,
    cursor          \* <<row, column>>

vars == <<size, grid, cursor>>

Rows == 0 .. NRows - 1
Cols == 0 .. NCols - 1
Cells == (0 .. size - 1) \X Cols
Empty == [c \in Rows \X Cols |-> Null]

Extent(first, n, lim) == first .. (IF n = 0 THEN lim ELSE first + n) - 1
Rect(a) == Cells \intersect
           (Extent(a[1], a[3], size) \X Extent(a[2], a[4], NCols))
Cleared(g, cells) == [c \in DOMAIN g |-> IF c \in cells THEN Null ELSE g[c]]

(* A rectangle reappears dr rows down and dc columns right; what it leaves *)
(* behind is empty, what passes the edge of the grid is lost.              *)
Moved(g, cells, dr, dc) ==
    [c \in DOMAIN g |->
        IF c \in Cells /\ <<c[1] - dr, c[2] - dc>> \in cells
        THEN g[<<c[1] - dr, c[2] - dc>>]
        ELSE IF c \in cells THEN Null ELSE g[c]]

(* Lines of text from <<row, col>> downwards, as far as there are rows. *)
Written(g, row, col, strs) ==
    [c \in DOMAIN g |->
        LET line == c[1] - row + 1
            k == c[2] - col + 1
        IN IF c \in Cells /\ line \in DOMAIN strs /\ k \in DOMAIN strs[line]
           THEN strs[line][k] ELSE g[c]]

Init ==
    /\ size = NRows
    /\ grid = Empty
    /\ cursor = <<0, 0>>

Clear(a) ==
    /\ grid' = Cleared(grid, Rect(a))
    /\ UNCHANGED <<size, cursor>>

Scroll(a, dr, dc) ==
    /\ grid' = Moved(grid, Rect(a), dr, dc)
    /\ UNCHANGED <<size, cursor>>

Write(row, col, strs, clear) ==
    /\ grid' = Written(IF clear THEN Cleared(grid, Rect(<<row, col, Len(strs), 0>>)) ELSE grid,
                       row, col, strs)
    /\ UNCHANGED <<size, cursor>>

(* A string at a place pushes what is there to the right. *)
Insert(row, col, str) ==
    /\ grid' = Written(Moved(grid, Rect(<<row, col, 1, 0>>), 0, Len(str)), row, col, <<str>>)
    /\ UNCHANGED <<size, cursor>>

(* Text written or inserted at the cursor takes the cursor to its end. *)
WriteAtCursor(str, insert) ==
    /\ IF cursor[2] < NCols
       THEN /\ grid' = Written(IF insert
                               THEN Moved(grid, Rect(<<cursor[1], cursor[2], 1, 0>>), 0, Len(str))
                               ELSE grid,
                               cursor[1], cursor[2], <<str>>)
            /\ cursor' = <<cursor[1], LET end == cursor[2] + Len(str)
                                      IN IF end < NCols THEN end ELSE NCols>>
       ELSE UNCHANGED <<grid, cursor>>
    /\ UNCHANGED size

DeleteChars(n) ==
    /\ grid' = [c \in DOMAIN grid |->
                  IF c[1] # cursor[1] \/ c[2] < cursor[2] THEN grid[c]
                  ELSE IF c[2] + n < NCols THEN grid[<<c[1], c[2] + n>>] ELSE Null]
    /\ UNCHANGED <<size, cursor>>

MoveCursor ==
    /\ cursor' \in Rows \X (0 .. NCols)
    /\ UNCHANGED <<size, grid>>

(* A window of another size starts empty. *)
Resize ==
    /\ size' \in 1 .. NRows
    /\ grid' = Empty
    /\ cursor' = <<0, 0>>

Next ==
    \/ \E a \in Areas : Clear(a)
    \/ \E m \in Moves : Scroll(SubSeq(m, 1, 4), m[5], m[6])
    \/ \E row \in Rows, col \in Cols, str \in Texts :
        \/ Insert(row, col, str)
        \/ \E clear \in BOOLEAN, strs \in {<<str>>, <<str, str>>} : Write(row, col, strs, clear)
    \/ \E str \in Texts, insert \in BOOLEAN : WriteAtCursor(str, insert)
    \/ \E n \in 1 .. NCols : DeleteChars(n)
    \/ MoveCursor
    \/ Resize

Spec == Init /\ [][Next]_vars
=============================================================================
