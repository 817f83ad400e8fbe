--------------------------- MODULE ScrTextProofs ---------------------------
(***************************************************************************)
(* Proofs about the text of a ScrollText widget and its window, for any    *)
(* sizes, texts, areas and moves and any number of calls: rows have        *)
(* buffers of their own, and what blinks is noted; a wait for the server   *)
(* has an answer; redrawing leaves the cursor alone; and the window shows  *)
(* the text.  The last two have hypotheses, Tame and which events a        *)
(* program may leave unread (Late), that ScrText explains.  First what     *)
(* events and timers do, then the inductive invariant, TextInv, and one    *)
(* lemma for each action.                                                  *)
(***************************************************************************)
EXTENDS ScrTextLemmas

-----------------------------------------------------------------------------
(* The first and the last of some columns.                                  *)
LEMMA Extremes ==
    ASSUME NEW N \in Nat, NEW S, S \subseteq 0 .. N, S # {}
    PROVE  /\ Min(S) \in S /\ \A c \in S : Min(S) <= c
           /\ Max(S) \in S /\ \A c \in S : c <= Max(S)
<1>0. S \subseteq Nat
  OBVIOUS
<1>1. S \subseteq Nat /\ IsFiniteSet(S)
  <2>1. 0 \in Int /\ N \in Int
    OBVIOUS
  <2>2. IsFiniteSet(0 .. N)
    BY <2>1, FS_Interval
  <2>3. IsFiniteSet(S)
    BY <2>2, FS_Subset
  <2> QED BY <1>0, <2>3
<1>2. PICK m \in S : \A c \in S : m <= c
  BY <1>1, NatLeast
<1>3. PICK n \in S : \A c \in S : c <= n
  BY <1>1, NatGreatest
<1>4. Min(S) \in S /\ \A c \in S : Min(S) <= c
  BY <1>1, <1>2 DEF Min
<1>5. Max(S) \in S /\ \A c \in S : Max(S) >= c
  BY <1>1, <1>3 DEF Max
<1>6. \A c \in S : c <= Max(S)
  BY <1>1, <1>5
<1> QED BY <1>4, <1>5, <1>6

(* What exposes some cells of a row draws those that hold something.        *)
Healed(v, r, cells) ==
    \A k \in Cols :
        /\ <<r, k>> \in cells /\ VisibleAt(v, r, k)
        /\ RowText(At(v, r), k) # Null \/ CursorAt(v, r, k)
        => v.win[<<r, k>>] = Expected(v, <<r, k>>)

ExposedCols(r, cells) == {c \in Cols : <<r, c>> \in cells}

(* The exposed part of a row is drawn again ...                             *)
LEMMA RowExposed ==
    ASSUME NEW u, IsText(u), NEW row \in Rows, NEW cells, NEW cols, cols = ExposedCols(row, cells),
           NEW v, v = ExposeRow(u, row, cols)
    PROVE  /\ Redraws(u, v) /\ v.on = u.on
           /\ SegmentSound(u) => Refreshed(u, v) /\ Healed(v, row, cells)
<1>1. cols \subseteq Cols /\ \A k \in Cols : k \in cols <=> <<row, k>> \in cells
  BY DEF ExposedCols
<1>2. CASE cols = {}
  <2>1. v = u
    BY <1>2 DEF ExposeRow
  <2>2. Redraws(u, u) /\ Refreshed(u, u)
    BY CalmItself DEF Calm, Redraws, SameText, SameRest, SameFrame
  <2>3. Healed(v, row, cells)
    BY <1>1, <1>2 DEF Healed
  <2> QED BY <2>1, <2>2, <2>3
<1>3. CASE cols # {}
  <2>1. PICK scol, lcol : scol = Min(cols) /\ lcol = Max(cols) + 1
    OBVIOUS
  <2>2. v = DrawRowChars(u, row, scol, lcol)
    BY <1>3, <2>1 DEF ExposeRow
  <2>3. NCols - 1 \in Nat /\ cols \subseteq 0 .. NCols - 1
    BY <1>1, Numbers
  <2>4. /\ Min(cols) \in cols /\ \A c \in cols : Min(cols) <= c
        /\ Max(cols) \in cols /\ \A c \in cols : c <= Max(cols)
    BY <1>3, <2>3, Extremes
  <2>5. scol \in Nat /\ lcol \in Int /\ \A c \in cols : scol <= c /\ c < lcol
    BY <2>1, <2>3, <2>4
  <2>6. /\ Redraws(u, v) /\ v.on = u.on
        /\ SegmentSound(u) => Refreshed(u, v) /\ RowShown(v, row, scol, lcol)
    BY <2>2, <2>5, RowCharsDrawn
  <2>7. RowShown(v, row, scol, lcol) => Healed(v, row, cells)
    BY <2>5, <1>1 DEF RowShown, Healed
  <2> QED BY <2>6, <2>7
<1> QED BY <1>2, <1>3

(* ... and is not spoilt by the next ones.                                  *)
LEMMA StillHealed ==
    ASSUME NEW u, NEW v, Redraws(u, v), v.on = u.on, Refreshed(u, v), NEW r \in Rows, NEW cells,
           Healed(u, r, cells)
    PROVE  Healed(v, r, cells)
<1>1. /\ At(v, r) = At(u, r)
      /\ \A k : VisibleAt(v, r, k) <=> VisibleAt(u, r, k)
      /\ \A k : CursorAt(v, r, k) <=> CursorAt(u, r, k)
  BY DEF Redraws, SameText, SameRest, SameFrame, At, VisibleAt, CursorAt
<1>2. ASSUME NEW k \in Cols, <<r, k>> \in cells, VisibleAt(v, r, k),
             RowText(At(v, r), k) # Null \/ CursorAt(v, r, k)
      PROVE  v.win[<<r, k>>] = Expected(v, <<r, k>>)
  <2>1. u.win[<<r, k>>] = Expected(u, <<r, k>>)
    BY <1>1, <1>2 DEF Healed
  <2>2. CellDrawn(u, v, r, k)
    BY DEF Refreshed
  <2> QED BY <2>1, <2>2, <1>2 DEF CellDrawn
<1> QED BY <1>2 DEF Healed

ExposedSoFar(u, x, cells, n) ==
    /\ Redraws(u, x) /\ x.on = u.on
    /\ SegmentSound(u) => Refreshed(u, x) /\ \A r \in Rows : r < n => Healed(x, r, cells)

ExposeSteps(g, u, cells, N) ==
    [n \in 0 .. N |-> IF n = 0 THEN u ELSE ExposeRow(g[n - 1], n - 1, ExposedCols(n - 1, cells))]

(* The rows exposed one by one form a function.                             *)
LEMMA ExposeStepsExist ==
    ASSUME NEW u, NEW cells, NEW N \in Nat
    PROVE  \E g : g = ExposeSteps(g, u, cells, N)
<1> DEFINE T == {n \in Nat : \E g : g = ExposeSteps(g, u, cells, n)}
<1>1. 0 \in T
  <2> DEFINE g == [n \in 0 .. 0 |-> u]
  <2>1. g = ExposeSteps(g, u, cells, 0)
    BY DEF ExposeSteps
  <2> QED BY <2>1
<1>2. ASSUME NEW n \in Nat, n \in T
      PROVE  n + 1 \in T
  <2>1. PICK g : g = ExposeSteps(g, u, cells, n)
    BY <1>2
  <2>2. PICK next : next = ExposeRow(g[n], n, ExposedCols(n, cells))
    OBVIOUS
  <2>3. PICK h : h = [i \in 0 .. n + 1 |-> IF i = n + 1 THEN next ELSE g[i]]
    OBVIOUS
  <2>4. ASSUME NEW i \in 0 .. n + 1
        PROVE  h[i] = IF i = 0 THEN u ELSE ExposeRow(h[i - 1], i - 1, ExposedCols(i - 1, cells))
    <3>1. CASE i = n + 1
      <4>1. h[i] = next /\ i # 0 /\ h[i - 1] = g[n] /\ i - 1 = n
        BY <3>1, <2>3
      <4> QED BY <4>1, <2>2, <3>1
    <3>2. CASE i \in 1 .. n
      <4>1. h[i] = g[i] /\ i # 0 /\ h[i - 1] = g[i - 1] /\ i \in 0 .. n
        BY <3>2, <2>3
      <4>2. g[i] = ExposeRow(g[i - 1], i - 1, ExposedCols(i - 1, cells))
        BY <4>1, <2>1 DEF ExposeSteps
      <4> QED BY <4>1, <4>2
    <3>3. CASE i = 0
      <4>1. h[0] = g[0] /\ 0 \in 0 .. n
        BY <2>3
      <4>2. g[0] = u
        BY <4>1, <2>1 DEF ExposeSteps
      <4> QED BY <3>3, <4>1, <4>2
    <3> QED BY <3>1, <3>2, <3>3
  <2>5. h = ExposeSteps(h, u, cells, n + 1)
    BY <2>3, <2>4 DEF ExposeSteps
  <2> QED BY <2>5
<1>3. N \in T
  <2> HIDE DEF T
  <2> QED BY <1>1, <1>2, NatSetInduction
<1> QED BY <1>3

(* One more row.                                                            *)
LEMMA NextExposed ==
    ASSUME NEW u, IsText(u), NEW cells, NEW n \in Nat, n < u.nr, NEW x, ExposedSoFar(u, x, cells, n),
           NEW v, v = ExposeRow(x, n, ExposedCols(n, cells))
    PROVE  ExposedSoFar(u, v, cells, n + 1)
<1>1. Redraws(u, x) /\ x.on = u.on /\ IsText(x)
  BY DEF ExposedSoFar, Redraws
<1>2. n \in Rows
  BY Numbers DEF IsText
<1>3. /\ Redraws(x, v) /\ v.on = x.on
      /\ SegmentSound(x) => Refreshed(x, v) /\ Healed(v, n, cells)
  BY <1>1, <1>2, RowExposed
<1>4. Redraws(u, v) /\ (Refreshed(u, x) /\ Refreshed(x, v) => Refreshed(u, v))
  BY <1>1, <1>3, RedrawsTwice
<1>5. ASSUME SegmentSound(u)
      PROVE  Refreshed(u, v) /\ \A r \in Rows : r < n + 1 => Healed(v, r, cells)
  <2>1. Refreshed(u, x) /\ \A r \in Rows : r < n => Healed(x, r, cells)
    BY <1>5 DEF ExposedSoFar
  <2>2. SegmentSound(x)
    BY <1>1, <1>5, SameSegment DEF Redraws, SameText, SameRest
  <2>3. Refreshed(x, v) /\ Healed(v, n, cells)
    BY <1>3, <2>2
  <2>4. ASSUME NEW r \in Rows, r < n + 1
        PROVE  Healed(v, r, cells)
    <3>1. CASE r = n
      BY <3>1, <2>3
    <3>2. CASE r # n
      <4>1. r < n
        BY <3>2, <2>4, Numbers
      <4>2. Healed(x, r, cells)
        BY <4>1, <2>1
      <4> QED BY <4>2, <1>3, <2>3, StillHealed
    <3> QED BY <3>1, <3>2
  <2> QED BY <2>1, <2>3, <2>4, <1>4
<1> QED BY <1>1, <1>3, <1>4, <1>5 DEF ExposedSoFar

(* _XpwTextExpose, on all rows.                                             *)
LEMMA TextExposed ==
    ASSUME NEW u, IsText(u), NEW cells, NEW v, v = TextExpose(u, cells)
    PROVE  ExposedSoFar(u, v, cells, u.nr)
<1> DEFINE drawn == CHOOSE g : g = ExposeSteps(g, u, cells, u.nr)
<1>1. u.nr \in Nat
  BY Numbers DEF IsText
<1>2. drawn = ExposeSteps(drawn, u, cells, u.nr)
  BY <1>1, ExposeStepsExist
<1>3. v = drawn[u.nr]
  BY DEF TextExpose, ExposeSteps, ExposedCols
<1> HIDE DEF drawn
<1>4. PICK g, N : g = drawn /\ N = u.nr
  OBVIOUS
<1>5. \A n \in 0 .. N : g[n] = IF n = 0 THEN u ELSE ExposeRow(g[n - 1], n - 1, ExposedCols(n - 1, cells))
  BY <1>2, <1>4 DEF ExposeSteps
<1> DEFINE T == {n \in Nat : n <= N => ExposedSoFar(u, g[n], cells, n)}
<1>6. 0 \in T
  <2>1. g[0] = u
    BY <1>1, <1>4, <1>5
  <2>2. Redraws(u, u) /\ Refreshed(u, u)
    BY CalmItself DEF Calm, Redraws, SameText, SameRest, SameFrame
  <2>3. \A r \in Rows : ~(r < 0)
    BY Numbers
  <2> QED BY <2>1, <2>2, <2>3 DEF ExposedSoFar
<1>7. ASSUME NEW n \in Nat, n \in T
      PROVE  n + 1 \in T
  <2> SUFFICES ASSUME n + 1 <= N
               PROVE  ExposedSoFar(u, g[n + 1], cells, n + 1)
    OBVIOUS
  <2>1. ExposedSoFar(u, g[n], cells, n) /\ n < u.nr
    BY <1>1, <1>4, <1>7
  <2>2. PICK x, y : x = g[n] /\ y = g[n + 1]
    OBVIOUS
  <2>3. y = ExposeRow(x, n, ExposedCols(n, cells))
    <3>1. n + 1 \in 0 .. N /\ n + 1 # 0 /\ (n + 1) - 1 = n
      BY <1>1, <1>4
    <3> QED BY <3>1, <2>2, <1>5
  <2>4. ExposedSoFar(u, x, cells, n)
    BY <2>1, <2>2
  <2> HIDE DEF T
  <2> QED BY <2>1, <2>2, <2>3, <2>4, NextExposed
<1>8. N \in T
  <2> HIDE DEF T
  <2> QED BY <1>1, <1>4, <1>6, <1>7, NatSetInduction
<1> QED BY <1>1, <1>3, <1>4, <1>8

(* What was to be drawn has been.                                           *)
LEMMA ExposedGood ==
    ASSUME NEW u, IsText(u), NEW cells, NEW v, v = TextExpose(u, cells)
    PROVE  /\ Redraws(u, v) /\ v.on = u.on
           /\ SegmentSound(u) => SegmentSound(v)
           /\ SegmentSound(u) => \A D, E : Good(u, E) /\ E \subseteq D \cup cells => Good(v, D)
<1>1. ExposedSoFar(u, v, cells, u.nr)
  BY TextExposed
<1>2. /\ Redraws(u, v) /\ v.on = u.on /\ IsText(v)
      /\ SegmentSound(u) => Refreshed(u, v) /\ \A r \in Rows : r < u.nr => Healed(v, r, cells)
  BY <1>1 DEF ExposedSoFar, Redraws
<1>3. SegmentSound(u) => SegmentSound(v)
  BY <1>2, SameSegment DEF Redraws, SameText, SameRest
<1>4. SameSize(u, v)
  BY <1>2 DEF Redraws, SameRest, SameFrame, SameSize
<1>5. ASSUME SegmentSound(u), NEW D, NEW E, Good(u, E), E \subseteq D \cup cells,
             NEW r \in Rows, NEW k \in Cols
      PROVE  GoodAt(v, D, {}, r, k)
  <2>1. CellDrawn(u, v, r, k)
    BY <1>2, <1>5 DEF Refreshed
  <2>2. VisibleAt(v, r, k) <=> VisibleAt(u, r, k)
    BY <1>4, SameVisible
  <2>3. GoodAt(u, E, {}, r, k)
    BY <1>5 DEF Good, GoodBut
  <2>4. CASE ~VisibleAt(v, r, k)
    BY <2>1, <2>2, <2>3, <2>4 DEF CellDrawn, GoodAt
  <2>5. CASE VisibleAt(v, r, k) /\ v.win[<<r, k>>] = Expected(v, <<r, k>>)
    BY <2>5 DEF GoodAt
  <2>6. CASE VisibleAt(v, r, k) /\ v.win[<<r, k>>] # Expected(v, <<r, k>>)
    <3>1. <<r, k>> \in E /\ v.win[<<r, k>>] = Blank
      BY <2>1, <2>2, <2>3, <2>6 DEF CellDrawn, GoodAt
    <3>2. CASE <<r, k>> \in cells
      <4>1. Healed(v, r, cells)
        BY <2>6, <1>2, <1>4, <1>5 DEF VisibleAt, SameSize
      <4>2. RowText(At(v, r), k) = Null /\ ~CursorAt(v, r, k)
        BY <4>1, <3>2, <2>6 DEF Healed
      <4>3. Expected(v, <<r, k>>) = Look(v, RowText(At(v, r), k), r, k)
        BY <4>2, <2>6, <1>2, ExpectedInRow
      <4>4. Expected(v, <<r, k>>) = Blank
        BY <4>2, <4>3, NullLook
      <4> QED BY <4>4, <3>1, <2>6
    <3>3. CASE <<r, k>> \notin cells
      BY <3>1, <3>3, <1>5, <2>6 DEF GoodAt
    <3> QED BY <3>2, <3>3
  <2> QED BY <2>4, <2>5, <2>6
<1>6. SegmentSound(u) => \A D, E : Good(u, E) /\ E \subseteq D \cup cells => Good(v, D)
  BY <1>5 DEF Good, GoodBut
<1> QED BY <1>2, <1>3, <1>6

-----------------------------------------------------------------------------
(* The extent of what blinks in a row is narrowed to what does.             *)
Narrowed(b) == [b EXCEPT !.bs = BlinkExtent(b, b.bs, b.bl)[1], !.bl = BlinkExtent(b, b.bs, b.bl)[2]]

(* Noting less of a row's blinking, but enough.                             *)
LEMMA RowNarrowed ==
    ASSUME NEW b \in RowType, ExtentNoted(b), NEW v, v = Narrowed(b)
    PROVE  /\ v \in RowType /\ ExtentNoted(v)
           /\ \A k \in Cols : RowText(v, k) = RowText(b, k)
<1>1. PICK cs, x : cs = BlinkCols(b, b.bs, b.bl) /\ x = BlinkExtent(b, b.bs, b.bl)
  OBVIOUS
<1>2. /\ b.n \in 0 .. NCols /\ b.n \in Nat /\ b.n <= NCols
      /\ b.cell \in [Cols -> Char] /\ b.bs \in Nat
      /\ b.bl \in 0 .. NCols /\ b.bl \in Nat /\ b.bl <= NCols
      /\ b = [n |-> b.n, cell |-> b.cell, bs |-> b.bs, bl |-> b.bl]
  BY RowParts
<1>3. v = RowOf(b.n, b.cell, x[1], x[2])
  BY <1>1, <1>2 DEF Narrowed, RowOf
<1>4. NCols \in Nat /\ NCols > 0 /\ Cols = 0 .. NCols - 1
  BY Numbers
<1>5. \A k \in Cols : RowText(b, k) \in Blinking => k \in cs
  <2>1. ASSUME NEW k \in Cols, RowText(b, k) \in Blinking
        PROVE  k \in cs
    <3>1. b.bs <= k /\ k < b.bl
      BY <2>1 DEF ExtentNoted
    <3>2. k < b.n /\ b.cell[k] \in Blinking
      BY <2>1, TextAssumption DEF RowText
    <3>3. k < Least(b.bl, b.n)
      BY <3>1, <3>2 DEF Least
    <3> QED BY <3>1, <3>2, <3>3, <1>1 DEF BlinkCols
  <2> QED BY <2>1
<1>6. /\ x[1] \in Nat /\ x[2] \in 0 .. NCols
      /\ \A k \in cs : x[1] <= k /\ k < x[2]
  <2>1. CASE cs = {}
    <3>1. x = <<MAX_COLS, 0>>
      BY <2>1, <1>1 DEF BlinkExtent
    <3> QED BY <2>1, <3>1, <1>4 DEF MAX_COLS
  <2>2. CASE cs # {}
    <3>1. x = <<Min(cs), Max(cs) + 1>>
      BY <2>2, <1>1 DEF BlinkExtent
    <3>2. cs \subseteq 0 .. NCols - 1 /\ NCols - 1 \in Nat
      BY <1>1, <1>4 DEF BlinkCols
    <3>3. /\ Min(cs) \in cs /\ \A c \in cs : Min(cs) <= c
          /\ Max(cs) \in cs /\ \A c \in cs : c <= Max(cs)
      BY <2>2, <3>2, Extremes
    <3>4. x[1] = Min(cs) /\ x[2] = Max(cs) + 1
      BY <3>1
    <3>5. Min(cs) \in Nat /\ Max(cs) \in 0 .. NCols - 1
      <4>1. Min(cs) \in 0 .. NCols - 1 /\ Max(cs) \in 0 .. NCols - 1
        BY <3>2, <3>3, Zenon
      <4> QED BY <4>1, <1>4
    <3> QED BY <3>2, <3>3, <3>4, <3>5, <1>4
  <2> QED BY <2>1, <2>2
<1>7. RowFields(b.n, b.cell, x[1], x[2])
  BY <1>2, <1>6 DEF RowFields
<1>8. v \in RowType /\ v.n = b.n /\ v.cell = b.cell /\ v.bs = x[1] /\ v.bl = x[2]
  BY <1>3, <1>7, RowBuilt
<1>9. \A k \in Cols : RowText(v, k) = RowText(b, k)
  BY <1>8 DEF RowText
<1>10. ExtentNoted(v)
  BY <1>5, <1>6, <1>8, <1>9 DEF ExtentNoted
<1> QED BY <1>8, <1>9, <1>10

(* One row is drawn in the other phase.                                     *)
Hushed(u, row) == IF row = u.crow THEN CursorTo(u, FALSE) ELSE u

RowFlipped(v, row) ==
    SetRow(DrawRowSequences(v, row, At(v, row).bs, At(v, row).bl, TRUE), row, Narrowed(At(v, row)))

(* The cursor is turned off for its row.                                    *)
LEMMA CursorHushed ==
    ASSUME NEW u, IsText(u), NEW row \in Rows, NEW v, v = Hushed(u, row)
    PROVE  /\ IsText(v) /\ SameText(u, v) /\ SameRest(u, v) /\ v.crow = u.crow /\ v.ccol = u.ccol
           /\ (IF row = u.crow THEN ~v.on ELSE v.on = u.on)
           /\ \A r \in Rows, k \in Cols :
                v.win[<<r, k>>] = IF r = row /\ CursorAt(u, r, k) /\ VisibleAt(u, r, k)
                                  THEN Look(u, CharAt(u, r, k), r, k) ELSE u.win[<<r, k>>]
<1>1. CASE row = u.crow
  <2>1. v = Uncursored(u)
    BY <1>1 DEF Hushed, Uncursored
  <2>2. PICK off : off = FALSE
    OBVIOUS
  <2>3. off \in BOOLEAN /\ v = CursorTo(u, off)
    BY <2>1, <2>2 DEF Uncursored
  <2>4. /\ IsText(v) /\ SameText(u, v) /\ SameRest(u, v)
        /\ v.on = off /\ v.crow = u.crow /\ v.ccol = u.ccol /\ Refreshed(u, v)
        /\ u.on # off => CursorPainted(u, v, off)
    BY <2>3, CursorMoved
  <2>5. ~v.on
    BY <2>2, <2>4
  <2>6. CASE u.on
    <3>1. CursorPainted(u, v, off) /\ ~off
      BY <2>2, <2>4, <2>6
    <3> QED BY <3>1, <2>4, <2>5, <2>6, <1>1 DEF CursorPainted, CursorAt
  <2>7. CASE ~u.on
    <3>1. u.on = FALSE
      BY <2>7 DEF IsText
    <3>2. v = u
      BY <3>1, <2>1 DEF Uncursored, CursorTo
    <3> QED BY <3>2, <2>4, <2>5, <2>7, <1>1 DEF CursorAt
  <2> QED BY <2>6, <2>7
<1>2. CASE row # u.crow
  <2>1. v = u
    BY <1>2 DEF Hushed
  <2>2. \A r \in Rows, k \in Cols : ~(r = row /\ CursorAt(u, r, k))
    BY <1>2 DEF CursorAt
  <2> QED BY <1>2, <2>1, <2>2 DEF SameText, SameRest, SameFrame
<1> QED BY <1>1, <1>2

FlippedCell(u, a, row, k) ==
    IF VisibleAt(u, row, k)
    THEN \/ a.win[<<row, k>>] = Look(a, RowText(At(u, row), k), row, k)
         \/ /\ RowText(At(u, row), k) \notin Blinking /\ ~CursorAt(u, row, k)
            /\ a.win[<<row, k>>] = u.win[<<row, k>>]
    ELSE a.win[<<row, k>>] = u.win[<<row, k>>]

Flips(u, a, row) ==
    /\ IsText(a) /\ a.row = u.row /\ SameNotes(u, a) /\ SameRest(u, a)
    /\ a.crow = u.crow /\ a.ccol = u.ccol
    /\ (IF row = u.crow THEN ~a.on ELSE a.on = u.on)
    /\ \A r \in Rows : SameInRow(u, a, r) /\ (r # row => At(a, r) = At(u, r))
    /\ ExtentNoted(At(a, row))
    /\ SegmentSound(u) =>
        /\ \A r \in Rows, k \in Cols : r # row => a.win[<<r, k>>] = u.win[<<r, k>>]
        /\ \A k \in Cols : FlippedCell(u, a, row, k)

(* One row is turned to the other phase.                                    *)
LEMMA RowBlinked ==
    ASSUME NEW u, IsText(u), BuffersApart(u), NEW row \in Rows, ExtentNoted(At(u, row)),
           NEW v, v = Hushed(u, row), NEW a, a = RowFlipped(v, row)
    PROVE  Flips(u, a, row)
<1>1. /\ IsText(v) /\ SameText(u, v) /\ SameRest(u, v) /\ v.crow = u.crow /\ v.ccol = u.ccol
      /\ (IF row = u.crow THEN ~v.on ELSE v.on = u.on)
      /\ \A r \in Rows, k \in Cols :
            v.win[<<r, k>>] = IF r = row /\ CursorAt(u, r, k) /\ VisibleAt(u, r, k)
                              THEN Look(u, CharAt(u, r, k), r, k) ELSE u.win[<<r, k>>]
  BY CursorHushed
<1>2. BuffersApart(v) /\ \A r : At(v, r) = At(u, r)
  BY <1>1 DEF BuffersApart, SameText, At
<1>3. PICK b, bs, bl, c, yes : /\ b = At(v, row) /\ bs = b.bs /\ bl = b.bl /\ c = Narrowed(b) /\ yes = TRUE
  OBVIOUS
<1>4. b \in RowType /\ b = At(u, row) /\ ExtentNoted(b)
  BY <1>1, <1>2, <1>3, RowsExist
<1>5. bs \in Nat /\ bl \in Int
  BY <1>3, <1>4, RowParts
<1>6. PICK d : d = DrawRowSequences(v, row, bs, bl, yes)
  OBVIOUS
<1>7. a = SetRow(d, row, c)
  BY <1>3, <1>6 DEF RowFlipped
<1>8. /\ SameButWindow(v, d)
      /\ SegmentSound(v) => RowDrawn(v, d, row, bs, bl, yes)
  <2>1. yes \in BOOLEAN
    BY <1>3
  <2> QED BY <2>1, <1>1, <1>5, <1>6, SequencesDrawn
<1>9. /\ c \in RowType /\ ExtentNoted(c)
      /\ \A k \in Cols : RowText(c, k) = RowText(b, k)
  BY <1>3, <1>4, RowNarrowed
<1>10. IsText(d) /\ BuffersApart(d)
  BY <1>2, <1>8 DEF SameButWindow, SameText, BuffersApart
<1>11. /\ IsText(a) /\ a.row = d.row /\ a.win = d.win /\ SameNotes(d, a)
       /\ SameCursor(d, a) /\ SameRest(d, a)
       /\ \A r \in Rows : At(a, r) = IF r = row THEN c ELSE At(d, r)
  BY <1>7, <1>9, <1>10, RowSet
<1>12. /\ a.row = u.row /\ SameNotes(u, a) /\ SameRest(u, a) /\ a.crow = u.crow /\ a.ccol = u.ccol
       /\ a.on = v.on /\ SameRest(v, a) /\ SameFrame(v, a) /\ a.act = v.act
  BY <1>1, <1>8, <1>11 DEF SameButWindow, SameText, SameNotes, SameCursor, SameRest, SameFrame
<1>13. \A r \in Rows : At(a, r) = IF r = row THEN c ELSE At(u, r)
  BY <1>2, <1>8, <1>11 DEF SameButWindow, SameText, At
<1>14. \A r \in Rows : SameInRow(u, a, r) /\ (r # row => At(a, r) = At(u, r))
  BY <1>4, <1>9, <1>13 DEF SameInRow
<1>15. IF row = u.crow THEN ~a.on ELSE a.on = u.on
  BY <1>1, <1>12
<1>16. ASSUME SegmentSound(u)
       PROVE  /\ \A r \in Rows, k \in Cols : r # row => a.win[<<r, k>>] = u.win[<<r, k>>]
              /\ \A k \in Cols : FlippedCell(u, a, row, k)
  <2>1. SegmentSound(v)
    BY <1>1, <1>16, SameSegment DEF SameText, SameRest
  <2>2. ASSUME NEW r \in Rows, NEW k \in Cols
        PROVE  a.win[<<r, k>>] =
                IF r = row /\ bs <= k /\ k < bl /\ VisibleAt(v, r, k) /\ RowText(b, k) # Null
                   /\ RowText(b, k) \in Blinking
                THEN Look(v, RowText(b, k), row, k) ELSE v.win[<<r, k>>]
    <3>1. RowDrawn(v, d, row, bs, bl, yes)
      BY <2>1, <1>8
    <3> QED BY <3>1, <1>3, <1>11 DEF RowDrawn
  <2>3. ASSUME NEW r \in Rows, NEW k \in Cols, r # row
        PROVE  a.win[<<r, k>>] = u.win[<<r, k>>]
    BY <2>2, <2>3, <1>1
  <2>4. ASSUME NEW k \in Cols
        PROVE  FlippedCell(u, a, row, k)
    <3>1. VisibleAt(v, row, k) <=> VisibleAt(u, row, k)
      BY <1>1, SameVisible DEF SameRest, SameFrame, SameSize
    <3>2. PICK ch : ch = RowText(b, k)
      OBVIOUS
    <3>3. CASE ~VisibleAt(u, row, k)
      BY <3>1, <3>3, <2>2, <1>1 DEF FlippedCell
    <3>4. CASE VisibleAt(u, row, k) /\ ch \in Blinking
      <4>1. ch # Null /\ bs <= k /\ k < bl
        BY <3>2, <3>4, <1>3, <1>4, TextAssumption DEF ExtentNoted
      <4>2. a.win[<<row, k>>] = Look(v, ch, row, k)
        BY <4>1, <3>1, <3>2, <3>4, <2>2
      <4>3. Look(a, ch, row, k) = Look(v, ch, row, k)
        BY <1>12, SameLook
      <4> QED BY <4>2, <4>3, <3>2, <3>4, <1>4 DEF FlippedCell
    <3>5. CASE VisibleAt(u, row, k) /\ ch \notin Blinking
      <4>1. a.win[<<row, k>>] = v.win[<<row, k>>]
        BY <3>2, <3>5, <2>2
      <4>2. CASE CursorAt(u, row, k)
        <5>1. v.win[<<row, k>>] = Look(u, CharAt(u, row, k), row, k)
          BY <4>2, <3>5, <1>1
        <5>2. CharAt(u, row, k) = ch
          BY <3>2, <3>5, <1>4 DEF CharAt, VisibleAt
        <5>3. Look(a, ch, row, k) = Look(u, ch, row, k)
          <6>1. SameFrame(u, a) /\ a.act = u.act
            BY <1>12 DEF SameRest
          <6> QED BY <6>1, SameLook
        <5> QED BY <4>1, <5>1, <5>2, <5>3, <3>2, <3>5, <1>4 DEF FlippedCell
      <4>3. CASE ~CursorAt(u, row, k)
        <5>1. v.win[<<row, k>>] = u.win[<<row, k>>]
          BY <4>3, <1>1
        <5> QED BY <4>1, <4>3, <5>1, <3>2, <3>5, <1>4 DEF FlippedCell
      <4> QED BY <4>2, <4>3
    <3> QED BY <3>3, <3>4, <3>5
  <2> QED BY <2>3, <2>4
<1> QED BY <1>9, <1>11, <1>12, <1>13, <1>14, <1>15, <1>16 DEF Flips

-----------------------------------------------------------------------------
(* The rows below n, of those in N, have been drawn in the other phase than *)
(* that of z, the widget before.                                            *)
CursorTaken(z, N, n) == z.crow < n /\ z.crow \in N

SameExceptPhase(z, u) ==
    /\ IsText(u) /\ u.row = z.row /\ SameNotes(z, u)
    /\ u.nr = z.nr /\ u.hidden = z.hidden /\ u.vis = z.vis /\ u.act = z.act /\ u.ev = z.ev
    /\ u.crow = z.crow /\ u.ccol = z.ccol

RowsFlipped(z, u, n) ==
    \A r \in Rows, k \in Cols : /\ r < n => CellDrawn(z, u, r, k)
                                /\ r >= n => u.win[<<r, k>>] = z.win[<<r, k>>]

BlinkedSoFar(z, N, u, n) ==
    /\ SameExceptPhase(z, u)
    /\ IF CursorTaken(z, N, n) THEN ~u.on ELSE u.on = z.on
    /\ \A r \in Rows : SameInRow(z, u, r) /\ ExtentNoted(At(u, r))
    /\ SegmentSound(z) => RowsFlipped(z, u, n)

(* What blinks is in the rows noted.                                        *)
BlinksIn(z, N) == \A r \in Rows : Blinks(At(z, r)) => r \in N

(* What does not blink looks the same in both phases, ...                   *)
LEMMA SteadyLook ==
    ASSUME NEW z, NEW u, u.act = z.act, NEW ch, ch \notin Blinking, NEW r, NEW k
    PROVE  Look(u, ch, r, k) = Look(z, ch, r, k)
  BY DEF Look

(* ... and so does its cell.                                                *)
LEMMA SteadyExpected ==
    ASSUME NEW z, IsText(z), NEW u, SameExceptPhase(z, u), NEW r \in Rows, NEW k \in Cols,
           VisibleAt(z, r, k), SameInRow(z, u, r), CursorAt(u, r, k) <=> CursorAt(z, r, k),
           RowText(At(z, r), k) \notin Blinking
    PROVE  Expected(u, <<r, k>>) = Expected(z, <<r, k>>)
<1>1. IsText(u) /\ u.act = z.act /\ VisibleAt(u, r, k)
  BY DEF SameExceptPhase, VisibleAt
<1>2. RowText(At(u, r), k) = RowText(At(z, r), k)
  BY DEF SameInRow
<1>3. PICK ch : ch = RowText(At(z, r), k)
  OBVIOUS
<1>4. Look(u, ch, r, k) = Look(z, ch, r, k)
  BY <1>1, <1>3, SteadyLook
<1>5. Expected(u, <<r, k>>) = IF CursorAt(u, r, k) THEN CursorCell ELSE Look(u, RowText(At(u, r), k), r, k)
  BY <1>1, ExpectedInRow
<1>6. Expected(z, <<r, k>>) = IF CursorAt(z, r, k) THEN CursorCell ELSE Look(z, RowText(At(z, r), k), r, k)
  BY ExpectedInRow
<1> QED BY <1>2, <1>3, <1>4, <1>5, <1>6

(* A row that is not noted holds nothing that blinks.                       *)
LEMMA RowSkipped ==
    ASSUME NEW z, Sound(z), NEW N, BlinksIn(z, N), NEW n \in Rows, n \notin N,
           NEW u, BlinkedSoFar(z, N, u, n)
    PROVE  BlinkedSoFar(z, N, u, n + 1)
<1>1. /\ SameExceptPhase(z, u)
      /\ IF CursorTaken(z, N, n) THEN ~u.on ELSE u.on = z.on
      /\ \A r \in Rows : SameInRow(z, u, r) /\ ExtentNoted(At(u, r))
      /\ SegmentSound(z) => RowsFlipped(z, u, n)
  BY DEF BlinkedSoFar
<1>2. z.crow \in Nat /\ n \in Nat /\ IsText(z)
  BY Numbers DEF Sound, IsText
<1>3. CursorTaken(z, N, n + 1) <=> CursorTaken(z, N, n)
  BY <1>2 DEF CursorTaken
<1>4. ASSUME SegmentSound(z), NEW r \in Rows, NEW k \in Cols
      PROVE  /\ r < n + 1 => CellDrawn(z, u, r, k)
             /\ r >= n + 1 => u.win[<<r, k>>] = z.win[<<r, k>>]
  <2>1. /\ r < n => CellDrawn(z, u, r, k)
        /\ r >= n => u.win[<<r, k>>] = z.win[<<r, k>>]
    BY <1>1, <1>4 DEF RowsFlipped
  <2>2. r \in Nat
    BY Numbers
  <2>3. CASE r = n
    <3>1. u.win[<<r, k>>] = z.win[<<r, k>>]
      BY <2>1, <2>2, <2>3
    <3>2. VisibleAt(u, r, k) <=> VisibleAt(z, r, k)
      BY <1>1 DEF SameExceptPhase, VisibleAt
    <3>3. RowText(At(z, r), k) \notin Blinking
      BY <2>3 DEF BlinksIn, Blinks
    <3>4. CursorAt(u, r, k) <=> CursorAt(z, r, k)
      <4>1. CASE r = z.crow
        <5>1. ~CursorTaken(z, N, n)
          BY <4>1, <2>3 DEF CursorTaken
        <5>2. u.on = z.on
          BY <5>1, <1>1
        <5> QED BY <5>2, <1>1 DEF CursorAt, SameExceptPhase
      <4>2. CASE r # z.crow
        BY <4>2, <1>1 DEF CursorAt, SameExceptPhase
      <4> QED BY <4>1, <4>2
    <3>5. VisibleAt(z, r, k) => Expected(u, <<r, k>>) = Expected(z, <<r, k>>)
      BY <3>3, <3>4, <1>1, <1>2, SteadyExpected
    <3>6. CellDrawn(z, u, r, k)
      BY <3>1, <3>2, <3>5 DEF CellDrawn
    <3> QED BY <3>6, <2>2, <2>3
  <2>4. CASE r # n
    BY <2>1, <2>2, <2>4, <1>2
  <2> QED BY <2>3, <2>4
<1>5. SegmentSound(z) => RowsFlipped(z, u, n + 1)
  BY <1>4 DEF RowsFlipped
<1> QED BY <1>1, <1>3, <1>5 DEF BlinkedSoFar

(* One that is has been turned.                                             *)
LEMMA RowTurned ==
    ASSUME NEW z, Sound(z), NEW N, NEW n \in Rows, n \in N,
           NEW u, BlinkedSoFar(z, N, u, n), NEW a, Flips(u, a, n)
    PROVE  BlinkedSoFar(z, N, a, n + 1)
<1>1. /\ SameExceptPhase(z, u)
      /\ IF CursorTaken(z, N, n) THEN ~u.on ELSE u.on = z.on
      /\ \A r \in Rows : SameInRow(z, u, r) /\ ExtentNoted(At(u, r))
      /\ SegmentSound(z) => RowsFlipped(z, u, n)
  BY DEF BlinkedSoFar
<1>2. /\ IsText(a) /\ a.row = u.row /\ SameNotes(u, a) /\ SameRest(u, a)
      /\ a.crow = u.crow /\ a.ccol = u.ccol
      /\ (IF n = u.crow THEN ~a.on ELSE a.on = u.on)
      /\ \A r \in Rows : SameInRow(u, a, r) /\ (r # n => At(a, r) = At(u, r))
      /\ ExtentNoted(At(a, n))
      /\ SegmentSound(u) =>
            /\ \A r \in Rows, k \in Cols : r # n => a.win[<<r, k>>] = u.win[<<r, k>>]
            /\ \A k \in Cols : FlippedCell(u, a, n, k)
  BY DEF Flips
<1>3. z.crow \in Nat /\ n \in Nat /\ IsText(z) /\ IsText(u) /\ u.crow = z.crow
  BY <1>1, Numbers DEF Sound, IsText, SameExceptPhase
<1>4. SameExceptPhase(z, a)
  BY <1>1, <1>2 DEF SameExceptPhase, SameNotes, SameRest, SameFrame
<1>5. IF CursorTaken(z, N, n + 1) THEN ~a.on ELSE a.on = z.on
  <2>1. CASE n = z.crow
    <3>1. CursorTaken(z, N, n + 1) /\ ~a.on
      BY <2>1, <1>2, <1>3 DEF CursorTaken
    <3> QED BY <3>1
  <2>2. CASE n # z.crow
    <3>1. CursorTaken(z, N, n + 1) <=> CursorTaken(z, N, n)
      BY <2>2, <1>3 DEF CursorTaken
    <3>2. a.on = u.on
      BY <2>2, <1>2, <1>3
    <3> QED BY <3>1, <3>2, <1>1
  <2> QED BY <2>1, <2>2
<1>6. \A r \in Rows : SameInRow(z, a, r) /\ ExtentNoted(At(a, r))
  <2>1. ASSUME NEW r \in Rows
        PROVE  SameInRow(z, a, r) /\ ExtentNoted(At(a, r))
    <3>1. SameInRow(z, a, r)
      BY <1>1, <1>2 DEF SameInRow
    <3>2. ExtentNoted(At(a, r))
      BY <1>1, <1>2
    <3> QED BY <3>1, <3>2
  <2> QED BY <2>1
<1>7. ASSUME SegmentSound(z), NEW r \in Rows, NEW k \in Cols
      PROVE  /\ r < n + 1 => CellDrawn(z, a, r, k)
             /\ r >= n + 1 => a.win[<<r, k>>] = z.win[<<r, k>>]
  <2>1. /\ r < n => CellDrawn(z, u, r, k)
        /\ r >= n => u.win[<<r, k>>] = z.win[<<r, k>>]
    BY <1>1, <1>7 DEF RowsFlipped
  <2>2. r \in Nat
    BY Numbers
  <2>3. SegmentSound(u)
    <3>1. CASE ~u.act.on
      BY <3>1, SegmentOff
    <3>2. CASE u.act.on
      <4>1. u.act = z.act /\ z.act.row \in Rows
        BY <1>1, <1>3 DEF SameExceptPhase, IsText, SegmentType
      <4>2. \A j \in Cols : RowText(At(u, z.act.row), j) = RowText(At(z, z.act.row), j)
        BY <4>1, <1>1 DEF SameInRow
      <4> QED BY <4>1, <4>2, <1>3, <1>7, SegmentText
    <3> QED BY <3>1, <3>2
  <2>4. /\ r # n => a.win[<<r, k>>] = u.win[<<r, k>>]
        /\ FlippedCell(u, a, n, k)
    BY <2>3, <1>2
  <2>5. VisibleAt(a, r, k) <=> VisibleAt(z, r, k)
    BY <1>4 DEF SameExceptPhase, VisibleAt
  <2>6. CASE r = n
    <3>1. u.win[<<r, k>>] = z.win[<<r, k>>]
      BY <2>1, <2>2, <2>6
    <3>2. VisibleAt(u, r, k) <=> VisibleAt(z, r, k)
      BY <1>1 DEF SameExceptPhase, VisibleAt
    <3>3. PICK ch : ch = RowText(At(z, r), k)
      OBVIOUS
    <3>4. RowText(At(u, r), k) = ch /\ RowText(At(a, r), k) = ch
      BY <3>3, <1>1, <1>6 DEF SameInRow
    <3>5. ~CursorAt(a, r, k)
      <4>1. a.crow = z.crow /\ a.ccol = z.ccol
        BY <1>4 DEF SameExceptPhase
      <4>2. n = u.crow => ~a.on
        BY <1>2
      <4> QED BY <4>1, <4>2, <1>3, <2>6 DEF CursorAt
    <3>9. CellDrawn(z, a, r, k)
      <4>6. CASE ~VisibleAt(z, r, k)
        BY <3>1, <3>2, <4>6, <2>4, <2>5, <2>6 DEF FlippedCell, CellDrawn
      <4>7. CASE VisibleAt(z, r, k) /\ a.win[<<r, k>>] = Look(a, ch, r, k)
        <5>1. Expected(a, <<r, k>>) = Look(a, ch, r, k)
          BY <3>4, <3>5, <4>7, <2>5, <1>2, ExpectedInRow
        <5>2. VisibleAt(a, r, k) /\ a.win[<<r, k>>] = Expected(a, <<r, k>>)
          BY <5>1, <4>7, <2>5
        <5> QED BY <5>2 DEF CellDrawn
      <4>8. CASE /\ VisibleAt(z, r, k) /\ ch \notin Blinking /\ ~CursorAt(u, r, k)
                 /\ a.win[<<r, k>>] = u.win[<<r, k>>]
        <5>1. ~CursorAt(z, r, k)
          <6>1. CASE r = z.crow
            <7>1. ~CursorTaken(z, N, n)
              BY <6>1, <2>2, <2>6 DEF CursorTaken
            <7>2. u.on = z.on
              BY <7>1, <1>1
            <7> QED BY <7>2, <4>8, <1>1 DEF CursorAt, SameExceptPhase
          <6>2. CASE r # z.crow
            BY <6>2 DEF CursorAt
          <6> QED BY <6>1, <6>2
        <5>2. CursorAt(a, r, k) <=> CursorAt(z, r, k)
          BY <5>1, <3>5
        <5>3. Expected(a, <<r, k>>) = Expected(z, <<r, k>>)
          <6>1. SameInRow(z, a, r) /\ RowText(At(z, r), k) \notin Blinking
            BY <1>6, <3>3, <4>8
          <6> QED BY <6>1, <5>2, <4>8, <1>3, <1>4, SteadyExpected
        <5> QED BY <5>3, <3>1, <4>8, <2>5 DEF CellDrawn
      <4>1. FlippedCell(u, a, r, k)
        BY <2>4, <2>6
      <4>2. VisibleAt(z, r, k) =>
                \/ a.win[<<r, k>>] = Look(a, ch, r, k)
                \/ ch \notin Blinking /\ ~CursorAt(u, r, k) /\ a.win[<<r, k>>] = u.win[<<r, k>>]
        BY <4>1, <3>2, <3>4 DEF FlippedCell
      <4> QED BY <4>2, <4>6, <4>7, <4>8
    <3> QED BY <3>9, <2>2, <2>6
  <2>7. CASE r # n
    <3>1. a.win[<<r, k>>] = u.win[<<r, k>>]
      BY <2>4, <2>7
    <3>2. r >= n + 1 => a.win[<<r, k>>] = z.win[<<r, k>>]
      BY <3>1, <2>1, <2>2, <1>3
    <3>3. ASSUME r < n
          PROVE  CellDrawn(z, a, r, k)
      <4>1. CellDrawn(z, u, r, k)
        BY <2>1, <3>3
      <4>2. VisibleAt(u, r, k) <=> VisibleAt(a, r, k)
        BY <1>2 DEF SameRest, SameFrame, VisibleAt
      <4>3. Expected(a, <<r, k>>) = Expected(u, <<r, k>>)
        <5>1. CharAt(a, r, k) = CharAt(u, r, k)
          BY <2>7, <1>2 DEF CharAt, SameRest, SameFrame
        <5>2. CursorAt(a, r, k) <=> CursorAt(u, r, k)
          BY <2>7, <1>2 DEF CursorAt
        <5>3. SameFrame(u, a) /\ a.act = u.act
          BY <1>2 DEF SameRest
        <5>4. Look(a, CharAt(u, r, k), r, k) = Look(u, CharAt(u, r, k), r, k)
          BY <5>3, SameLook
        <5>5. Expected(a, <<r, k>>) = IF CursorAt(a, r, k) THEN CursorCell ELSE Look(a, CharAt(a, r, k), r, k)
          BY <1>2, ExpectedIs
        <5>6. Expected(u, <<r, k>>) = IF CursorAt(u, r, k) THEN CursorCell ELSE Look(u, CharAt(u, r, k), r, k)
          BY <1>3, ExpectedIs
        <5> QED BY <5>1, <5>2, <5>4, <5>5, <5>6
      <4> QED BY <4>1, <4>2, <4>3, <3>1 DEF CellDrawn
    <3> QED BY <3>2, <3>3, <2>2, <2>7, <1>3
  <2> QED BY <2>6, <2>7
<1>8. SegmentSound(z) => RowsFlipped(z, a, n + 1)
  BY <1>7 DEF RowsFlipped
<1> QED BY <1>4, <1>5, <1>6, <1>8 DEF BlinkedSoFar

-----------------------------------------------------------------------------
(* The rows looked at are those that may hold blinking characters.          *)
LEMMA NotedRows ==
    ASSUME NEW z, Sound(z), NEW N, N = Noted(z)
    PROVE  /\ BlinksIn(z, N)
           /\ \A r \in N : r \in Rows /\ r < z.nr
<1>1. z.nr \in Nat /\ z.nr <= NRows /\ NRows \in Nat /\ z.bfirst \in Nat /\ z.blim \in Nat
  BY Numbers DEF Sound, IsText
<1>2. \A r : r \in N <=> r \in z.bfirst .. Least(z.nr, z.blim) - 1 /\ At(z, r).bl # 0
  BY DEF Noted
<1>3. ASSUME NEW r \in N
      PROVE  r \in Rows /\ r < z.nr
  BY <1>1, <1>2, Numbers DEF Least
<1>4. ASSUME NEW r \in Rows, Blinks(At(z, r))
      PROVE  r \in N
  <2>1. RowNoted(z, r) /\ ExtentNoted(At(z, r)) /\ At(z, r) \in RowType
    BY <1>4, SoundRows
  <2>2. r \in z.bfirst .. Least(z.nr, z.blim) - 1
    BY <2>1, <1>1, Numbers DEF RowNoted, Least
  <2>3. PICK k \in Cols : RowText(At(z, r), k) \in Blinking
    BY <1>4 DEF Blinks
  <2>4. k \in Nat /\ k < At(z, r).bl
    BY <2>1, <2>3, Numbers DEF ExtentNoted
  <2>5. At(z, r).bl # 0
    BY <2>1, <2>4, RowParts
  <2> QED BY <2>2, <2>5, <1>2
<1> QED BY <1>3, <1>4 DEF BlinksIn

(* The last of the rows looked at is the cursor's, if the cursor's is one.  *)
CursorLast(z, N) == z.crow \in N => \A r \in N : r <= z.crow

SaveKept(z, N, s, n) == IF CursorTaken(z, N, n) THEN s.did /\ s.save = z.on ELSE ~s.did

BlinkState(z, N, s, n) ==
    /\ BlinkedSoFar(z, N, s.after, n)
    /\ s.save \in BOOLEAN
    /\ CursorLast(z, N) => SaveKept(z, N, s, n)

BlinkStep(s, N, n) == IF n \notin N THEN s ELSE BlinkRow(s, n)

(* A round of DoBlink as its steps.                                         *)
LEMMA BlinkRowIs ==
    ASSUME NEW s, NEW n, NEW u, u = s.after, NEW v, v = Hushed(u, n), NEW t, t = BlinkRow(s, n)
    PROVE  /\ t.after = RowFlipped(v, n)
           /\ t.did = (n = u.crow)
           /\ t.save = IF n = u.crow THEN u.on ELSE s.save
<1>1. PICK a, did, save : /\ a = RowFlipped(v, n) /\ did = (n = u.crow)
                          /\ save = IF n = u.crow THEN u.on ELSE s.save
  OBVIOUS
<1>2. t = [after |-> a, did |-> did, save |-> save]
  BY <1>1 DEF BlinkRow, RowFlipped, Hushed, Narrowed
<1> QED BY <1>1, <1>2

(* One more row, and what is known of the cursor after it.                  *)
LEMMA NextBlinked ==
    ASSUME NEW z, Sound(z), NEW N, BlinksIn(z, N), NEW n \in Rows, NEW s, BlinkState(z, N, s, n),
           NEW t, t = BlinkStep(s, N, n)
    PROVE  BlinkState(z, N, t, n + 1)
<1>1. /\ BlinkedSoFar(z, N, s.after, n) /\ s.save \in BOOLEAN
      /\ CursorLast(z, N) => SaveKept(z, N, s, n)
  BY DEF BlinkState
<1>2. z.crow \in Nat /\ n \in Nat
  BY Numbers DEF Sound, IsText
<1>3. PICK u : u = s.after
  OBVIOUS
<1>4. BlinkedSoFar(z, N, u, n)
  BY <1>1, <1>3
<1>5. CASE n \notin N
  <2>1. t = s
    BY <1>5 DEF BlinkStep
  <2>2. BlinkedSoFar(z, N, u, n + 1)
    BY <1>4, <1>5, RowSkipped
  <2>3. CursorTaken(z, N, n + 1) <=> CursorTaken(z, N, n)
    BY <1>2, <1>5 DEF CursorTaken
  <2> QED BY <1>1, <1>3, <2>1, <2>2, <2>3 DEF BlinkState, SaveKept
<1>6. CASE n \in N
  <2>1. PICK v, a : v = Hushed(u, n) /\ a = RowFlipped(v, n)
    OBVIOUS
  <2>2. t = BlinkRow(s, n)
    BY <1>6 DEF BlinkStep
  <2>3. t.after = a /\ t.did = (n = u.crow) /\ t.save = IF n = u.crow THEN u.on ELSE s.save
    BY <1>3, <2>1, <2>2, BlinkRowIs
  <2>4. /\ SameExceptPhase(z, u)
        /\ IF CursorTaken(z, N, n) THEN ~u.on ELSE u.on = z.on
        /\ \A r \in Rows : ExtentNoted(At(u, r))
    BY <1>4 DEF BlinkedSoFar
  <2>5. IsText(u) /\ BuffersApart(u) /\ u.crow = z.crow /\ u.on \in BOOLEAN
    BY <2>4 DEF SameExceptPhase, Sound, RowsIn, BuffersApart, IsText
  <2>6. Flips(u, a, n)
    BY <2>1, <2>4, <2>5, RowBlinked
  <2>7. BlinkedSoFar(z, N, a, n + 1)
    BY <2>6, <1>4, <1>6, RowTurned
  <2>8. t.save \in BOOLEAN
    BY <2>3, <2>5, <1>1
  <2>9. ASSUME CursorLast(z, N)
        PROVE  SaveKept(z, N, t, n + 1)
    <3>1. CASE CursorTaken(z, N, n + 1)
      <4>1. n = z.crow
        BY <3>1, <2>9, <1>2, <1>6 DEF CursorTaken, CursorLast
      <4>2. ~CursorTaken(z, N, n)
        BY <4>1, <1>2 DEF CursorTaken
      <4> QED BY <3>1, <4>1, <4>2, <2>3, <2>4, <2>5 DEF SaveKept
    <3>2. CASE ~CursorTaken(z, N, n + 1)
      <4>1. n # z.crow
        BY <3>2, <1>2, <1>6 DEF CursorTaken
      <4> QED BY <3>2, <4>1, <2>3, <2>5 DEF SaveKept
    <3> QED BY <3>1, <3>2
  <2> QED BY <2>3, <2>7, <2>8, <2>9 DEF BlinkState
<1> QED BY <1>5, <1>6

-----------------------------------------------------------------------------
BlinkStart(u) == [after |-> u, did |-> FALSE, save |-> FALSE]

BlinkSteps(g, u, N, M) ==
    [n \in 0 .. M |-> IF n = 0 THEN BlinkStart(u) ELSE BlinkStep(g[n - 1], N, n - 1)]

(* The rounds form a function.                                              *)
LEMMA BlinkStepsExist ==
    ASSUME NEW u, NEW N, NEW M \in Nat
    PROVE  \E g : g = BlinkSteps(g, u, N, M)
<1> DEFINE T == {n \in Nat : \E g : g = BlinkSteps(g, u, N, n)}
<1>1. 0 \in T
  <2> DEFINE g == [n \in 0 .. 0 |-> BlinkStart(u)]
  <2>1. g = BlinkSteps(g, u, N, 0)
    BY DEF BlinkSteps
  <2> QED BY <2>1
<1>2. ASSUME NEW n \in Nat, n \in T
      PROVE  n + 1 \in T
  <2>1. PICK g : g = BlinkSteps(g, u, N, n)
    BY <1>2
  <2>2. PICK next : next = BlinkStep(g[n], N, n)
    OBVIOUS
  <2>3. PICK h : h = [i \in 0 .. n + 1 |-> IF i = n + 1 THEN next ELSE g[i]]
    OBVIOUS
  <2>4. ASSUME NEW i \in 0 .. n + 1
        PROVE  h[i] = IF i = 0 THEN BlinkStart(u) ELSE BlinkStep(h[i - 1], N, i - 1)
    <3>1. CASE i = n + 1
      <4>1. h[i] = next /\ i # 0 /\ h[i - 1] = g[n] /\ i - 1 = n
        BY <3>1, <2>3
      <4> QED BY <4>1, <2>2, <3>1
    <3>2. CASE i \in 1 .. n
      <4>1. h[i] = g[i] /\ i # 0 /\ h[i - 1] = g[i - 1] /\ i \in 0 .. n
        BY <3>2, <2>3
      <4>2. g[i] = BlinkStep(g[i - 1], N, i - 1)
        BY <4>1, <2>1 DEF BlinkSteps
      <4> QED BY <4>1, <4>2
    <3>3. CASE i = 0
      <4>1. h[i] = g[0] /\ g[0] = BlinkStart(u)
        BY <3>3, <2>1, <2>3 DEF BlinkSteps
      <4> QED BY <4>1, <3>3
    <3> QED BY <3>1, <3>2, <3>3
  <2>5. h = BlinkSteps(h, u, N, n + 1)
    BY <2>3, <2>4 DEF BlinkSteps
  <2> QED BY <2>5
<1>3. M \in T
  <2> HIDE DEF T
  <2> QED BY <1>1, <1>2, NatSetInduction
<1> QED BY <1>3

(* The other phase.                                                         *)
Turned(z) == [z EXCEPT !.phase = ~@]

(* At first only the phase has changed.                                     *)
LEMMA TurnStarts ==
    ASSUME NEW z, Sound(z), NEW N, NEW p, p = Turned(z)
    PROVE  BlinkState(z, N, BlinkStart(p), 0) /\ Noted(p) = Noted(z) /\ p.nr = z.nr
<1>1. PICK x : x = ~z.phase
  OBVIOUS
<1>2. x \in BOOLEAN /\ p = [z EXCEPT !.phase = x] /\ IsText(z)
  BY <1>1 DEF Sound, IsText, Turned
<1>3. /\ IsText(p) /\ p.win = z.win /\ p.act = z.act /\ p.ev = z.ev
      /\ p.nr = z.nr /\ p.hidden = z.hidden /\ p.vis = z.vis
      /\ SameText(z, p) /\ SameCursor(z, p)
  BY <1>2, PhaseAssigned
<1>4. SameExceptPhase(z, p) /\ p.on = z.on
  BY <1>3 DEF SameExceptPhase, SameText, SameCursor, SameNotes
<1>5. \A r : At(p, r) = At(z, r)
  BY <1>3 DEF SameText, At
<1>6. z.crow \in Nat /\ \A r \in Rows : ~(r < 0)
  BY <1>2, Numbers DEF IsText
<1>7. ~CursorTaken(z, N, 0)
  BY <1>6 DEF CursorTaken
<1>8. \A r \in Rows : SameInRow(z, p, r) /\ ExtentNoted(At(p, r))
  BY <1>5, SoundRows DEF SameInRow
<1>9. RowsFlipped(z, p, 0)
  BY <1>3, <1>6 DEF RowsFlipped
<1>10. BlinkedSoFar(z, N, p, 0)
  BY <1>4, <1>7, <1>8, <1>9 DEF BlinkedSoFar
<1>11. Noted(p) = Noted(z) /\ p.nr = z.nr
  BY <1>3, <1>5 DEF Noted, SameText
<1> QED BY <1>7, <1>10, <1>11 DEF BlinkState, BlinkStart, SaveKept

(* All rounds.                                                              *)
LEMMA RowsBlinked ==
    ASSUME NEW z, Sound(z), NEW N, N = Noted(z), NEW p, p = Turned(z), NEW v, v = BlinkRows(p)
    PROVE  \E s : /\ BlinkState(z, N, s, z.nr)
                  /\ v = IF s.did THEN CursorTo(s.after, s.save) ELSE s.after
<1> DEFINE blinked == CHOOSE g : g = BlinkSteps(g, p, N, z.nr)
<1>1. z.nr \in Nat /\ z.nr <= NRows /\ NRows \in Nat
  BY Numbers DEF Sound, IsText
<1>2. blinked = BlinkSteps(blinked, p, N, z.nr)
  BY <1>1, BlinkStepsExist
<1>3. BlinkState(z, N, BlinkStart(p), 0) /\ N = Noted(p) /\ p.nr = z.nr
  BY TurnStarts
<1>4. v = IF blinked[z.nr].did THEN CursorTo(blinked[z.nr].after, blinked[z.nr].save)
          ELSE blinked[z.nr].after
  BY <1>3 DEF BlinkRows, BlinkSteps, BlinkStep, BlinkStart
<1> HIDE DEF blinked
<1>5. PICK g, M : g = blinked /\ M = z.nr
  OBVIOUS
<1>6. \A n \in 0 .. M : g[n] = IF n = 0 THEN BlinkStart(p) ELSE BlinkStep(g[n - 1], N, n - 1)
  BY <1>2, <1>5 DEF BlinkSteps
<1>7. BlinksIn(z, N)
  BY NotedRows
<1> DEFINE T == {n \in Nat : n <= M => BlinkState(z, N, g[n], n)}
<1>8. 0 \in T
  <2>1. g[0] = BlinkStart(p)
    BY <1>1, <1>5, <1>6
  <2> QED BY <2>1, <1>3
<1>9. ASSUME NEW n \in Nat, n \in T
      PROVE  n + 1 \in T
  <2> SUFFICES ASSUME n + 1 <= M
               PROVE  BlinkState(z, N, g[n + 1], n + 1)
    OBVIOUS
  <2>1. BlinkState(z, N, g[n], n) /\ n \in Rows
    BY <1>1, <1>5, <1>9, Numbers
  <2>2. PICK s, t : s = g[n] /\ t = g[n + 1]
    OBVIOUS
  <2>3. t = BlinkStep(s, N, n)
    <3>1. n + 1 \in 0 .. M /\ n + 1 # 0 /\ (n + 1) - 1 = n
      BY <1>1, <1>5
    <3> QED BY <3>1, <2>2, <1>6
  <2>4. BlinkState(z, N, s, n)
    BY <2>1, <2>2
  <2> HIDE DEF T
  <2> QED BY <2>1, <2>2, <2>3, <2>4, <1>7, NextBlinked
<1>10. M \in T
  <2> HIDE DEF T
  <2> QED BY <1>1, <1>5, <1>8, <1>9, NatSetInduction
<1>11. BlinkState(z, N, blinked[z.nr], z.nr)
  BY <1>1, <1>5, <1>10
<1> QED BY <1>4, <1>11

-----------------------------------------------------------------------------
(* One blink of the widget, from z to v, however the rows are noted.        *)
Blinked(z, v) ==
    /\ Sound(v) /\ SameExceptPhase(z, v)
    /\ \A r \in Rows : SameInRow(z, v, r)
    /\ SegmentSound(z) => SegmentSound(v) /\ \A D : Good(z, D) => Good(v, D)

(* Then all rows show the new phase.                                        *)
LEMMA AllFlipped ==
    ASSUME NEW z, Sound(z), NEW N, NEW u, BlinkedSoFar(z, N, u, z.nr)
    PROVE  Blinked(z, u)
<1>1. /\ SameExceptPhase(z, u)
      /\ \A r \in Rows : SameInRow(z, u, r) /\ ExtentNoted(At(u, r))
      /\ SegmentSound(z) => RowsFlipped(z, u, z.nr)
  BY DEF BlinkedSoFar
<1>2. /\ IsText(z) /\ IsText(u) /\ u.row = z.row /\ SameNotes(z, u) /\ u.nr = z.nr /\ u.act = z.act
      /\ u.hidden = z.hidden
  BY <1>1 DEF SameExceptPhase, Sound
<1>3. \A r \in Rows : Blinks(At(u, r)) => Blinks(At(z, r))
  BY <1>1 DEF SameInRow, Blinks
<1>4. RowsIn(u)
  BY <1>1, <1>2, <1>3, RowsStayIn
<1>5. ASSUME SegmentSound(z)
      PROVE  SegmentSound(u) /\ \A D : Good(z, D) => Good(u, D)
  <2>1. SegmentSound(u)
    <3>1. CASE ~u.act.on
      BY <3>1, SegmentOff
    <3>2. CASE u.act.on
      <4>1. z.act.row \in Rows
        BY <1>2 DEF IsText, SegmentType
      <4>2. \A j \in Cols : RowText(At(u, z.act.row), j) = RowText(At(z, z.act.row), j)
        BY <4>1, <1>1 DEF SameInRow
      <4> QED BY <4>2, <1>2, <1>5, SegmentText
    <3> QED BY <3>1, <3>2
  <2>2. ASSUME NEW r \in Rows, NEW k \in Cols
        PROVE  CellDrawn(z, u, r, k)
    <3>1. /\ r < z.nr => CellDrawn(z, u, r, k)
          /\ r >= z.nr => u.win[<<r, k>>] = z.win[<<r, k>>]
      BY <1>1, <1>5 DEF RowsFlipped
    <3>2. CASE r < z.nr
      BY <3>1, <3>2
    <3>3. CASE ~(r < z.nr)
      <4>1. r >= z.nr
        BY <3>3, <1>2, Numbers DEF IsText
      <4>2. ~VisibleAt(u, r, k)
        BY <3>3, <1>2 DEF VisibleAt
      <4> QED BY <4>1, <4>2, <3>1 DEF CellDrawn
    <3> QED BY <3>2, <3>3
  <2>3. Refreshed(z, u)
    BY <2>2 DEF Refreshed
  <2>4. SameSize(z, u)
    BY <1>2 DEF SameSize
  <2> QED BY <2>1, <2>3, <2>4, GoodStays
<1> QED BY <1>1, <1>2, <1>4, <1>5 DEF Blinked, Sound

(* A plain change after that.                                               *)
LEMMA BlinkedPlain ==
    ASSUME NEW z, NEW u, Blinked(z, u), NEW v, Plain(u, v), v.row = u.row, v.buf = u.buf,
           SameNotes(u, v), v.act = u.act, v.crow = u.crow, v.ccol = u.ccol
    PROVE  Blinked(z, v)
<1>1. Sound(u) /\ SameExceptPhase(z, u) /\ \A r \in Rows : SameInRow(z, u, r)
  BY DEF Blinked
<1>2. /\ Sound(v) /\ SameFrame(u, v) /\ v.ev = u.ev
  BY DEF Plain
<1>3. SameExceptPhase(z, v)
  BY <1>1, <1>2 DEF SameExceptPhase, SameFrame, SameNotes, Sound
<1>4. \A r \in Rows : At(v, r) = At(u, r)
  BY DEF At
<1>5. \A r \in Rows : SameInRow(z, v, r)
  BY <1>1, <1>4 DEF SameInRow
<1> QED BY <1>2, <1>3, <1>5 DEF Blinked, Plain

(* The same with the cursor back.                                           *)
LEMMA AllBlinked ==
    ASSUME NEW z, Sound(z), NEW N, N = Noted(z), NEW p, p = Turned(z), NEW v, v = BlinkRows(p)
    PROVE  /\ Blinked(z, v)
           /\ CursorLast(z, N) => v.on = z.on
<1>1. PICK s : /\ BlinkState(z, N, s, z.nr)
               /\ v = IF s.did THEN CursorTo(s.after, s.save) ELSE s.after
  BY RowsBlinked
<1>2. PICK u, save : u = s.after /\ save = s.save
  OBVIOUS
<1>3. /\ BlinkedSoFar(z, N, u, z.nr) /\ save \in BOOLEAN
      /\ CursorLast(z, N) => SaveKept(z, N, s, z.nr)
  BY <1>1, <1>2 DEF BlinkState
<1>4. Blinked(z, u)
  BY <1>3, AllFlipped
<1>5. Sound(u)
  BY <1>4 DEF Blinked
<1>6. IF CursorTaken(z, N, z.nr) THEN ~u.on ELSE u.on = z.on
  BY <1>3 DEF BlinkedSoFar
<1>7. CASE s.did
  <2>1. v = CursorTo(u, save)
    BY <1>1, <1>2, <1>7
  <2>2. Plain(u, v) /\ v.on = save /\ v.crow = u.crow /\ v.ccol = u.ccol
    BY <2>1, <1>3, <1>5, CursorPlain
  <2>3. v.row = u.row /\ v.buf = u.buf /\ SameNotes(u, v) /\ v.act = u.act
    <3>1. SameText(u, v) /\ SameRest(u, v)
      BY <2>1, <1>3, <1>5, CursorMoved DEF Sound
    <3> QED BY <3>1 DEF SameText, SameRest, SameNotes
  <2>4. Blinked(z, v)
    BY <2>2, <2>3, <1>4, BlinkedPlain
  <2>5. CursorLast(z, N) => v.on = z.on
    BY <2>2, <1>2, <1>3, <1>7 DEF SaveKept
  <2> QED BY <2>4, <2>5
<1>8. CASE ~s.did
  <2>1. v = u
    BY <1>1, <1>2, <1>8
  <2>2. CursorLast(z, N) => v.on = z.on
    BY <2>1, <1>3, <1>6, <1>8 DEF SaveKept
  <2> QED BY <2>1, <2>2, <1>4
<1> QED BY <1>7, <1>8

-----------------------------------------------------------------------------
(* Rows noted otherwise, as long as those with blinking characters are.     *)
LEMMA NotedPlain ==
    ASSUME NEW u, Sound(u), NEW f \in Nat, NEW l \in Nat, NEW t \in BOOLEAN,
           \A r \in Rows : Blinks(At(u, r)) => r < u.nr /\ t /\ f <= r /\ r < l,
           NEW v, v = NotesGiven(u, f, l, t)
    PROVE  Plain(u, v) /\ SameCursor(u, v) /\ v.act = u.act /\ v.row = u.row /\ v.buf = u.buf
<1>1. /\ IsText(v) /\ v.row = u.row /\ v.buf = u.buf /\ v.win = u.win
      /\ v.bfirst = f /\ v.blim = l /\ v.ticking = t
      /\ SameCursor(u, v) /\ SameRest(u, v) /\ IsText(u)
  BY NotesAssigned DEF Sound
<1>2. \A r \in Rows : At(v, r) = At(u, r)
  BY <1>1 DEF At
<1>3. SameFrame(u, v) /\ v.act = u.act /\ v.ev = u.ev /\ v.nr = u.nr
  BY <1>1 DEF SameRest, SameFrame
<1>4. \A r \in Rows : ExtentNoted(At(v, r)) /\ (Blinks(At(v, r)) => RowNoted(v, r))
  BY <1>1, <1>2, <1>3, SoundRows DEF RowNoted
<1>5. Sound(v)
  BY <1>1, <1>4 DEF Sound, RowsIn
<1>6. SegmentSound(u) => SegmentSound(v)
  BY <1>1, <1>3, SameSegment
<1>7. Refreshed(u, v)
  <2>1. ASSUME NEW r \in Rows, NEW k \in Cols
        PROVE  CellDrawn(u, v, r, k)
    <3>1. RowText(At(v, r), k) = RowText(At(u, r), k)
      BY <1>2
    <3>2. Expected(v, <<r, k>>) = Expected(u, <<r, k>>)
      BY <3>1, <1>1, <1>3, SameExpected
    <3> QED BY <3>2, <1>1 DEF CellDrawn
  <2> QED BY <2>1 DEF Refreshed
<1>8. SameSize(u, v)
  BY <1>3 DEF SameFrame, SameSize
<1> QED BY <1>1, <1>3, <1>5, <1>6, <1>7, <1>8, GoodStays DEF Plain

(* What DoBlink notes for the next time.                                    *)
StillBlinking(z, u) == {r \in Noted(z) : At(u, r).bl # 0}

Renoted(u, rows) ==
    NotesGiven(u, IF rows = {} THEN NRows + 1 ELSE Min(rows),
                  IF rows = {} THEN 0 ELSE Max(rows) + 1, rows # {})

(* What is found to blink is noted.                                         *)
LEMMA RowsRenoted ==
    ASSUME NEW z, Sound(z), NEW u, Blinked(z, u), NEW rows, rows = StillBlinking(z, u),
           NEW v, v = Renoted(u, rows)
    PROVE  Plain(u, v) /\ SameCursor(u, v) /\ v.act = u.act /\ v.row = u.row /\ v.buf = u.buf
<1>1. PICK N : N = Noted(z)
  OBVIOUS
<1>2. BlinksIn(z, N) /\ \A r \in N : r \in Rows /\ r < z.nr
  BY <1>1, NotedRows
<1>3. Sound(u) /\ SameExceptPhase(z, u) /\ \A r \in Rows : SameInRow(z, u, r)
  BY DEF Blinked
<1>4. u.nr = z.nr
  BY <1>3 DEF SameExceptPhase
<1>5. ASSUME NEW r \in Rows, Blinks(At(u, r))
      PROVE  r \in rows /\ r < u.nr
  <2>1. Blinks(At(z, r))
    BY <1>3, <1>5 DEF Blinks, SameInRow
  <2>2. r \in N
    BY <2>1, <1>2 DEF BlinksIn
  <2>3. At(u, r) \in RowType /\ ExtentNoted(At(u, r))
    BY <1>3, SoundRows
  <2>4. PICK k \in Cols : RowText(At(u, r), k) \in Blinking
    BY <1>5 DEF Blinks
  <2>5. k \in Nat /\ k < At(u, r).bl
    BY <2>3, <2>4, Numbers DEF ExtentNoted
  <2>6. At(u, r).bl # 0
    BY <2>3, <2>5, RowParts
  <2> QED BY <2>2, <2>6, <1>1, <1>2, <1>4 DEF StillBlinking
<1>6. PICK f, l, t : /\ f = IF rows = {} THEN NRows + 1 ELSE Min(rows)
                     /\ l = IF rows = {} THEN 0 ELSE Max(rows) + 1
                     /\ t = (rows # {})
  OBVIOUS
<1>7. v = NotesGiven(u, f, l, t)
  BY <1>6 DEF Renoted
<1>8. NRows \in Nat /\ NRows > 0
  BY Numbers
<1>9. f \in Nat /\ l \in Nat /\ t \in BOOLEAN /\ \A r \in rows : t /\ f <= r /\ r < l
  <2>1. CASE rows = {}
    BY <2>1, <1>6, <1>8
  <2>2. CASE rows # {}
    <3>1. rows \subseteq 0 .. NRows
      BY <1>1, <1>2, <1>8, Numbers DEF StillBlinking
    <3>2. /\ Min(rows) \in rows /\ \A c \in rows : Min(rows) <= c
          /\ Max(rows) \in rows /\ \A c \in rows : c <= Max(rows)
      BY <2>2, <3>1, <1>8, Extremes
    <3>3. PICK a, b : a = Min(rows) /\ b = Max(rows)
      OBVIOUS
    <3>4. a \in 0 .. NRows /\ b \in 0 .. NRows /\ f = a /\ l = b + 1 /\ t = TRUE
      BY <2>2, <3>1, <3>2, <3>3, <1>6
    <3>5. \A r \in rows : r \in 0 .. NRows /\ a <= r /\ r <= b
      BY <3>1, <3>2, <3>3
    <3> QED BY <3>4, <3>5, <1>8
  <2> QED BY <2>1, <2>2
<1>10. \A r \in Rows : Blinks(At(u, r)) => r < u.nr /\ t /\ f <= r /\ r < l
  BY <1>5, <1>9
<1> QED BY <1>3, <1>7, <1>9, <1>10, NotedPlain

(* The whole of DoBlink.                                                    *)
BlinkResult(z) ==
    LET u == BlinkRows(Turned(z))
    IN Renoted(u, StillBlinking(z, u))

(* DoBlink as a whole.                                                      *)
LEMMA BlinkHandled ==
    ASSUME NEW z, Sound(z), NEW v, v = BlinkResult(z)
    PROVE  /\ Sound(v) /\ v.nr = z.nr /\ v.hidden = z.hidden /\ v.vis = z.vis /\ v.ev = z.ev
           /\ SegmentSound(z) => SegmentSound(v) /\ \A D : Good(z, D) => Good(v, D)
           /\ CursorLast(z, Noted(z)) => v.on = z.on
<1>1. PICK N, p, u, rows : /\ N = Noted(z) /\ p = Turned(z) /\ u = BlinkRows(p)
                           /\ rows = StillBlinking(z, u)
  OBVIOUS
<1>2. v = Renoted(u, rows)
  BY <1>1 DEF BlinkResult
<1>3. Blinked(z, u) /\ (CursorLast(z, N) => u.on = z.on)
  BY <1>1, AllBlinked
<1>4. Plain(u, v) /\ SameCursor(u, v)
  BY <1>1, <1>2, <1>3, RowsRenoted
<1>5. u.nr = z.nr /\ u.hidden = z.hidden /\ u.vis = z.vis /\ u.ev = z.ev
  BY <1>3 DEF Blinked, SameExceptPhase
<1>6. Sound(v) /\ SameFrame(u, v) /\ v.ev = u.ev /\ v.on = u.on
  BY <1>4 DEF Plain, SameCursor
<1>7. SegmentSound(z) => SegmentSound(v) /\ \A D : Good(z, D) => Good(v, D)
  BY <1>3, <1>4 DEF Blinked, Plain
<1> QED BY <1>1, <1>3, <1>5, <1>6, <1>7 DEF SameFrame

-----------------------------------------------------------------------------
(* The segment of a row that has gone is only forgotten.                    *)
Dropped(u) == [u EXCEPT !.act.on = FALSE]

(* A segment below the window is only forgotten.                            *)
LEMMA SegmentDropped ==
    ASSUME NEW u, IsText(u), ~(u.act.on /\ u.act.row < u.nr), NEW v, v = Dropped(u)
    PROVE  Calm(u, v) /\ ~v.act.on
<1>1. PICK a : a = [u.act EXCEPT !.on = FALSE]
  OBVIOUS
<1>2. a \in SegmentType /\ ~a.on /\ u.act \in SegmentType
  BY <1>1 DEF IsText, SegmentType
<1>3. v = [u EXCEPT !.act = a]
  BY <1>1 DEF Dropped
<1>4. /\ IsText(v) /\ v.act = a /\ v.win = u.win /\ v.ev = u.ev
      /\ SameText(u, v) /\ SameCursor(u, v) /\ SameFrame(u, v)
  BY <1>2, <1>3, ActAssigned
<1>5. ~v.act.on
  BY <1>2, <1>4
<1>6. ASSUME NEW r \in Rows, NEW k \in Cols
      PROVE  CellDrawn(u, v, r, k)
  <2>1. CASE VisibleAt(v, r, k)
    <3>1. r < u.nr /\ VisibleAt(u, r, k)
      BY <2>1, <1>4 DEF VisibleAt, SameFrame
    <3>2. PICK ch : ch = RowText(At(u, r), k)
      OBVIOUS
    <3>3. At(v, r) = At(u, r)
      BY <1>4 DEF At, SameText
    <3>4. ~(u.act.on /\ r = u.act.row)
      BY <3>1
    <3>5. Look(v, ch, r, k) = Look(u, ch, r, k)
      BY <3>4, <1>4, <1>5 DEF Look, SameFrame
    <3>6. CursorAt(v, r, k) <=> CursorAt(u, r, k)
      BY <1>4 DEF CursorAt, SameCursor
    <3>7. Expected(v, <<r, k>>) = IF CursorAt(v, r, k) THEN CursorCell ELSE Look(v, RowText(At(v, r), k), r, k)
      BY <2>1, <1>4, ExpectedInRow
    <3>8. Expected(u, <<r, k>>) = IF CursorAt(u, r, k) THEN CursorCell ELSE Look(u, RowText(At(u, r), k), r, k)
      BY <3>1, ExpectedInRow
    <3>9. Expected(v, <<r, k>>) = Expected(u, <<r, k>>)
      BY <3>2, <3>3, <3>5, <3>6, <3>7, <3>8
    <3> QED BY <3>9, <1>4 DEF CellDrawn
  <2>2. CASE ~VisibleAt(v, r, k)
    BY <2>2, <1>4 DEF CellDrawn
  <2> QED BY <2>1, <2>2
<1>7. Refreshed(u, v)
  BY <1>6 DEF Refreshed
<1> QED BY <1>4, <1>5, <1>7, SegmentOff DEF Calm

(* The old segment is no longer highlighted.                                *)
Unlit(u) == IF u.act.on /\ u.act.row < u.nr THEN ClearOnActive(u) ELSE Dropped(u)

(* The old segment is no longer highlighted.                                *)
LEMMA SegmentUnlit ==
    ASSUME NEW u, IsText(u), NEW v, v = Unlit(u)
    PROVE  Calm(u, v) /\ ~v.act.on
<1>1. CASE u.act.on /\ u.act.row < u.nr
  <2>1. v = ClearOnActive(u)
    BY <1>1 DEF Unlit
  <2> QED BY <2>1, OnActiveCleared
<1>2. CASE ~(u.act.on /\ u.act.row < u.nr)
  <2>1. v = Dropped(u)
    BY <1>2 DEF Unlit
  <2> QED BY <1>2, <2>1, SegmentDropped
<1> QED BY <1>1, <1>2

-----------------------------------------------------------------------------
(* The run of active characters around a column.                            *)
Live(b, c) == c \in Cols /\ c < b.n /\ b.cell[c] \in Active

FirstLive(b, col) == CHOOSE c \in 0 .. col : (\A k \in c .. col : Live(b, k)) /\ ~Live(b, c - 1)

LimLive(b, col) == CHOOSE c \in col + 1 .. NCols : (\A k \in col .. c - 1 : Live(b, k)) /\ ~Live(b, c)

(* A run of active characters has a first column ...                        *)
LEMMA RunStarts ==
    ASSUME NEW b, NEW col \in Cols, Live(b, col), NEW f, f = FirstLive(b, col)
    PROVE  f \in 0 .. col /\ (\A k \in f .. col : Live(b, k)) /\ ~Live(b, f - 1)
<1>1. col \in Nat /\ NCols \in Nat /\ \A c \in Cols : c \in Nat
  BY Numbers
<1>2. PICK S : S = {c \in 0 .. col : \A k \in c .. col : Live(b, k)}
  OBVIOUS
<1>3. col \in S
  <2>1. \A k \in col .. col : k = col
    BY <1>1
  <2> QED BY <2>1, <1>1, <1>2
<1>4. S \subseteq 0 .. col /\ S # {}
  BY <1>2, <1>3
<1>5. Min(S) \in S /\ \A c \in S : Min(S) <= c
  BY <1>1, <1>4, Extremes
<1>6. PICK m : m = Min(S)
  OBVIOUS
<1>7. m \in 0 .. col /\ \A k \in m .. col : Live(b, k)
  BY <1>2, <1>5, <1>6
<1>8. ~Live(b, m - 1)
  <2> SUFFICES ASSUME Live(b, m - 1)
               PROVE  FALSE
    OBVIOUS
  <2>1. m - 1 \in 0 .. col
    BY <1>1, <1>7 DEF Live
  <2>2. \A k \in m - 1 .. col : k = m - 1 \/ k \in m .. col
    BY <1>1, <1>7
  <2>3. m - 1 \in S
    BY <2>1, <2>2, <1>2, <1>7
  <2>4. m <= m - 1
    BY <2>3, <1>5, <1>6
  <2> QED BY <2>4, <1>7
<1> QED BY <1>7, <1>8 DEF FirstLive

(* ... and a limit.                                                         *)
LEMMA RunEnds ==
    ASSUME NEW b, NEW col \in Cols, Live(b, col), NEW l, l = LimLive(b, col)
    PROVE  l \in col + 1 .. NCols /\ (\A k \in col .. l - 1 : Live(b, k)) /\ ~Live(b, l)
<1>1. col \in Nat /\ NCols \in Nat /\ col < NCols /\ \A c \in Cols : c \in Nat /\ c < NCols
  BY Numbers
<1>2. PICK S : S = {c \in col + 1 .. NCols : \A k \in col .. c - 1 : Live(b, k)}
  OBVIOUS
<1>3. col + 1 \in S
  <2>1. \A k \in col .. (col + 1) - 1 : k = col
    BY <1>1
  <2>2. col + 1 \in col + 1 .. NCols
    BY <1>1
  <2> QED BY <2>1, <2>2, <1>2
<1>4. S \subseteq 0 .. NCols /\ S # {}
  BY <1>1, <1>2, <1>3
<1>5. Max(S) \in S /\ \A c \in S : c <= Max(S)
  BY <1>1, <1>4, Extremes
<1>6. PICK m : m = Max(S)
  OBVIOUS
<1>7. m \in col + 1 .. NCols /\ \A k \in col .. m - 1 : Live(b, k)
  BY <1>2, <1>5, <1>6
<1>8. ~Live(b, m)
  <2> SUFFICES ASSUME Live(b, m)
               PROVE  FALSE
    OBVIOUS
  <2>1. m + 1 \in col + 1 .. NCols
    BY <1>1, <1>7 DEF Live
  <2>2. \A k \in col .. (m + 1) - 1 : k = m \/ k \in col .. m - 1
    BY <1>1, <1>7
  <2>3. m + 1 \in S
    BY <2>1, <2>2, <1>2, <1>7
  <2>4. m + 1 <= m
    BY <2>3, <1>5, <1>6
  <2> QED BY <2>4, <1>1, <1>7
<1> QED BY <1>7, <1>8 DEF LimLive

Segment(row, f, l) == [on |-> TRUE, row |-> row, from |-> f, lim |-> l]

Lit(x, row, f, l) == [x EXCEPT !.act = Segment(row, f, l)]

WholeRun(b, f, l) ==
    /\ f \in Cols /\ l \in Nat /\ f < l /\ l <= NCols
    /\ ~Live(b, f - 1) /\ ~Live(b, l)

(* A whole run is a sound segment.                                          *)
LEMMA RunSound ==
    ASSUME NEW x, IsText(x), NEW row \in Rows, NEW f, NEW l, WholeRun(At(x, row), f, l),
           x.act = Segment(row, f, l)
    PROVE  SegmentSound(x)
<1>1. /\ f \in Cols /\ l \in Nat /\ f < l /\ l <= NCols
      /\ ~Live(At(x, row), f - 1) /\ ~Live(At(x, row), l)
  BY DEF WholeRun
<1>2. x.act.row = row /\ x.act.from = f /\ x.act.lim = l
  BY DEF Segment
<1>3. NCols \in Nat /\ f \in Nat /\ \A k : k \in Cols <=> k \in Nat /\ k < NCols
  BY <1>1, Numbers
<1>4. \A k \in Cols : InSegment(x, k) <=> f <= k /\ k < l
  BY <1>1, <1>2, <1>3 DEF InSegment
<1>5. \A k \in Cols : ActiveAt(At(x, row), k) => Live(At(x, row), k)
  BY TextAssumption DEF ActiveAt, Live, RowText
<1>6. ASSUME NEW i \in Cols, NEW j \in Cols, i <= j,
             \A k \in i .. j : ActiveAt(At(x, x.act.row), k)
      PROVE  InSegment(x, i) <=> InSegment(x, j)
  <2>1. \A k \in i .. j : k \in Cols /\ Live(At(x, row), k)
    <3>1. \A k \in i .. j : k \in Cols
      BY <1>3
    <3> QED BY <3>1, <1>2, <1>5, <1>6
  <2>2. ~(l \in i .. j)
    BY <2>1, <1>1
  <2>3. ~(f - 1 \in i .. j)
    BY <2>1, <1>1
  <2>4. i \in Nat /\ j \in Nat
    BY <1>3
  <2> QED BY <2>2, <2>3, <2>4, <1>1, <1>3, <1>4, <1>6
<1> QED BY <1>6 DEF SegmentSound, Unbroken

(* The new segment is highlighted.                                          *)
LEMMA SegmentLit ==
    ASSUME NEW u, IsText(u), ~u.act.on, NEW row \in Rows, NEW f, NEW l, WholeRun(At(u, row), f, l),
           NEW x, x = Lit(u, row, f, l), NEW v, v = DrawRowChars(x, row, f, l)
    PROVE  /\ IsText(v) /\ SameText(u, v) /\ SameFrame(u, v) /\ SameCursor(u, v) /\ v.ev = u.ev
           /\ SegmentSound(v) /\ Refreshed(u, v)
<1>1. PICK a : a = Segment(row, f, l)
  OBVIOUS
<1>2. a \in SegmentType /\ f \in Nat /\ l \in Int
  BY <1>1, Numbers DEF SegmentType, Segment, WholeRun
<1>3. x = [u EXCEPT !.act = a]
  BY <1>1 DEF Lit
<1>4. /\ IsText(x) /\ x.act = a /\ x.win = u.win /\ x.ev = u.ev
      /\ SameText(u, x) /\ SameCursor(u, x) /\ SameFrame(u, x)
  BY <1>2, <1>3, ActAssigned
<1>5. At(x, row) = At(u, row)
  BY <1>4 DEF At, SameText
<1>6. SegmentSound(x)
  <2>1. WholeRun(At(x, row), f, l)
    BY <1>5
  <2> QED BY <2>1, <1>1, <1>4, RunSound
<1>7. Redraws(x, v) /\ v.on = x.on /\ Refreshed(x, v) /\ RowShown(v, row, f, l)
  BY <1>2, <1>4, <1>6, RowCharsDrawn
<1>8. /\ IsText(v) /\ SameText(u, v) /\ SameFrame(u, v) /\ SameCursor(u, v) /\ v.ev = u.ev
      /\ v.act = x.act
  BY <1>4, <1>7 DEF Redraws, SameText, SameFrame, SameCursor, SameRest
<1>9. SegmentSound(v)
  BY <1>6, <1>7, SameSegment DEF Redraws, SameText, SameRest
<1>10. ASSUME NEW r \in Rows, NEW k \in Cols
       PROVE  CellDrawn(u, v, r, k)
  <2>1. CellDrawn(x, v, r, k)
    BY <1>7 DEF Refreshed
  <2>2. CharAt(x, r, k) = CharAt(u, r, k)
    BY <1>4, SameChar DEF SameText
  <2>3. Expected(u, <<r, k>>) = IF CursorAt(u, r, k) THEN CursorCell ELSE Look(u, CharAt(u, r, k), r, k)
    BY ExpectedIs
  <2>4. Expected(x, <<r, k>>) = IF CursorAt(x, r, k) THEN CursorCell ELSE Look(x, CharAt(x, r, k), r, k)
    BY <1>4, ExpectedIs
  <2>5. CursorAt(x, r, k) <=> CursorAt(u, r, k)
    BY <1>4 DEF CursorAt, SameCursor
  <2>6. CASE Look(x, CharAt(u, r, k), r, k) = Look(u, CharAt(u, r, k), r, k)
    BY <2>1, <2>2, <2>3, <2>4, <2>5, <2>6, <1>4 DEF CellDrawn
  <2>7. CASE Look(x, CharAt(u, r, k), r, k) # Look(u, CharAt(u, r, k), r, k)
    <3>1. CharAt(u, r, k) \in Active /\ r = row /\ k \in f .. l - 1
      <4>1. x.act.row = row /\ x.act.from = f /\ x.act.lim = l /\ x.phase = u.phase
        BY <1>1, <1>4 DEF Segment, SameFrame
      <4>2. PICK ch : ch = CharAt(u, r, k)
        OBVIOUS
      <4>3. CASE ~(ch \in Active /\ r = row /\ k \in f .. l - 1)
        <5>1. Look(x, ch, r, k) = Look(u, ch, r, k)
          BY <4>1, <4>3 DEF Look
        <5> QED BY <5>1, <4>2, <2>7
      <4> QED BY <4>2, <4>3
    <3>2. CharAt(u, r, k) # Null
      BY <3>1, TextAssumption
    <3>3. CharAt(v, r, k) = CharAt(u, r, k) /\ At(v, r) = At(u, r)
      BY <1>8, SameChar DEF SameText
    <3>4. f <= k /\ k < l
      BY <3>1, <1>2, Numbers
    <3>5. VisibleAt(v, r, k) => RowText(At(v, r), k) # Null
      BY <3>2, <3>3 DEF VisibleAt, CharAt
    <3>6. VisibleAt(v, r, k) => v.win[<<r, k>>] = Expected(v, <<r, k>>)
      BY <3>1, <3>4, <3>5, <1>7 DEF RowShown
    <3> QED BY <3>6, <2>1, <1>4 DEF CellDrawn
  <2> QED BY <2>6, <2>7
<1>11. Refreshed(u, v)
  BY <1>10 DEF Refreshed
<1> QED BY <1>8, <1>9, <1>11

-----------------------------------------------------------------------------
Tested(u, row, col, wanted) ==
    LET x == Unlit(u)
        f == FirstLive(At(u, row), col)
        l == LimLive(At(u, row), col)
    IN IF Live(At(u, row), col) /\ wanted THEN DrawRowChars(Lit(x, row, f, l), row, f, l) ELSE x

Redone(u, v) ==
    /\ Sound(v) /\ SameFrame(u, v) /\ SameCursor(u, v) /\ v.ev = u.ev
    /\ SegmentSound(u) => SegmentSound(v) /\ \A D : Good(u, D) => Good(v, D)

(* Rows stay sound while the text does.                                     *)
LEMMA SameTextSound ==
    ASSUME NEW u, Sound(u), NEW v, IsText(v), SameText(u, v), v.nr = u.nr
    PROVE  Sound(v)
<1>1. \A r \in Rows : At(v, r) = At(u, r)
  BY DEF At, SameText
<1>2. RowsIn(u)
  BY DEF Sound
<1>3. \A r \in Rows : RowNoted(u, r) => RowNoted(v, r)
  BY DEF RowNoted, SameText
<1> QED BY <1>1, <1>2, <1>3 DEF Sound, RowsIn, SameText

(* TestActiveChange as a whole.                                             *)
LEMMA ActiveTested ==
    ASSUME NEW u, Sound(u), NEW row \in Rows, NEW col \in Cols, NEW wanted,
           NEW v, v = Tested(u, row, col, wanted)
    PROVE  Redone(u, v)
<1>1. PICK x, f, l, b : x = Unlit(u) /\ f = FirstLive(b, col) /\ l = LimLive(b, col) /\ b = At(u, row)
  OBVIOUS
<1>2. Calm(u, x) /\ ~x.act.on
  BY <1>1, SegmentUnlit DEF Sound
<1>3. /\ IsText(x) /\ SameText(u, x) /\ SameFrame(u, x) /\ SameCursor(u, x) /\ x.ev = u.ev
      /\ SegmentSound(u) => SegmentSound(x)
      /\ Refreshed(u, x)
  BY <1>2 DEF Calm
<1>4. SameSize(u, x) /\ x.nr = u.nr
  BY <1>3 DEF SameFrame, SameSize
<1>5. CASE Live(b, col) /\ wanted
  <2>1. PICK y : y = Lit(x, row, f, l)
    OBVIOUS
  <2>2. v = DrawRowChars(y, row, f, l)
    BY <1>1, <1>5, <2>1 DEF Tested
  <2>3. f \in 0 .. col /\ (\A k \in f .. col : Live(b, k)) /\ ~Live(b, f - 1)
    BY <1>1, <1>5, RunStarts
  <2>4. l \in col + 1 .. NCols /\ ~Live(b, l)
    BY <1>1, <1>5, RunEnds
  <2>5. WholeRun(b, f, l)
    BY <2>3, <2>4, Numbers DEF WholeRun
  <2>6. At(x, row) = b
    BY <1>1, <1>3 DEF At, SameText
  <2>7. WholeRun(At(x, row), f, l)
    BY <2>5, <2>6
  <2>8. /\ IsText(v) /\ SameText(x, v) /\ SameFrame(x, v) /\ SameCursor(x, v) /\ v.ev = x.ev
        /\ SegmentSound(v) /\ Refreshed(x, v)
    BY <2>1, <2>2, <2>7, <1>2, <1>3, SegmentLit
  <2>9. /\ SameText(u, v) /\ SameFrame(u, v) /\ SameCursor(u, v) /\ v.ev = u.ev /\ v.nr = u.nr
        /\ SameSize(x, v)
    BY <2>8, <1>3 DEF SameText, SameFrame, SameCursor, SameSize
  <2>10. Sound(v)
    BY <2>8, <2>9, SameTextSound
  <2>11. ASSUME NEW D, Good(u, D)
         PROVE  Good(v, D)
    <3>1. Good(x, D)
      BY <2>11, <1>3, <1>4, GoodStays
    <3> QED BY <3>1, <2>8, <2>9, GoodStays
  <2> QED BY <2>8, <2>9, <2>10, <2>11 DEF Redone
<1>6. CASE ~(Live(b, col) /\ wanted)
  <2>1. v = x
    BY <1>1, <1>6 DEF Tested
  <2>2. Sound(v)
    BY <2>1, <1>3, <1>4, SameTextSound
  <2>3. \A D : Good(u, D) => Good(v, D)
    BY <2>1, <1>3, <1>4, GoodStays
  <2> QED BY <2>1, <2>2, <2>3, <1>3 DEF Redone
<1> QED BY <1>5, <1>6

-----------------------------------------------------------------------------
(* The events about the window.                                             *)
IsAnswer(e) == e.type \in {"NoExpose", "GraphicsExpose"}
IsVisibility(e) == e.type \in {"Obscured", "Unobscured"}

(* ToBeDrawn, of the queue alone.                                           *)
ExposedIn(ev) == UNION {ev[i].cells : i \in {j \in DOMAIN ev : IsExposure(ev[j])}}
ExposedBy(e) == IF IsExposure(e) THEN e.cells ELSE {}

(* There are n answers, at most two.                                        *)
Answered(ev, n) ==
    /\ n # 0 => \E i \in DOMAIN ev : IsAnswer(ev[i])
    /\ n = 2 => \E i, j \in DOMAIN ev : i # j /\ IsAnswer(ev[i]) /\ IsAnswer(ev[j])

(* What NoExpose answers has no cells that were not copied.                 *)
NoneLost(ev) == \A i \in DOMAIN ev : ev[i].type = "NoExpose" => ev[i].cells = {}

LastVisibility(ev, i) == IsVisibility(ev[i]) /\ \A j \in DOMAIN ev : j > i => ~IsVisibility(ev[j])

(* The widget knows whether the window is covered, or will from the last    *)
(* event that says so.                                                      *)
VisKnown(ev, vis, hidden) ==
    /\ (\A i \in DOMAIN ev : ~IsVisibility(ev[i])) => vis = ~hidden
    /\ \A i \in DOMAIN ev : LastVisibility(ev, i) => hidden = (ev[i].type = "Obscured")

(* Nothing is waited for: what the queue answers copied everything, and was *)
(* asked for before anything else happened to a window fully visible.       *)
Settled(ev, vis) ==
    \A i \in DOMAIN ev :
        /\ ev[i].type # "GraphicsExpose"
        /\ ev[i].type = "NoExpose" => vis /\ \A j \in DOMAIN ev : j < i => ev[j].type = "NoExpose"

(* The answers waited for are the next n events.                            *)
Awaited(ev, vis, n) ==
    /\ ~vis /\ n <= Len(ev)
    /\ \A i \in DOMAIN ev : IsAnswer(ev[i]) <=> i <= n

(* rest is the queue ev without its first event, e.                         *)
Follows(ev, e, rest) ==
    /\ ev \in Seq(EventType) /\ rest \in Seq(EventType) /\ e \in EventType
    /\ Len(ev) = Len(rest) + 1 /\ ev[1] = e
    /\ \A i \in DOMAIN rest : rest[i] = ev[i + 1]

Extends(ev, e, more) ==
    /\ ev \in Seq(EventType) /\ more \in Seq(EventType) /\ e \in EventType
    /\ Len(more) = Len(ev) + 1 /\ more[Len(more)] = e
    /\ \A i \in DOMAIN ev : more[i] = ev[i]

(* An event comes last.                                                     *)
LEMMA EventAppended ==
    ASSUME NEW ev \in Seq(EventType), NEW e \in EventType, NEW more, more = Append(ev, e)
    PROVE  Extends(ev, e, more)
  BY DEF Extends

(* The kinds of event.                                                      *)
LEMMA EventExposes ==
    ASSUME NEW e \in EventType
    PROVE  /\ IsAnswer(e) => IsExposure(e)
           /\ IsVisibility(e) => ~IsExposure(e)
           /\ e.cells \subseteq Cells
  BY DEF EventType, IsAnswer, IsExposure, IsVisibility

(* A queue and the same with one event more.                                *)
LEMMA ExtendedQueue ==
    ASSUME NEW ev, NEW e, NEW more, Extends(ev, e, more)
    PROVE  /\ Len(ev) \in Nat /\ DOMAIN ev = 1 .. Len(ev) /\ DOMAIN more = 1 .. Len(ev) + 1
           /\ more[Len(ev) + 1] = e /\ \A i \in 1 .. Len(ev) : more[i] = ev[i]
           /\ \A i \in DOMAIN more : i \in DOMAIN ev \/ i = Len(ev) + 1
           /\ ev \in Seq(EventType) /\ more \in Seq(EventType)
  BY DEF Extends

(* A queue and the same without its first event.                            *)
LEMMA FollowingQueue ==
    ASSUME NEW ev, NEW e, NEW rest, Follows(ev, e, rest)
    PROVE  /\ Len(rest) \in Nat /\ DOMAIN rest = 1 .. Len(rest) /\ DOMAIN ev = 1 .. Len(rest) + 1
           /\ ev[1] = e /\ \A i \in 1 .. Len(rest) : rest[i] = ev[i + 1]
           /\ \A i \in DOMAIN ev : i = 1 \/ (i - 1 \in DOMAIN rest /\ ev[i] = rest[i - 1])
           /\ ev \in Seq(EventType) /\ rest \in Seq(EventType)
<1>1. /\ Len(rest) \in Nat /\ DOMAIN rest = 1 .. Len(rest) /\ DOMAIN ev = 1 .. Len(rest) + 1
      /\ ev[1] = e /\ \A i \in 1 .. Len(rest) : rest[i] = ev[i + 1]
      /\ ev \in Seq(EventType) /\ rest \in Seq(EventType)
  BY DEF Follows
<1>2. ASSUME NEW i \in DOMAIN ev, i # 1
      PROVE  i - 1 \in DOMAIN rest /\ ev[i] = rest[i - 1]
  <2>1. i \in Nat /\ i - 1 \in 1 .. Len(rest) /\ (i - 1) + 1 = i
    BY <1>1, <1>2
  <2> QED BY <2>1, <1>1
<1> QED BY <1>1, <1>2

(* What the longer queue exposes and answers.                               *)
LEMMA ExtendedExposes ==
    ASSUME NEW ev, NEW e, NEW more, Extends(ev, e, more)
    PROVE  /\ ExposedIn(more) = ExposedIn(ev) \cup ExposedBy(e)
           /\ \A n : Answered(ev, n) => Answered(more, n)
           /\ IsAnswer(e) => Answered(more, 1) /\ (Answered(ev, 1) => Answered(more, 2))
           /\ NoneLost(ev) /\ (e.type = "NoExpose" => e.cells = {}) => NoneLost(more)
<1>1. /\ Len(ev) \in Nat /\ DOMAIN ev = 1 .. Len(ev) /\ DOMAIN more = 1 .. Len(ev) + 1
      /\ more[Len(ev) + 1] = e /\ \A i \in 1 .. Len(ev) : more[i] = ev[i]
      /\ \A i \in DOMAIN more : i \in DOMAIN ev \/ i = Len(ev) + 1
  BY ExtendedQueue
<1>2. PICK l : l = Len(ev) + 1
  OBVIOUS
<1>3. /\ l \in DOMAIN more /\ more[l] = e
      /\ \A i \in DOMAIN ev : i \in DOMAIN more /\ more[i] = ev[i]
      /\ \A i \in DOMAIN more : i \in DOMAIN ev \/ i = l
  BY <1>1, <1>2
<1>4. ASSUME NEW c, c \in ExposedIn(more)
      PROVE  c \in ExposedIn(ev) \cup ExposedBy(e)
  <2>1. PICK i \in DOMAIN more : IsExposure(more[i]) /\ c \in more[i].cells
    BY <1>4 DEF ExposedIn
  <2>2. CASE i \in DOMAIN ev
    BY <2>1, <2>2, <1>3 DEF ExposedIn
  <2>3. CASE i = l
    BY <2>1, <2>3, <1>3 DEF ExposedBy
  <2> QED BY <2>2, <2>3, <1>3
<1>5. ASSUME NEW c, c \in ExposedIn(ev)
      PROVE  c \in ExposedIn(more)
  <2>1. PICK i \in DOMAIN ev : IsExposure(ev[i]) /\ c \in ev[i].cells
    BY <1>5 DEF ExposedIn
  <2>2. i \in DOMAIN more /\ more[i] = ev[i]
    BY <1>3
  <2> QED BY <2>1, <2>2 DEF ExposedIn
<1>6. ASSUME NEW c, c \in ExposedBy(e)
      PROVE  c \in ExposedIn(more)
  <2>1. IsExposure(more[l]) /\ c \in more[l].cells
    BY <1>3, <1>6 DEF ExposedBy
  <2> QED BY <2>1, <1>3 DEF ExposedIn
<1>7. ExposedIn(more) = ExposedIn(ev) \cup ExposedBy(e)
  BY <1>4, <1>5, <1>6
<1>8. \A n : Answered(ev, n) => Answered(more, n)
  BY <1>3 DEF Answered
<1>9. ASSUME IsAnswer(e)
      PROVE  Answered(more, 1) /\ (Answered(ev, 1) => Answered(more, 2))
  <2>1. \A i \in DOMAIN ev : i # l
    BY <1>1, <1>2
  <2> QED BY <2>1, <1>3, <1>9 DEF Answered
<1>10. NoneLost(ev) /\ (e.type = "NoExpose" => e.cells = {}) => NoneLost(more)
  BY <1>3 DEF NoneLost
<1> QED BY <1>7, <1>8, <1>9, <1>10

(* What the longer queue exposed.                                           *)
LEMMA FollowingExposes ==
    ASSUME NEW ev, NEW e, NEW rest, Follows(ev, e, rest)
    PROVE  /\ ExposedIn(ev) = ExposedIn(rest) \cup ExposedBy(e)
           /\ NoneLost(ev) => NoneLost(rest) /\ (e.type = "NoExpose" => e.cells = {})
<1>1. /\ Len(rest) \in Nat /\ DOMAIN rest = 1 .. Len(rest) /\ DOMAIN ev = 1 .. Len(rest) + 1
      /\ ev[1] = e /\ \A i \in 1 .. Len(rest) : rest[i] = ev[i + 1]
      /\ \A i \in DOMAIN ev : i = 1 \/ (i - 1 \in DOMAIN rest /\ ev[i] = rest[i - 1])
  BY FollowingQueue
<1>2. 1 \in DOMAIN ev /\ \A i \in DOMAIN rest : i + 1 \in DOMAIN ev /\ rest[i] = ev[i + 1]
  BY <1>1
<1>3. ASSUME NEW c, c \in ExposedIn(ev)
      PROVE  c \in ExposedIn(rest) \cup ExposedBy(e)
  <2>1. PICK i \in DOMAIN ev : IsExposure(ev[i]) /\ c \in ev[i].cells
    BY <1>3 DEF ExposedIn
  <2>2. CASE i = 1
    BY <2>1, <2>2, <1>1 DEF ExposedBy
  <2>3. CASE i # 1
    <3>1. PICK j : j = i - 1
      OBVIOUS
    <3>2. j \in DOMAIN rest /\ ev[i] = rest[j]
      BY <2>3, <3>1, <1>1
    <3> QED BY <3>2, <2>1 DEF ExposedIn
  <2> QED BY <2>2, <2>3
<1>4. ASSUME NEW c, c \in ExposedIn(rest)
      PROVE  c \in ExposedIn(ev)
  <2>1. PICK i \in DOMAIN rest : IsExposure(rest[i]) /\ c \in rest[i].cells
    BY <1>4 DEF ExposedIn
  <2>2. PICK j : j = i + 1
    OBVIOUS
  <2>3. j \in DOMAIN ev /\ ev[j] = rest[i]
    BY <2>2, <1>2
  <2> QED BY <2>1, <2>3 DEF ExposedIn
<1>5. ASSUME NEW c, c \in ExposedBy(e)
      PROVE  c \in ExposedIn(ev)
  BY <1>1, <1>2, <1>5 DEF ExposedBy, ExposedIn
<1>6. ExposedIn(ev) = ExposedIn(rest) \cup ExposedBy(e)
  BY <1>3, <1>4, <1>5
<1>7. NoneLost(ev) => NoneLost(rest) /\ (e.type = "NoExpose" => e.cells = {})
  BY <1>1, <1>2 DEF NoneLost
<1> QED BY <1>6, <1>7

-----------------------------------------------------------------------------
(* What the widget knows, as events come and go.                            *)
LEMMA VisibilityComes ==
    ASSUME NEW ev, NEW e, NEW more, Extends(ev, e, more), IsVisibility(e),
           NEW vis, NEW hidden \in BOOLEAN, hidden = (e.type = "Obscured")
    PROVE  VisKnown(more, vis, hidden)
<1>1. /\ Len(ev) \in Nat /\ DOMAIN more = 1 .. Len(ev) + 1 /\ more[Len(ev) + 1] = e
  BY ExtendedQueue
<1>2. PICK l : l = Len(ev) + 1
  OBVIOUS
<1>3. l \in Nat /\ DOMAIN more = 1 .. l /\ l \in DOMAIN more /\ more[l] = e
  BY <1>1, <1>2
<1>4. ASSUME NEW i \in DOMAIN more, LastVisibility(more, i)
      PROVE  i = l
  <2>1. ~(l > i)
    BY <1>3, <1>4 DEF LastVisibility
  <2> QED BY <2>1, <1>3
<1> QED BY <1>3, <1>4 DEF VisKnown

(* Other events change nothing of what is known.                            *)
LEMMA ExposureComes ==
    ASSUME NEW ev, NEW e, NEW more, Extends(ev, e, more), ~IsVisibility(e),
           NEW vis, NEW hidden, VisKnown(ev, vis, hidden)
    PROVE  VisKnown(more, vis, hidden)
<1>1. /\ Len(ev) \in Nat /\ DOMAIN ev = 1 .. Len(ev) /\ DOMAIN more = 1 .. Len(ev) + 1
      /\ more[Len(ev) + 1] = e /\ \A i \in 1 .. Len(ev) : more[i] = ev[i]
      /\ \A i \in DOMAIN more : i \in DOMAIN ev \/ i = Len(ev) + 1
  BY ExtendedQueue
<1>2. \A i \in DOMAIN ev : i \in DOMAIN more /\ more[i] = ev[i]
  BY <1>1
<1>3. (\A i \in DOMAIN more : ~IsVisibility(more[i])) => \A i \in DOMAIN ev : ~IsVisibility(ev[i])
  BY <1>2
<1>4. ASSUME NEW i \in DOMAIN more, LastVisibility(more, i)
      PROVE  i \in DOMAIN ev /\ LastVisibility(ev, i) /\ more[i] = ev[i]
  <2>1. i \in DOMAIN ev
    BY <1>1, <1>4 DEF LastVisibility
  <2> QED BY <2>1, <1>2, <1>4 DEF LastVisibility
<1> QED BY <1>3, <1>4 DEF VisKnown

(* The news is told when its event is handled.                              *)
LEMMA VisibilityGoes ==
    ASSUME NEW ev, NEW e, NEW rest, Follows(ev, e, rest), NEW vis, NEW hidden \in BOOLEAN,
           VisKnown(ev, vis, hidden), NEW now,
           now = IF IsVisibility(e) THEN e.type # "Obscured" ELSE vis
    PROVE  VisKnown(rest, now, hidden)
<1>1. /\ Len(rest) \in Nat /\ DOMAIN rest = 1 .. Len(rest) /\ DOMAIN ev = 1 .. Len(rest) + 1
      /\ ev[1] = e /\ \A i \in 1 .. Len(rest) : rest[i] = ev[i + 1]
      /\ \A i \in DOMAIN ev : i = 1 \/ (i - 1 \in DOMAIN rest /\ ev[i] = rest[i - 1])
  BY FollowingQueue
<1>2. ASSUME NEW i \in DOMAIN rest, LastVisibility(rest, i)
      PROVE  hidden = (rest[i].type = "Obscured")
  <2>1. PICK j : j = i + 1
    OBVIOUS
  <2>2. j \in DOMAIN ev /\ ev[j] = rest[i] /\ i \in Nat
    BY <2>1, <1>1
  <2>3. ASSUME NEW k \in DOMAIN ev, k > j
        PROVE  ~IsVisibility(ev[k])
    <3>1. k # 1 /\ k - 1 > i
      BY <2>1, <2>2, <2>3, <1>1
    <3>2. k - 1 \in DOMAIN rest /\ ev[k] = rest[k - 1]
      BY <3>1, <1>1
    <3> QED BY <3>1, <3>2, <1>2 DEF LastVisibility
  <2>4. LastVisibility(ev, j)
    BY <2>2, <2>3, <1>2 DEF LastVisibility
  <2> QED BY <2>2, <2>4 DEF VisKnown
<1>3. ASSUME \A i \in DOMAIN rest : ~IsVisibility(rest[i])
      PROVE  now = ~hidden
  <2>1. ASSUME NEW k \in DOMAIN ev, k # 1
        PROVE  ~IsVisibility(ev[k])
    BY <2>1, <1>1, <1>3
  <2>2. CASE IsVisibility(e)
    <3>1. 1 \in DOMAIN ev /\ \A k \in DOMAIN ev : k > 1 => k # 1
      BY <1>1
    <3>2. LastVisibility(ev, 1)
      BY <2>1, <2>2, <3>1, <1>1 DEF LastVisibility
    <3>3. hidden = (e.type = "Obscured")
      BY <3>1, <3>2, <1>1 DEF VisKnown
    <3> QED BY <3>3, <2>2
  <2>3. CASE ~IsVisibility(e)
    <3>1. \A k \in DOMAIN ev : ~IsVisibility(ev[k])
      BY <2>1, <2>3, <1>1
    <3> QED BY <3>1, <2>3 DEF VisKnown
  <2> QED BY <2>2, <2>3
<1> QED BY <1>2, <1>3 DEF VisKnown

(* A settled queue stays settled without its first event.                   *)
LEMMA SettledGoes ==
    ASSUME NEW ev, NEW e, NEW rest, Follows(ev, e, rest), NEW vis, Settled(ev, vis), NEW now,
           now = IF IsVisibility(e) THEN e.type # "Obscured" ELSE vis
    PROVE  Settled(rest, now) /\ e.type # "GraphicsExpose"
<1>1. /\ Len(rest) \in Nat /\ DOMAIN rest = 1 .. Len(rest) /\ DOMAIN ev = 1 .. Len(rest) + 1
      /\ ev[1] = e /\ \A i \in 1 .. Len(rest) : rest[i] = ev[i + 1]
  BY FollowingQueue
<1>2. 1 \in DOMAIN ev /\ e.type # "GraphicsExpose"
  BY <1>1 DEF Settled
<1>3. ASSUME NEW i \in DOMAIN rest
      PROVE  /\ rest[i].type # "GraphicsExpose"
             /\ rest[i].type = "NoExpose" => now /\ \A j \in DOMAIN rest : j < i => rest[j].type = "NoExpose"
  <2>1. PICK k : k = i + 1
    OBVIOUS
  <2>2. k \in DOMAIN ev /\ ev[k] = rest[i] /\ 1 < k
    BY <2>1, <1>1
  <2>3. ev[k].type # "GraphicsExpose"
    BY <2>2 DEF Settled
  <2>4. ASSUME rest[i].type = "NoExpose"
        PROVE  now /\ \A j \in DOMAIN rest : j < i => rest[j].type = "NoExpose"
    <3>1. vis /\ \A j \in DOMAIN ev : j < k => ev[j].type = "NoExpose"
      BY <2>2, <2>4 DEF Settled
    <3>2. e.type = "NoExpose"
      BY <3>1, <2>2, <1>1, <1>2
    <3>3. now
      BY <3>1, <3>2 DEF IsVisibility
    <3>4. ASSUME NEW j \in DOMAIN rest, j < i
          PROVE  rest[j].type = "NoExpose"
      <4>1. j + 1 \in DOMAIN ev /\ j + 1 < k /\ rest[j] = ev[j + 1]
        BY <3>4, <2>1, <1>1
      <4> QED BY <4>1, <3>1
    <3> QED BY <3>3, <3>4
  <2> QED BY <2>2, <2>3, <2>4
<1> QED BY <1>2, <1>3 DEF Settled

(* A queue whose last answer is taken is settled.                           *)
LEMMA AwaitedGoes ==
    ASSUME NEW ev, NEW e, NEW rest, Follows(ev, e, rest), NEW vis, NEW n \in {1, 2}, Awaited(ev, vis, n)
    PROVE  IsAnswer(e) /\ IF n = 1 THEN Settled(rest, vis) ELSE Awaited(rest, vis, 1)
<1>1. /\ Len(rest) \in Nat /\ DOMAIN rest = 1 .. Len(rest) /\ DOMAIN ev = 1 .. Len(rest) + 1
      /\ ev[1] = e /\ \A i \in 1 .. Len(rest) : rest[i] = ev[i + 1]
  BY FollowingQueue
<1>2. IsAnswer(e)
  <2>1. 1 \in DOMAIN ev /\ 1 <= n
    BY <1>1
  <2> QED BY <2>1, <1>1 DEF Awaited
<1>3. ASSUME NEW i \in DOMAIN rest
      PROVE  IsAnswer(rest[i]) <=> i <= n - 1
  <2>1. PICK k : k = i + 1
    OBVIOUS
  <2>2. k \in DOMAIN ev /\ rest[i] = ev[k] /\ (k <= n <=> i <= n - 1)
    BY <2>1, <1>1
  <2> QED BY <2>2 DEF Awaited
<1>4. CASE n = 1
  <2>1. \A i \in DOMAIN rest : ~IsAnswer(rest[i])
    BY <1>1, <1>3, <1>4
  <2> QED BY <2>1, <1>2, <1>4 DEF Settled, IsAnswer
<1>5. CASE n = 2
  <2>1. Len(ev) = Len(rest) + 1 /\ 2 <= Len(ev)
    BY <1>5 DEF Follows, Awaited
  <2>2. ~vis
    BY DEF Awaited
  <2>3. \A i \in DOMAIN rest : IsAnswer(rest[i]) <=> i <= 1
    BY <1>3, <1>5
  <2>4. 1 <= Len(rest)
    BY <2>1, <1>1
  <2> QED BY <2>2, <2>3, <2>4, <1>2, <1>5 DEF Awaited
<1> QED BY <1>4, <1>5

(* An event that answers nothing may come at any time.                      *)
LEMMA OtherComes ==
    ASSUME NEW ev, NEW e, NEW more, Extends(ev, e, more), ~IsAnswer(e), NEW vis
    PROVE  /\ Settled(ev, vis) => Settled(more, vis)
           /\ \A n \in {1, 2} : Awaited(ev, vis, n) => Awaited(more, vis, n)
<1>1. /\ Len(ev) \in Nat /\ DOMAIN ev = 1 .. Len(ev) /\ DOMAIN more = 1 .. Len(ev) + 1
      /\ more[Len(ev) + 1] = e /\ \A i \in 1 .. Len(ev) : more[i] = ev[i]
      /\ \A i \in DOMAIN more : i \in DOMAIN ev \/ i = Len(ev) + 1
      /\ ev \in Seq(EventType)
  BY ExtendedQueue
<1>2. ASSUME Settled(ev, vis), NEW i \in DOMAIN more
      PROVE  /\ more[i].type # "GraphicsExpose"
             /\ more[i].type = "NoExpose" => vis /\ \A j \in DOMAIN more : j < i => more[j].type = "NoExpose"
  <2>1. CASE i \in DOMAIN ev
    <3>1. more[i] = ev[i] /\ i <= Len(ev) /\ i \in Nat
      BY <2>1, <1>1
    <3>2. \A j \in DOMAIN more : j < i => j \in DOMAIN ev /\ more[j] = ev[j]
      BY <3>1, <1>1
    <3> QED BY <2>1, <3>1, <3>2, <1>2 DEF Settled
  <2>2. CASE i = Len(ev) + 1
    BY <2>2, <1>1 DEF IsAnswer
  <2> QED BY <2>1, <2>2, <1>1
<1>3. ASSUME NEW n \in {1, 2}, Awaited(ev, vis, n)
      PROVE  Awaited(more, vis, n)
  <2>1. n <= Len(ev) /\ Len(more) = Len(ev) + 1
    BY <1>3 DEF Awaited, Extends
  <2>2. ASSUME NEW i \in DOMAIN more
        PROVE  IsAnswer(more[i]) <=> i <= n
    <3>1. CASE i \in DOMAIN ev
      <4>1. more[i] = ev[i]
        BY <3>1, <1>1
      <4> QED BY <3>1, <4>1, <1>3 DEF Awaited
    <3>2. CASE i = Len(ev) + 1
      BY <3>2, <2>1, <1>1
    <3> QED BY <3>1, <3>2, <1>1
  <2>3. n <= Len(more) /\ ~vis
    BY <2>1, <1>1, <1>3 DEF Awaited
  <2> QED BY <2>2, <2>3 DEF Awaited
<1> QED BY <1>2, <1>3 DEF Settled

-----------------------------------------------------------------------------
(* The window is as drawn except for the cells of exposures in the queue,   *)
(* and the queue is one the widget deals with properly, when n answers are  *)
(* waited for.                                                              *)
QueueOf(u, n) ==
    /\ NoneLost(u.ev) /\ VisKnown(u.ev, u.vis, u.hidden)
    /\ IF n = 0 THEN Settled(u.ev, u.vis) ELSE Awaited(u.ev, u.vis, n)

PictureOf(u, n) == SegmentSound(u) /\ Good(u, ExposedIn(u.ev)) /\ QueueOf(u, n)

(* The program moves no highlighted segment, and handles what has happened  *)
(* to the window before it calls a method.                                  *)
Quiet == Tame /\ Late \subseteq {"NoExpose"}

TextSound ==
    /\ Sound(tw) /\ waits \in 0 .. 2 /\ restore \in BOOLEAN /\ ops \in Nat
    /\ Answered(tw.ev, waits)

TextInv == TextSound /\ (Quiet => PictureOf(tw, waits))

(* A plain change keeps the picture.                                        *)
LEMMA PictureKept ==
    ASSUME NEW u, NEW n, PictureOf(u, n), NEW v, v.ev = u.ev, v.vis = u.vis, v.hidden = u.hidden,
           SegmentSound(u) => SegmentSound(v) /\ \A D : Good(u, D) => Good(v, D)
    PROVE  PictureOf(v, n)
<1>1. SegmentSound(u) /\ Good(u, ExposedIn(u.ev)) /\ QueueOf(u, n)
  BY DEF PictureOf
<1>2. PICK D : D = ExposedIn(u.ev)
  OBVIOUS
<1>3. SegmentSound(v) /\ Good(v, D)
  BY <1>1, <1>2
<1> QED BY <1>1, <1>2, <1>3 DEF PictureOf, QueueOf

(* Good says nothing of the queue, nor of what the widget believes.         *)
LEMMA SamePicture ==
    ASSUME NEW u, IsText(u), NEW v, IsText(v), v.act = u.act, SameText(u, v), SameCursor(u, v),
           v.nr = u.nr, v.phase = u.phase, NEW r \in Rows, NEW k \in Cols
    PROVE  Expected(v, <<r, k>>) = Expected(u, <<r, k>>)
<1>1. At(v, r) = At(u, r)
  BY DEF At, SameText
<1>2. PICK ch : ch = CharAt(u, r, k)
  OBVIOUS
<1>3. CharAt(v, r, k) = ch
  BY <1>1, <1>2 DEF CharAt
<1>4. Look(v, ch, r, k) = Look(u, ch, r, k)
  BY DEF Look
<1>5. CursorAt(v, r, k) <=> CursorAt(u, r, k)
  BY DEF CursorAt, SameCursor
<1>6. Expected(v, <<r, k>>) = IF CursorAt(v, r, k) THEN CursorCell ELSE Look(v, CharAt(v, r, k), r, k)
  BY ExpectedIs
<1>7. Expected(u, <<r, k>>) = IF CursorAt(u, r, k) THEN CursorCell ELSE Look(u, CharAt(u, r, k), r, k)
  BY ExpectedIs
<1> QED BY <1>2, <1>3, <1>4, <1>5, <1>6, <1>7

(* The same picture is as good.                                             *)
LEMMA GoodWhatever ==
    ASSUME NEW u, IsText(u), NEW v, IsText(v), v.win = u.win, v.act = u.act, SameText(u, v),
           SameCursor(u, v), v.nr = u.nr, v.hidden = u.hidden, v.phase = u.phase, NEW D, Good(u, D)
    PROVE  Good(v, D)
<1>1. ASSUME NEW r \in Rows, NEW k \in Cols
      PROVE  GoodAt(v, D, {}, r, k)
  <2>1. GoodAt(u, D, {}, r, k)
    BY DEF Good, GoodBut
  <2>2. Expected(v, <<r, k>>) = Expected(u, <<r, k>>)
    BY SamePicture
  <2>3. VisibleAt(v, r, k) <=> VisibleAt(u, r, k)
    BY DEF VisibleAt
  <2> QED BY <2>1, <2>2, <2>3 DEF GoodAt
<1> QED BY <1>1 DEF Good, GoodBut

(* Changing the queue ...                                                   *)
LEMMA QueueChanged ==
    ASSUME NEW u, Sound(u), NEW x \in Seq(EventType), NEW v, v = [u EXCEPT !.ev = x]
    PROVE  /\ Sound(v) /\ v.ev = x /\ v.vis = u.vis /\ v.hidden = u.hidden /\ v.on = u.on
           /\ SegmentSound(u) => SegmentSound(v) /\ \A D : Good(u, D) => Good(v, D)
<1>1. IsText(u)
  BY DEF Sound
<1>2. /\ IsText(v) /\ v.ev = x /\ v.win = u.win /\ v.act = u.act
      /\ SameText(u, v) /\ SameCursor(u, v) /\ SameFrame(u, v)
  BY <1>1, EventsAssigned
<1>3. v.nr = u.nr /\ v.hidden = u.hidden /\ v.phase = u.phase /\ v.vis = u.vis /\ v.on = u.on
  BY <1>2 DEF SameFrame, SameCursor
<1>4. Sound(v)
  BY <1>2, <1>3, SameTextSound
<1>5. SegmentSound(u) => SegmentSound(v)
  BY <1>2, SameSegment DEF SameText
<1>6. \A D : Good(u, D) => Good(v, D)
  BY <1>1, <1>2, <1>3, GoodWhatever
<1> QED BY <1>2, <1>3, <1>4, <1>5, <1>6

(* ... or the belief leaves the picture as it is.                           *)
LEMMA BeliefChanged ==
    ASSUME NEW u, Sound(u), NEW x \in BOOLEAN, NEW v, v = [u EXCEPT !.vis = x]
    PROVE  /\ Sound(v) /\ v.ev = u.ev /\ v.vis = x /\ v.hidden = u.hidden /\ v.on = u.on
           /\ SegmentSound(u) => SegmentSound(v) /\ \A D : Good(u, D) => Good(v, D)
<1>1. IsText(u)
  BY DEF Sound
<1>2. /\ IsText(v) /\ v.vis = x /\ v.win = u.win /\ v.act = u.act /\ v.ev = u.ev
      /\ v.nr = u.nr /\ v.hidden = u.hidden /\ v.phase = u.phase
      /\ SameText(u, v) /\ SameCursor(u, v)
  BY <1>1, VisAssigned
<1>3. Sound(v)
  BY <1>2, SameTextSound
<1>4. SegmentSound(u) => SegmentSound(v)
  BY <1>2, SameSegment DEF SameText
<1>5. \A D : Good(u, D) => Good(v, D)
  BY <1>1, <1>2, GoodWhatever
<1> QED BY <1>2, <1>3, <1>4, <1>5 DEF SameCursor

-----------------------------------------------------------------------------
(* A method, up to its wait.                                                *)
MethodHyp(u) == Quiet /\ SegmentSound(u) /\ Good(u, {})

(* A plain change is a method that asks for no copy.                        *)
LEMMA PlainMethod ==
    ASSUME NEW u, NEW v, Plain(u, v)
    PROVE  MethodDone(u, v, {}) /\ (MethodHyp(u) => GoodEnd(v, {}))
<1>1. /\ Sound(v) /\ SameFrame(u, v) /\ v.ev = u.ev
      /\ SegmentSound(u) => SegmentSound(v) /\ \A D : Good(u, D) => Good(v, D)
  BY DEF Plain
<1> QED BY <1>1 DEF MethodDone, GoodEnd, MethodHyp

(* When a method is called, nothing is to be drawn and the belief is right. *)
LEMMA ReadyQueue ==
    ASSUME NEW u, IsText(u), Quiet, PictureOf(u, 0), \A i \in DOMAIN u.ev : u.ev[i].type \in Late
    PROVE  /\ MethodHyp(u) /\ ExposedIn(u.ev) = {} /\ u.vis = ~u.hidden
           /\ \A i \in DOMAIN u.ev : u.ev[i].type = "NoExpose"
<1>1. \A i \in DOMAIN u.ev : u.ev[i].type = "NoExpose"
  BY DEF Quiet
<1>2. /\ SegmentSound(u) /\ Good(u, ExposedIn(u.ev))
      /\ NoneLost(u.ev) /\ VisKnown(u.ev, u.vis, u.hidden)
  BY DEF PictureOf, QueueOf
<1>3. ExposedIn(u.ev) = {}
  <2>1. \A i \in DOMAIN u.ev : u.ev[i].cells = {}
    BY <1>1, <1>2 DEF NoneLost
  <2> QED BY <2>1 DEF ExposedIn
<1>4. \A i \in DOMAIN u.ev : ~IsVisibility(u.ev[i])
  BY <1>1 DEF IsVisibility
<1>5. u.vis = ~u.hidden
  BY <1>2, <1>4 DEF VisKnown
<1> QED BY <1>1, <1>2, <1>3, <1>5 DEF MethodHyp

WaitsFor(u, v) == IF v.vis THEN 0 ELSE Len(v.ev) - Len(u.ev)

(* A method waits at most twice, for answers that are there.                *)
LEMMA MethodWaits ==
    ASSUME NEW u, Sound(u), NEW v, NEW lost, MethodDone(u, v, lost), NEW n, n = WaitsFor(u, v)
    PROVE  n \in 0 .. 2 /\ Answered(v.ev, n)
<1>1. PICK ev : ev = u.ev
  OBVIOUS
<1>2. ev \in Seq(EventType) /\ Len(ev) \in Nat
  BY <1>1 DEF Sound, IsText
<1>3. Answered(v.ev, 0)
  BY DEF Answered
<1>4. CASE v.ev = u.ev
  <2>1. n = 0
    BY <1>1, <1>2, <1>4 DEF WaitsFor
  <2> QED BY <2>1, <1>3
<1>5. CASE AnswerOf(u, v, lost)
  <2>1. PICK e, more : e = CopyAnswer(lost) /\ more = v.ev
    OBVIOUS
  <2>2. lost \in SUBSET Cells /\ more = Append(ev, e)
    BY <1>1, <1>5, <2>1 DEF AnswerOf
  <2>3. e \in EventType /\ IsAnswer(e)
    BY <2>1, <2>2, AnswerIsEvent DEF CopyAnswer, IsAnswer
  <2>4. Extends(ev, e, more)
    BY <2>2, <2>3, <1>2, EventAppended
  <2>5. Answered(more, 1)
    BY <2>3, <2>4, ExtendedExposes
  <2>6. Len(more) = Len(ev) + 1
    BY <2>4 DEF Extends
  <2>7. n \in {0, 1}
    BY <2>1, <2>6, <1>1, <1>2 DEF WaitsFor
  <2> QED BY <2>1, <2>5, <2>7, <1>3
<1>6. CASE TwoAnswersOf(u, v, lost)
  <2>1. PICK one, two \in SUBSET Cells : v.ev = Append(Append(ev, CopyAnswer(one)), CopyAnswer(two))
    BY <1>1, <1>6 DEF TwoAnswersOf
  <2>2. PICK d, e, mid, more : /\ d = CopyAnswer(one) /\ e = CopyAnswer(two)
                               /\ mid = Append(ev, d) /\ more = v.ev
    OBVIOUS
  <2>3. d \in EventType /\ IsAnswer(d) /\ e \in EventType /\ IsAnswer(e)
    BY <2>2, AnswerIsEvent DEF CopyAnswer, IsAnswer
  <2>4. Extends(ev, d, mid)
    BY <2>2, <2>3, <1>2, EventAppended
  <2>5. mid \in Seq(EventType) /\ more = Append(mid, e)
    BY <2>1, <2>2, <2>4 DEF Extends
  <2>6. Extends(mid, e, more)
    BY <2>3, <2>5, EventAppended
  <2>7. Answered(more, 2)
    BY <2>3, <2>4, <2>6, ExtendedExposes
  <2>8. Len(more) = Len(ev) + 2
    BY <2>4, <2>6, <1>2 DEF Extends
  <2>9. n \in {0, 2}
    BY <2>2, <2>8, <1>1, <1>2 DEF WaitsFor
  <2> QED BY <2>2, <2>7, <2>9, <1>3
<1> QED BY <1>4, <1>5, <1>6 DEF MethodDone

AllNoExpose(ev) == \A i \in DOMAIN ev : ev[i].type = "NoExpose"
AllAnswers(ev) == \A i \in DOMAIN ev : IsAnswer(ev[i])

(* What another answer adds to the queue.                                   *)
LEMMA AnswerAdded ==
    ASSUME NEW ev \in Seq(EventType), NEW lost \in SUBSET Cells, NEW vis, NEW hidden,
           NoneLost(ev), VisKnown(ev, vis, hidden), NEW more, more = Append(ev, CopyAnswer(lost))
    PROVE  /\ more \in Seq(EventType) /\ Len(more) = Len(ev) + 1
           /\ NoneLost(more) /\ VisKnown(more, vis, hidden)
           /\ ExposedIn(more) = ExposedIn(ev) \cup lost
           /\ AllNoExpose(ev) /\ lost = {} => AllNoExpose(more)
           /\ AllAnswers(ev) => AllAnswers(more)
<1>1. PICK e : e = CopyAnswer(lost)
  OBVIOUS
<1>2. e \in EventType
  BY <1>1, AnswerIsEvent
<1>3. /\ e.cells = lost /\ IsAnswer(e) /\ IsExposure(e) /\ ~IsVisibility(e)
      /\ e.type = "NoExpose" <=> lost = {}
  BY <1>1 DEF CopyAnswer, IsAnswer, IsExposure, IsVisibility
<1>4. Extends(ev, e, more)
  BY <1>1, <1>2, EventAppended
<1>5. more \in Seq(EventType) /\ Len(more) = Len(ev) + 1
  BY <1>4 DEF Extends
<1>6. ExposedIn(more) = ExposedIn(ev) \cup ExposedBy(e)
  BY <1>4, ExtendedExposes
<1>7. ExposedBy(e) = lost
  BY <1>3 DEF ExposedBy
<1>8. NoneLost(more)
  BY <1>3, <1>4, ExtendedExposes
<1>9. VisKnown(more, vis, hidden)
  BY <1>3, <1>4, ExposureComes
<1>10. /\ DOMAIN ev = 1 .. Len(ev) /\ more[Len(ev) + 1] = e /\ \A i \in 1 .. Len(ev) : more[i] = ev[i]
       /\ \A i \in DOMAIN more : i \in DOMAIN ev \/ i = Len(ev) + 1
  BY ONLY <1>4, ExtendedQueue
<1>11. \A i \in DOMAIN more : (i \in DOMAIN ev /\ more[i] = ev[i]) \/ more[i] = e
  BY <1>10
<1>12. AllNoExpose(ev) /\ lost = {} => AllNoExpose(more)
  BY <1>3, <1>11 DEF AllNoExpose
<1>13. AllAnswers(ev) => AllAnswers(more)
  BY <1>3, <1>11 DEF AllAnswers
<1> QED BY <1>5, <1>6, <1>7, <1>8, <1>9, <1>12, <1>13

(* The copies, k of them, have been answered, and nothing else is queued.   *)
AllAnswered(v, lost, k) ==
    /\ NoneLost(v.ev) /\ VisKnown(v.ev, v.vis, v.hidden) /\ ExposedIn(v.ev) = lost
    /\ v.vis => AllNoExpose(v.ev)
    /\ ~v.vis => Len(v.ev) = k /\ AllAnswers(v.ev)

(* The picture then.                                                        *)
LEMMA AnswersPicture ==
    ASSUME NEW v, NEW lost, SegmentSound(v), Good(v, lost), v.ev \in Seq(EventType),
           NEW k \in {1, 2}, AllAnswered(v, lost, k)
    PROVE  PictureOf(v, IF v.vis THEN 0 ELSE k)
<1>1. PICK vis, more : vis = v.vis /\ more = v.ev
  OBVIOUS
<1>2. /\ NoneLost(more) /\ VisKnown(more, vis, v.hidden) /\ ExposedIn(more) = lost
      /\ vis => AllNoExpose(more)
      /\ ~vis => Len(more) = k /\ AllAnswers(more)
      /\ more \in Seq(EventType)
  BY <1>1 DEF AllAnswered
<1>3. CASE vis
  <2>1. Settled(more, vis)
    BY <1>2, <1>3 DEF Settled, AllNoExpose
  <2> QED BY <2>1, <1>1, <1>2, <1>3 DEF PictureOf, QueueOf
<1>4. CASE ~vis
  <2>1. \A i \in DOMAIN more : i <= k
    BY <1>2, <1>4
  <2>2. Awaited(more, vis, k)
    BY <2>1, <1>2, <1>4 DEF Awaited, AllAnswers
  <2> QED BY <2>2, <1>1, <1>2, <1>4 DEF PictureOf, QueueOf
<1> QED BY <1>3, <1>4

(* The picture when it waits or returns.                                    *)
LEMMA MethodPicture ==
    ASSUME NEW u, Sound(u), Quiet, PictureOf(u, 0), \A i \in DOMAIN u.ev : u.ev[i].type \in Late,
           NEW v, NEW lost, MethodDone(u, v, lost), MethodHyp(u) => GoodEnd(v, lost),
           NEW n, n = WaitsFor(u, v)
    PROVE  PictureOf(v, n)
<1>1. /\ MethodHyp(u) /\ ExposedIn(u.ev) = {} /\ u.vis = ~u.hidden
      /\ AllNoExpose(u.ev)
  BY ReadyQueue DEF Sound, AllNoExpose
<1>2. SegmentSound(v) /\ Good(v, lost) /\ Sound(v) /\ v.vis = u.vis /\ v.hidden = u.hidden
  BY <1>1 DEF GoodEnd, MethodDone, SameFrame
<1>3. PICK ev, more, vis, hidden : ev = u.ev /\ more = v.ev /\ vis = u.vis /\ hidden = u.hidden
  OBVIOUS
<1>4. ev \in Seq(EventType) /\ Len(ev) \in Nat /\ hidden \in BOOLEAN /\ vis \in BOOLEAN
  BY <1>3 DEF Sound, IsText
<1>5. NoneLost(ev) /\ VisKnown(ev, vis, hidden) /\ Settled(ev, vis)
  BY <1>3 DEF PictureOf, QueueOf
<1>6. ~vis => Len(ev) = 0 /\ AllAnswers(ev)
  <2> SUFFICES ASSUME ~vis
               PROVE  Len(ev) = 0 /\ AllAnswers(ev)
    OBVIOUS
  <2>1. DOMAIN ev = {}
    BY <1>1, <1>3, <1>5 DEF Settled, AllNoExpose
  <2> QED BY <2>1, <1>4 DEF AllAnswers
<1>7. CASE v.ev = u.ev /\ lost = {}
  <2>1. n = 0
    BY <1>3, <1>4, <1>7 DEF WaitsFor
  <2> QED BY <2>1, <1>1, <1>2, <1>3, <1>5, <1>7 DEF PictureOf, QueueOf
<1>8. SegmentSound(v) /\ Good(v, lost) /\ vis = v.vis /\ more = v.ev /\ hidden = v.hidden
  BY <1>2, <1>3
<1>9. CASE AnswerOf(u, v, lost)
  <2>1. lost \in SUBSET Cells /\ more = Append(ev, CopyAnswer(lost)) /\ (vis => lost = {})
    BY <1>1, <1>3, <1>9 DEF AnswerOf
  <2>2. /\ more \in Seq(EventType) /\ Len(more) = Len(ev) + 1
        /\ NoneLost(more) /\ VisKnown(more, vis, hidden)
        /\ ExposedIn(more) = ExposedIn(ev) \cup lost
        /\ AllNoExpose(ev) /\ lost = {} => AllNoExpose(more)
        /\ AllAnswers(ev) => AllAnswers(more)
    BY ONLY <2>1, <1>4, <1>5, AnswerAdded
  <2>3. PICK k : k = 1
    OBVIOUS
  <2>4. ExposedIn(more) = lost
    BY <2>2, <1>1, <1>3
  <2>5. vis => AllNoExpose(more)
    BY <2>1, <2>2, <1>1, <1>3
  <2>6. ~vis => Len(more) = k /\ AllAnswers(more)
    BY <2>2, <2>3, <1>6
  <2>7. n = (IF vis THEN 0 ELSE k)
    <3>1. Len(more) - Len(ev) = k
      BY ONLY <2>2, <2>3, <1>4
    <3> QED BY <3>1, <1>2, <1>3 DEF WaitsFor
  <2>8. AllAnswered(v, lost, k)
    BY <2>2, <2>4, <2>5, <2>6, <1>8 DEF AllAnswered
  <2>9. k \in {1, 2} /\ v.ev \in Seq(EventType) /\ n = IF v.vis THEN 0 ELSE k
    BY <2>2, <2>3, <2>7, <1>8
  <2>10. PictureOf(v, IF v.vis THEN 0 ELSE k)
    BY ONLY <2>8, <2>9, <1>8, AnswersPicture
  <2> QED BY <2>9, <2>10
<1>10. CASE TwoAnswersOf(u, v, lost)
  <2>1. PICK one, two \in SUBSET Cells :
            /\ more = Append(Append(ev, CopyAnswer(one)), CopyAnswer(two))
            /\ lost = one \cup two /\ (vis => lost = {})
    BY <1>1, <1>3, <1>10 DEF TwoAnswersOf
  <2>2. PICK mid : mid = Append(ev, CopyAnswer(one))
    OBVIOUS
  <2>3. /\ mid \in Seq(EventType) /\ Len(mid) = Len(ev) + 1
        /\ NoneLost(mid) /\ VisKnown(mid, vis, hidden)
        /\ ExposedIn(mid) = ExposedIn(ev) \cup one
        /\ AllNoExpose(ev) /\ one = {} => AllNoExpose(mid)
        /\ AllAnswers(ev) => AllAnswers(mid)
    BY ONLY <2>2, <1>4, <1>5, AnswerAdded
  <2>4. more = Append(mid, CopyAnswer(two))
    BY <2>1, <2>2
  <2>5. /\ more \in Seq(EventType) /\ Len(more) = Len(mid) + 1
        /\ NoneLost(more) /\ VisKnown(more, vis, hidden)
        /\ ExposedIn(more) = ExposedIn(mid) \cup two
        /\ AllNoExpose(mid) /\ two = {} => AllNoExpose(more)
        /\ AllAnswers(mid) => AllAnswers(more)
    BY ONLY <2>3, <2>4, AnswerAdded
  <2>6. PICK k : k = 2
    OBVIOUS
  <2>7. ExposedIn(more) = lost
    BY <2>1, <2>3, <2>5, <1>1, <1>3
  <2>8. vis => AllNoExpose(more)
    <3>1. vis => one = {} /\ two = {}
      BY <2>1
    <3> QED BY <3>1, <2>3, <2>5, <1>1, <1>3
  <2>9. ~vis => Len(more) = k /\ AllAnswers(more)
    BY <2>3, <2>5, <2>6, <1>6
  <2>10. n = (IF vis THEN 0 ELSE k)
    <3>1. Len(more) - Len(ev) = k
      BY ONLY <2>3, <2>5, <2>6, <1>4
    <3> QED BY <3>1, <1>2, <1>3 DEF WaitsFor
  <2>11. AllAnswered(v, lost, k)
    BY <2>5, <2>7, <2>8, <2>9, <1>8 DEF AllAnswered
  <2>12. k \in {1, 2} /\ v.ev \in Seq(EventType) /\ n = IF v.vis THEN 0 ELSE k
    BY <2>5, <2>6, <2>10, <1>8
  <2>13. PictureOf(v, IF v.vis THEN 0 ELSE k)
    BY ONLY <2>11, <2>12, <1>8, AnswersPicture
  <2> QED BY <2>12, <2>13
<1> QED BY <1>7, <1>9, <1>10 DEF MethodDone

(* A method's requests keep the invariant.                                  *)
LEMMA MethodRequested ==
    ASSUME TextInv, Ready, NEW v, NEW lost, MethodDone(tw, v, lost), MethodHyp(tw) => GoodEnd(v, lost),
           NEW later \in BOOLEAN, Requested(v, later)
    PROVE  TextInv' /\ ops' # ops
<1>1. PICK u, n : u = tw /\ n = WaitsFor(u, v)
  OBVIOUS
<1>2. Sound(u) /\ Sound(v) /\ v.on \in BOOLEAN /\ waits = 0 /\ ops \in Nat
  BY <1>1 DEF TextInv, TextSound, MethodDone, Ready, Sound, IsText
<1>3. waits' = n /\ ops' = ops + 1
  BY <1>1 DEF Requested, WaitsFor, Copies
<1>4. n \in 0 .. 2 /\ Answered(v.ev, n)
  <2>1. MethodDone(u, v, lost)
    BY <1>1
  <2> QED BY <2>1, <1>1, <1>2, MethodWaits
<1>5. Quiet => PictureOf(v, n)
  <2> SUFFICES ASSUME Quiet
               PROVE  PictureOf(v, n)
    OBVIOUS
  <2>1. PictureOf(u, 0)
    BY <1>1, <1>2 DEF TextInv
  <2>2. \A i \in DOMAIN u.ev : u.ev[i].type \in Late
    BY <1>1 DEF Ready
  <2>3. MethodDone(u, v, lost) /\ (MethodHyp(u) => GoodEnd(v, lost))
    BY <1>1
  <2> QED BY <2>1, <2>2, <2>3, <1>1, <1>2, MethodPicture
<1>6. restore' \in BOOLEAN
  BY DEF Requested
<1>7. CASE n = 0
  <2>1. PICK on, z : on = (v.on \/ later) /\ z = CursorTo(v, on)
    OBVIOUS
  <2>2. tw' = z /\ on \in BOOLEAN
    BY <2>1, <1>2, <1>3, <1>7 DEF Requested
  <2>3. Plain(v, z)
    <3>1. on \in BOOLEAN /\ z = CursorTo(v, on)
      BY <2>1, <2>2
    <3> QED BY <3>1, <1>2, CursorPlain
  <2>4. Sound(z)
    BY <2>3 DEF Plain
  <2>5. Quiet => PictureOf(z, n)
    <3>1. z.ev = v.ev /\ z.vis = v.vis /\ z.hidden = v.hidden
          /\ (SegmentSound(v) => SegmentSound(z) /\ \A D : Good(v, D) => Good(z, D))
      BY <2>3 DEF Plain, SameFrame
    <3> QED BY <3>1, <1>5, PictureKept
  <2>6. Answered(z.ev, n)
    BY <1>7 DEF Answered
  <2> QED BY <2>2, <2>4, <2>5, <2>6, <1>2, <1>3, <1>4, <1>6 DEF TextInv, TextSound
<1>8. CASE n # 0
  <2>1. tw' = v
    BY <1>3, <1>8 DEF Requested
  <2> QED BY <2>1, <1>2, <1>3, <1>4, <1>5, <1>6 DEF TextInv, TextSound
<1> QED BY <1>4, <1>7, <1>8

-----------------------------------------------------------------------------
(* v is what a method makes of u, up to its wait.                           *)
MethodBy(u, v) == \E lost : MethodDone(u, v, lost) /\ (MethodHyp(u) => GoodEnd(v, lost))

(* The same without naming what its copy has lost.                          *)
LEMMA RequestedBy ==
    ASSUME TextInv, Ready, NEW v, MethodBy(tw, v), NEW later \in BOOLEAN, Requested(v, later)
    PROVE  TextInv' /\ ops' # ops
<1>1. PICK lost : MethodDone(tw, v, lost) /\ (MethodHyp(tw) => GoodEnd(v, lost))
  BY DEF MethodBy
<1> QED BY <1>1, MethodRequested

(* A plain change is a method.                                              *)
LEMMA PlainBy ==
    ASSUME NEW u, NEW v, Plain(u, v)
    PROVE  MethodBy(u, v)
  BY PlainMethod DEF MethodBy

(* What is done before and after, of no consequence.                        *)
LEMMA ByAfterPlain ==
    ASSUME NEW u, NEW x, Plain(u, x), NEW v, NEW lost, MethodDone(x, v, lost),
           MethodHyp(x) => GoodEnd(v, lost)
    PROVE  MethodBy(u, v)
<1>1. MethodDone(u, v, lost)
  BY PlainDone
<1>2. /\ SegmentSound(u) => SegmentSound(x)
      /\ SegmentSound(u) => \A D : Good(u, D) => Good(x, D)
  BY DEF Plain
<1>3. MethodHyp(u) => MethodHyp(x)
  BY <1>2 DEF MethodHyp
<1> QED BY <1>1, <1>3 DEF MethodBy

(* The row a program leaves alone when Tame.                                *)
LEMMA HeldAway ==
    ASSUME TextInv, NEW row \in Int, Holds(row), Quiet
    PROVE  ActiveAway(tw, row, 1)
<1>1. tw.act.row \in Int
  BY Numbers DEF TextInv, TextSound, Sound, IsText, SegmentType
<1> QED BY <1>1 DEF Holds, Quiet, ActiveAway, InRows

(* Clear.                                                                   *)
LEMMA ClearStep ==
    ASSUME TextInv, NEW a \in Areas, Clear(a)
    PROVE  TextInv' /\ ops' # ops
<1>1. PICK u, row, col, nrows, ncols :
        u = tw /\ row = a[1] /\ col = a[2] /\ nrows = a[3] /\ ncols = a[4]
  OBVIOUS
<1>2. row \in Nat /\ col \in Nat /\ nrows \in Nat /\ ncols \in Nat
  BY <1>1, MethodAssumption
<1>3. PICK v : v = ClearArea(u, row, col, nrows, ncols)
  OBVIOUS
<1>4. Sound(u)
  BY <1>1 DEF TextInv, TextSound
<1>5. Plain(u, v)
  BY <1>2, <1>3, <1>4, AreaCleared
<1>6. MethodBy(tw, v)
  BY <1>1, <1>5, PlainBy
<1>7. PICK later : later = FALSE
  OBVIOUS
<1>8. Ready /\ Requested(v, later) /\ later \in BOOLEAN
  BY <1>1, <1>3, <1>7 DEF Clear
<1>9. later \in BOOLEAN
  BY <1>8
<1> QED BY <1>6, <1>8, <1>9, RequestedBy

(* ScrollArea, from the arguments it is called with.                        *)
LEMMA ScrollBy ==
    ASSUME NEW u, Sound(u), NEW row0 \in Nat, NEW col0 \in Nat, NEW nrows0 \in Nat, NEW ncols0 \in Nat,
           NEW dr \in Int, NEW dc \in Int, Fits(row0, u.nr, dr), Fits(col0, NCols, dc),
           NEW row, row = FirstOf(row0, nrows0, u.nr, dr),
           NEW nrows, nrows = NumberOf(row0, nrows0, u.nr, dr),
           NEW col, col = FirstOf(col0, ncols0, NCols, dc),
           MethodHyp(u) => ScrollHyp(u, row, nrows, dr, col),
           NEW v, v = ScrollArea(u, row0, col0, nrows0, ncols0, dr, dc)
    PROVE  MethodBy(u, v)
<1>1. \E lost : /\ MethodDone(u, v, lost)
                /\ ScrollHyp(u, row, nrows, dr, col) => GoodEnd(v, lost)
  BY AreaScrolled
<1> QED BY <1>1 DEF MethodBy

(* Scroll.                                                                  *)
LEMMA ScrollStep ==
    ASSUME TextInv, NEW m \in Moves, Scroll(m)
    PROVE  TextInv' /\ ops' # ops
<1>1. PICK u, row0, col0, nrows0, ncols0, dr, dc :
        /\ u = tw /\ row0 = m[1] /\ col0 = m[2] /\ nrows0 = m[3] /\ ncols0 = m[4]
        /\ dr = m[5] /\ dc = m[6]
  OBVIOUS
<1>2. /\ row0 \in Nat /\ col0 \in Nat /\ nrows0 \in Nat /\ ncols0 \in Nat /\ dr \in Int /\ dc \in Int
      /\ Fits(col0, NCols, dc) /\ \A n \in Sizes : Fits(row0, n, dr)
  BY <1>1, MethodAssumption, SizesAssumption
<1>3. Sound(u) /\ u.nr \in Sizes /\ u.nr \in Nat /\ u.act \in SegmentType
  BY <1>1, Numbers DEF TextInv, TextSound, Sound, IsText
<1>4. Fits(row0, u.nr, dr)
  BY <1>2, <1>3
<1>5. PICK row, nrows, col, v :
        /\ row = FirstOf(row0, nrows0, u.nr, dr) /\ nrows = NumberOf(row0, nrows0, u.nr, dr)
        /\ col = FirstOf(col0, ncols0, NCols, dc) /\ v = ScrollArea(u, row0, col0, nrows0, ncols0, dr, dc)
  OBVIOUS
<1>6. ClippedIn(row0, row, nrows, u.nr, dr)
  BY <1>2, <1>3, <1>4, <1>5, RangeClipped DEF FirstOf, NumberOf
<1>7. MethodHyp(u) => ScrollHyp(u, row, nrows, dr, col)
  <2> SUFFICES ASSUME MethodHyp(u)
               PROVE  ScrollHyp(u, row, nrows, dr, col)
    OBVIOUS
  <2>1. Quiet /\ Tame /\ SegmentSound(u) /\ Good(u, {})
    BY DEF MethodHyp, Quiet
  <2>2. ActiveAway(u, row, nrows)
    <3> SUFFICES ASSUME u.act.on, InRows(u.act.row, row, nrows)
                 PROVE  FALSE
      BY DEF ActiveAway
    <3>1. u.act.row \in Rows /\ u.act.row \in Nat
      BY <1>3, Numbers DEF SegmentType
    <3>2. u.act.row >= row0
      BY <3>1, <1>2, <1>6 DEF ClippedIn, InRows
    <3>3. Holds(u.act.row)
      BY <3>1, <3>2, <1>1 DEF Scroll
    <3> QED BY <3>3, <2>1, <1>1 DEF Holds
  <2>3. dr = 0 \/ RowsReach(u, row, nrows, col)
    <3> SUFFICES ASSUME dr # 0
                 PROVE  RowsReach(u, row, nrows, col)
      OBVIOUS
    <3>1. Reaches(m)
      BY <2>1 DEF Scroll
    <3>2. \A r \in row .. row + nrows - 1 : col <= At(u, r).n
      BY <3>1, <1>1, <1>5 DEF Reaches, FirstOf, NumberOf
    <3>3. \A r \in Rows : InRows(r, row, nrows) => r \in row .. row + nrows - 1
      BY <1>6, Numbers DEF InRows, ClippedIn
    <3> QED BY <3>2, <3>3 DEF RowsReach
  <2>4. ~Smears(u, row, nrows, dr)
    BY <2>1, <1>1, <1>5 DEF Scroll, FirstOf, NumberOf
  <2> QED BY <2>1, <2>2, <2>3, <2>4 DEF ScrollHyp
<1>8. MethodBy(u, v)
  BY <1>2, <1>3, <1>4, <1>5, <1>7, ScrollBy
<1>9. PICK later : later = FALSE
  OBVIOUS
<1>10. Ready /\ Requested(v, later)
  BY <1>1, <1>5, <1>9 DEF Scroll
<1>11. later \in BOOLEAN /\ MethodBy(tw, v)
  BY <1>1, <1>8, <1>9
<1> QED BY <1>10, <1>11, RequestedBy

(* A range of one row that stays where it is.                               *)
LEMMA OneRow ==
    ASSUME NEW num \in Nat, NEW row \in Nat, row < num
    PROVE  FirstOf(row, 1, num, 0) = row /\ NumberOf(row, 1, num, 0) = 1 /\ Fits(row, num, 0)
<1>1. Most(Least(row, num), 0) = row
  BY DEF Least, Most
<1>2. Least(1, num - row) = 1
  BY DEF Least
<1>3. Clipped(row, 1, num, 0) = <<row, IF row + 1 + 0 >= num THEN num - (row + 0) ELSE 1>>
  BY <1>1, <1>2 DEF Clipped
<1>4. (IF row + 1 + 0 >= num THEN num - (row + 0) ELSE 1) = 1
  OBVIOUS
<1>5. Fits(row, num, 0)
  BY DEF Fits, Least
<1> QED BY <1>3, <1>4, <1>5 DEF FirstOf, NumberOf

(* DeleteCharsAtCursor.                                                     *)
LEMMA DeleteStep ==
    ASSUME TextInv, NEW n \in 1 .. NCols, DeleteCharsAtCursor(n)
    PROVE  TextInv' /\ ops' # ops
<1>1. PICK u, row0, col0, one, zero, dc :
        u = tw /\ row0 = tw.crow /\ col0 = tw.ccol + n /\ one = 1 /\ zero = 0 /\ dc = -n
  OBVIOUS
<1>2. /\ Sound(u) /\ u.nr \in Nat /\ u.crow \in Nat /\ u.crow < u.nr /\ u.ccol \in Nat
      /\ u.act \in SegmentType /\ NCols \in Nat
  <2>1. Sound(u)
    BY <1>1 DEF TextInv, TextSound
  <2>2. IsText(u)
    BY <2>1 DEF Sound
  <2>3. u.nr \in Nat /\ u.crow \in 0 .. u.nr - 1 /\ u.ccol \in Nat /\ u.act \in SegmentType
    BY <2>2, Numbers DEF IsText
  <2> QED BY <2>1, <2>3, Numbers
<1>3. row0 \in Nat /\ col0 \in Nat /\ one \in Nat /\ zero \in Nat /\ zero \in Int /\ dc \in Int
  BY <1>1, <1>2
<1>4. PICK row, nrows, col, v :
        /\ row = FirstOf(row0, one, u.nr, zero) /\ nrows = NumberOf(row0, one, u.nr, zero)
        /\ col = FirstOf(col0, zero, NCols, dc) /\ v = ScrollArea(u, row0, col0, one, zero, zero, dc)
  OBVIOUS
<1>5. row = row0 /\ nrows = 1 /\ Fits(row0, u.nr, zero)
  <2>1. PICK num : num = u.nr
    OBVIOUS
  <2>2. num \in Nat /\ row0 \in Nat /\ row0 < num
    BY <2>1, <1>1, <1>2
  <2>3. FirstOf(row0, 1, num, 0) = row0 /\ NumberOf(row0, 1, num, 0) = 1 /\ Fits(row0, num, 0)
    BY <2>2, OneRow
  <2> QED BY <2>1, <2>3, <1>1, <1>4
<1>6. Fits(col0, NCols, dc)
  BY <1>1, <1>2 DEF Fits, Least
<1>7. MethodHyp(u) => ScrollHyp(u, row, nrows, zero, col)
  <2> SUFFICES ASSUME MethodHyp(u)
               PROVE  ScrollHyp(u, row, nrows, zero, col)
    OBVIOUS
  <2>1. Quiet /\ SegmentSound(u) /\ Good(u, {})
    BY DEF MethodHyp
  <2>2. Holds(row)
    BY <1>1, <1>5 DEF DeleteCharsAtCursor
  <2>3. ActiveAway(u, row, nrows)
    BY <2>1, <2>2, <1>1, <1>3, <1>5, HeldAway
  <2>4. ~Smears(u, row, nrows, zero)
    BY <1>1, <1>5 DEF Smears
  <2> QED BY <2>1, <2>3, <2>4, <1>1 DEF ScrollHyp
<1>8. MethodBy(u, v)
  BY <1>2, <1>3, <1>4, <1>5, <1>6, <1>7, ScrollBy
<1>9. PICK later : later = FALSE
  OBVIOUS
<1>10. Ready /\ Requested(v, later)
  BY <1>1, <1>4, <1>9 DEF DeleteCharsAtCursor
<1>11. later \in BOOLEAN /\ MethodBy(tw, v)
  BY <1>1, <1>8, <1>9
<1> QED BY <1>10, <1>11, RequestedBy

-----------------------------------------------------------------------------
(* What the program writes.                                                 *)
LEMMA TextsAreStrings ==
    ASSUME NEW str \in Texts
    PROVE  /\ str \in Seq(Char)
           /\ \A strs \in {<<str>>, <<str, str>>} : strs \in Seq(Seq(Char))
  BY TextAssumption

(* Write.                                                                   *)
LEMMA WriteStep ==
    ASSUME TextInv, NEW row \in Rows, NEW col \in Cols, NEW str \in Texts, NEW clear \in BOOLEAN,
           NEW strs \in {<<str>>, <<str, str>>}, Write(row, col, strs, clear)
    PROVE  TextInv' /\ ops' # ops
<1>1. PICK u, v : u = tw /\ v = WriteLines(u, strs, row, col, clear)
  OBVIOUS
<1>2. Sound(u) /\ row \in Nat /\ col \in Nat /\ strs \in Seq(Seq(Char))
  <2>1. row \in Nat /\ col \in Nat
    BY Numbers
  <2>2. strs \in Seq(Seq(Char))
    BY TextsAreStrings
  <2> QED BY <2>1, <2>2, <1>1 DEF TextInv, TextSound
<1>3. Plain(u, v)
  BY <1>1, <1>2, LinesWritten
<1>4. PICK later : later = FALSE
  OBVIOUS
<1>5. Ready /\ Requested(v, later)
  BY <1>1, <1>4 DEF Write
<1>6. later \in BOOLEAN /\ MethodBy(tw, v)
  BY <1>1, <1>3, <1>4, PlainBy
<1> QED BY <1>5, <1>6, RequestedBy

(* Insert.                                                                  *)
LEMMA InsertStep ==
    ASSUME TextInv, NEW row \in Rows, NEW col \in Cols, NEW str \in Texts, Insert(row, col, str)
    PROVE  TextInv' /\ ops' # ops
<1>1. PICK u, x, here, v, later :
        /\ u = tw /\ here = (row = tw.crow) /\ x = (IF row = tw.crow THEN CursorTo(tw, FALSE) ELSE tw)
        /\ v = InsertedAt(x, str, row, col) /\ later = (here /\ tw.on)
  OBVIOUS
<1>2. Sound(u) /\ row \in Int /\ col \in Nat /\ str \in Seq(Char) /\ u.on \in BOOLEAN
  BY <1>1, Numbers, TextsAreStrings DEF TextInv, TextSound, Sound, IsText
<1>3. Ready /\ row < u.nr /\ Holds(row)
  BY <1>1 DEF Insert
<1>4. Requested(v, later) /\ later \in BOOLEAN
  BY <1>1, <1>2 DEF Insert, InsertedAt
<1>5. /\ Plain(u, x) /\ ~(x.on /\ x.crow = row) /\ (Quiet => ActiveAway(x, row, 1))
  <2>1. Quiet => ActiveAway(u, row, 1)
    BY <1>1, <1>2, <1>3, HeldAway
  <2>2. CASE row = u.crow
    <3>1. x = Uncursored(u)
      BY <2>2, <1>1 DEF Uncursored
    <3>2. Plain(u, x) /\ ~x.on
      BY <3>1, <1>2, UncursoredPlain
    <3>3. x.act = u.act \/ ~x.act.on
      BY <3>2 DEF Plain
    <3> QED BY <3>2, <3>3, <2>1 DEF ActiveAway
  <2>3. CASE row # u.crow
    <3>1. x = u
      BY <2>3, <1>1
    <3> QED BY <3>1, <2>1, <2>3, <1>2, PlainItself
  <2> QED BY <2>2, <2>3
<1>6. Sound(x) /\ row < x.nr
  BY <1>3, <1>5 DEF Plain, SameFrame
<1>7. \E lost : /\ MethodDone(x, v, lost)
                /\ SegmentSound(x) /\ Good(x, {}) /\ ActiveAway(x, row, 1) => GoodEnd(v, lost)
  BY <1>1, <1>2, <1>5, <1>6, InsertDone
<1>8. PICK lost : /\ MethodDone(x, v, lost)
                  /\ SegmentSound(x) /\ Good(x, {}) /\ ActiveAway(x, row, 1) => GoodEnd(v, lost)
  BY <1>7
<1>9. MethodHyp(x) => GoodEnd(v, lost)
  BY <1>5, <1>8 DEF MethodHyp
<1>10. MethodBy(u, v)
  <2>1. Plain(u, x) /\ MethodDone(x, v, lost)
    BY <1>5, <1>8
  <2> QED BY <2>1, <1>9, ByAfterPlain
<1>11. MethodBy(tw, v)
  BY <1>1, <1>10
<1> QED BY <1>3, <1>4, <1>11, RequestedBy

(* Writing or inserting at the cursor.                                      *)
LEMMA WriteAtCursorStep ==
    ASSUME TextInv, NEW str \in Texts, NEW insert \in BOOLEAN, WriteAtCursor(str, insert)
    PROVE  TextInv' /\ ops' # ops
<1>1. PICK u, x, over, v, later :
        /\ u = tw /\ x = Uncursored(u) /\ over = insert
        /\ v = WrittenAt(x, str, over) /\ later = tw.on
  OBVIOUS
<1>2. Sound(u) /\ str \in Seq(Char) /\ u.on \in BOOLEAN /\ over \in BOOLEAN /\ u.crow \in Int
  BY <1>1, TextsAreStrings, Numbers DEF TextInv, TextSound, Sound, IsText
<1>3. Plain(u, x) /\ ~x.on /\ x.crow = u.crow /\ x.ccol = u.ccol
  BY <1>1, <1>2, UncursoredPlain
<1>4. Ready /\ (over => Holds(u.crow))
  BY <1>1 DEF WriteAtCursor
<1>5. Requested(v, later) /\ later \in BOOLEAN
  BY <1>1, <1>2, <1>3 DEF WriteAtCursor, WrittenAt, Uncursored
<1>6. Sound(x)
  BY <1>3 DEF Plain
<1>7. \E lost : /\ MethodDone(x, v, lost)
                /\ SegmentSound(x) /\ Good(x, {}) /\ (over => ActiveAway(x, x.crow, 1))
                    => GoodEnd(v, lost)
  <2>1. over \in BOOLEAN
    BY <1>2
  <2> QED BY <2>1, <1>1, <1>2, <1>3, <1>6, CursorWriteDone
<1>8. PICK lost : /\ MethodDone(x, v, lost)
                  /\ SegmentSound(x) /\ Good(x, {}) /\ (over => ActiveAway(x, x.crow, 1))
                    => GoodEnd(v, lost)
  BY <1>7
<1>9. Quiet => (over => ActiveAway(x, x.crow, 1))
  <2>1. ASSUME Quiet, over
        PROVE  ActiveAway(x, x.crow, 1)
    <3>1. Holds(u.crow)
      BY <2>1, <1>4
    <3>2. ActiveAway(u, u.crow, 1)
      BY <2>1, <3>1, <1>1, <1>2, HeldAway
    <3>3. x.act = u.act \/ ~x.act.on
      BY <1>3 DEF Plain
    <3> QED BY <3>2, <3>3, <1>3 DEF ActiveAway
  <2> QED BY <2>1
<1>10. MethodHyp(x) => GoodEnd(v, lost)
  BY <1>8, <1>9 DEF MethodHyp
<1>11. MethodBy(u, v)
  <2>1. Plain(u, x) /\ MethodDone(x, v, lost)
    BY <1>3, <1>8
  <2> QED BY <2>1, <1>10, ByAfterPlain
<1>12. MethodBy(tw, v)
  BY <1>1, <1>11
<1> QED BY <1>4, <1>5, <1>12, RequestedBy

(* Moving the cursor.                                                       *)
LEMMA MoveCursorStep ==
    ASSUME TextInv, NEW row0 \in Rows, NEW col \in 0 .. NCols, MoveCursorTo(row0, col)
    PROVE  TextInv' /\ ops' # ops
<1>1. PICK u, row, x, y, v, later :
        /\ u = tw /\ row = Least(tw.nr - 1, row0) /\ x = Uncursored(u) /\ y = CursorPlaced(x, row, col)
        /\ v = CursorTo(y, u.on) /\ later = FALSE
  OBVIOUS
<1>2. Sound(u) /\ u.on \in BOOLEAN /\ u.nr \in Nat /\ u.nr > 0
  BY <1>1, Numbers DEF TextInv, TextSound, Sound, IsText
<1>3. Ready /\ Requested(v, later) /\ later \in BOOLEAN
  BY <1>1 DEF MoveCursorTo, CursorBack, CursorPlaced
<1>4. Plain(u, x) /\ ~x.on
  BY <1>1, <1>2, UncursoredPlain
<1>5. Sound(x) /\ x.nr = u.nr
  BY <1>4 DEF Plain, SameFrame
<1>6. row \in 0 .. x.nr - 1
  BY <1>1, <1>2, <1>5, Numbers DEF Least
<1>7. Plain(x, y)
  BY <1>1, <1>4, <1>5, <1>6, PlacedPlain
<1>8. Plain(y, v)
  <2>1. Sound(y)
    BY <1>7 DEF Plain
  <2>2. PICK on : on = u.on
    OBVIOUS
  <2>3. on \in BOOLEAN /\ v = CursorTo(y, on)
    BY <2>2, <1>1, <1>2
  <2> QED BY <2>1, <2>3, CursorPlain
<1>9. Plain(u, v)
  BY <1>4, <1>7, <1>8, PlainTwice
<1>10. MethodBy(tw, v) /\ later \in BOOLEAN
  BY <1>1, <1>9, PlainBy
<1> QED BY <1>3, <1>10, RequestedBy

-----------------------------------------------------------------------------
(* An exposure taken from the queue and drawn.                              *)
LEMMA ExposureDrawn ==
    ASSUME NEW u, Sound(u), NEW cells, NEW v, v = TextExpose(u, cells)
    PROVE  /\ Sound(v) /\ v.ev = u.ev /\ v.vis = u.vis /\ v.hidden = u.hidden /\ v.on = u.on
           /\ SegmentSound(u) => SegmentSound(v)
           /\ SegmentSound(u) => \A D, E : Good(u, E) /\ E \subseteq D \cup cells => Good(v, D)
<1>1. IsText(u)
  BY DEF Sound
<1>2. /\ Redraws(u, v) /\ v.on = u.on
      /\ SegmentSound(u) => SegmentSound(v)
      /\ SegmentSound(u) => \A D, E : Good(u, E) /\ E \subseteq D \cup cells => Good(v, D)
  BY <1>1, ExposedGood
<1>3. IsText(v) /\ SameText(u, v) /\ v.nr = u.nr /\ v.ev = u.ev /\ v.vis = u.vis /\ v.hidden = u.hidden
  BY <1>2 DEF Redraws, SameRest, SameFrame
<1>4. Sound(v)
  BY <1>3, SameTextSound
<1> QED BY <1>2, <1>3, <1>4

(* v is u without the first event e of its queue ev; what e shows or hides  *)
(* is right in x.                                                           *)
Takes(u, ev, e, rest, v) ==
    Sound(u) /\ ev = u.ev /\ Follows(ev, e, rest) /\ v = [u EXCEPT !.ev = rest]

EventShown(u, ev, rest, x) ==
    /\ Sound(x) /\ x.ev = rest /\ x.hidden = u.hidden /\ x.on = u.on
    /\ /\ SegmentSound(u) /\ Good(u, ExposedIn(ev)) /\ NoneLost(ev)
       => SegmentSound(x) /\ Good(x, ExposedIn(rest))

(* Taking an event leaves the picture as it is.                             *)
LEMMA EventTaken ==
    ASSUME NEW u, NEW ev, NEW e, NEW rest, NEW v, Takes(u, ev, e, rest, v)
    PROVE  /\ Sound(v) /\ v.ev = rest /\ v.vis = u.vis /\ v.hidden = u.hidden /\ v.on = u.on
           /\ SegmentSound(u) => SegmentSound(v)
           /\ \A D : SegmentSound(u) /\ Good(u, D) => Good(v, D)
<1>1. Sound(u) /\ rest \in Seq(EventType) /\ v = [u EXCEPT !.ev = rest]
  BY DEF Takes, Follows
<1>2. /\ Sound(v) /\ v.ev = rest /\ v.vis = u.vis /\ v.hidden = u.hidden /\ v.on = u.on
      /\ SegmentSound(u) => SegmentSound(v) /\ \A D : Good(u, D) => Good(v, D)
  BY <1>1, QueueChanged
<1> QED BY <1>2

(* An exposure is drawn.                                                    *)
LEMMA ExposureTaken ==
    ASSUME NEW u, NEW ev, NEW e, NEW rest, NEW v, Takes(u, ev, e, rest, v), IsExposure(e),
           NEW cells, cells = e.cells, NEW x, x = TextExpose(v, cells)
    PROVE  EventShown(u, ev, rest, x) /\ x.vis = u.vis
<1>1. Follows(ev, e, rest)
  BY DEF Takes
<1>2. /\ Sound(v) /\ v.ev = rest /\ v.vis = u.vis /\ v.hidden = u.hidden /\ v.on = u.on
      /\ SegmentSound(u) => SegmentSound(v)
      /\ \A D : SegmentSound(u) /\ Good(u, D) => Good(v, D)
  BY EventTaken
<1>3. /\ Sound(x) /\ x.ev = v.ev /\ x.vis = v.vis /\ x.hidden = v.hidden /\ x.on = v.on
      /\ SegmentSound(v) => SegmentSound(x)
      /\ SegmentSound(v) => \A D, E : Good(v, E) /\ E \subseteq D \cup cells => Good(x, D)
  <2>1. Sound(v) /\ x = TextExpose(v, cells)
    BY <1>2
  <2> QED BY ONLY <2>1, ExposureDrawn
<1>4. ASSUME SegmentSound(u), Good(u, ExposedIn(ev))
      PROVE  SegmentSound(x) /\ Good(x, ExposedIn(rest))
  <2>1. PICK D, E : D = ExposedIn(rest) /\ E = ExposedIn(ev)
    OBVIOUS
  <2>2. E = D \cup cells
    <3>1. ExposedIn(ev) = ExposedIn(rest) \cup ExposedBy(e)
      BY <1>1, FollowingExposes
    <3> QED BY <3>1, <2>1 DEF ExposedBy
  <2>3. SegmentSound(v) /\ Good(v, E)
    BY <2>1, <1>2, <1>4
  <2>4. SegmentSound(x) /\ Good(x, D)
    BY <2>2, <2>3, <1>3
  <2> QED BY <2>1, <2>4
<1> QED BY <1>2, <1>3, <1>4 DEF EventShown

(* An event that exposes nothing is taken from the queue.                   *)
LEMMA OtherTaken ==
    ASSUME NEW u, NEW ev, NEW e, NEW rest, NEW v, Takes(u, ev, e, rest, v),
           e.type = "NoExpose" \/ ~IsExposure(e)
    PROVE  EventShown(u, ev, rest, v) /\ v.vis = u.vis
<1>1. Follows(ev, e, rest)
  BY DEF Takes
<1>2. /\ Sound(v) /\ v.ev = rest /\ v.vis = u.vis /\ v.hidden = u.hidden /\ v.on = u.on
      /\ SegmentSound(u) => SegmentSound(v)
      /\ \A D : SegmentSound(u) /\ Good(u, D) => Good(v, D)
  BY EventTaken
<1>3. ASSUME SegmentSound(u), Good(u, ExposedIn(ev)), NoneLost(ev)
      PROVE  SegmentSound(v) /\ Good(v, ExposedIn(rest))
  <2>1. ExposedBy(e) = {}
    <3>1. e.type = "NoExpose" => e.cells = {}
      BY <1>1, <1>3, FollowingExposes
    <3> QED BY <3>1 DEF ExposedBy
  <2>2. ExposedIn(ev) = ExposedIn(rest) \cup ExposedBy(e)
    BY <1>1, FollowingExposes
  <2>3. ExposedIn(ev) = ExposedIn(rest)
    BY <2>1, <2>2
  <2> QED BY <2>3, <1>2, <1>3
<1> QED BY <1>2, <1>3 DEF EventShown

(* The event loop takes the first event.                                    *)
LEMMA HeadTaken ==
    ASSUME NEW ev \in Seq(EventType), ev # <<>>
    PROVE  Follows(ev, Head(ev), Tail(ev))
<1>1. /\ Tail(ev) \in Seq(EventType) /\ Head(ev) \in EventType /\ Head(ev) = ev[1]
      /\ Len(ev) \in Nat \ {0} /\ Len(Tail(ev)) = Len(ev) - 1
      /\ \A i \in 1 .. Len(ev) - 1 : Tail(ev)[i] = ev[i + 1]
  BY HeadAndTail
<1> QED BY <1>1 DEF Follows

(* An event is taken from anywhere in the queue.                            *)
LEMMA EventRemoved ==
    ASSUME NEW ev \in Seq(EventType), NEW i \in DOMAIN ev, NEW rest, rest = Without(ev, i)
    PROVE  /\ rest \in Seq(EventType) /\ Len(ev) \in Nat /\ DOMAIN ev = 1 .. Len(ev)
           /\ DOMAIN rest = 1 .. Len(ev) - 1
           /\ \A k \in 1 .. Len(ev) - 1 : rest[k] = IF k < i THEN ev[k] ELSE ev[k + 1]
           /\ i = 1 => Follows(ev, ev[1], rest)
<1>1. i \in 1 .. Len(ev) /\ Len(ev) \in Nat /\ DOMAIN ev = 1 .. Len(ev)
  OBVIOUS
<1>2. rest = RemoveAt(ev, i)
  BY DEF Without, RemoveAt
<1>3. /\ rest \in Seq(EventType)
      /\ Len(rest) = Len(ev) - 1
      /\ \A k \in 1 .. Len(ev) - 1 : rest[k] = IF k < i THEN ev[k] ELSE ev[k + 1]
  BY <1>1, <1>2, RemoveAtProperties
<1>4. DOMAIN rest = 1 .. Len(ev) - 1
  BY <1>3
<1>5. ASSUME i = 1
      PROVE  Follows(ev, ev[1], rest)
  <2>1. \A k \in DOMAIN rest : rest[k] = ev[k + 1]
    BY <1>3, <1>4, <1>5
  <2>2. ev[1] \in EventType
    BY <1>1, <1>5
  <2>3. Len(ev) = Len(rest) + 1
    BY <1>1, <1>3
  <2> QED BY <1>3, <2>1, <2>2, <2>3 DEF Follows
<1> QED BY <1>1, <1>3, <1>4, <1>5

-----------------------------------------------------------------------------
(* One round of _XpwTextCopyWait.                                           *)
Heard(v, e) == IF e.type = "NoExpose" THEN v ELSE TextExpose(v, e.cells)

(* The events that stay are found in what is left.                          *)
LEMMA OthersStay ==
    ASSUME NEW ev \in Seq(EventType), NEW i \in DOMAIN ev, NEW rest, rest = Without(ev, i)
    PROVE  \A j \in DOMAIN ev : j # i =>
               LET k == IF j < i THEN j ELSE j - 1
               IN k \in DOMAIN rest /\ rest[k] = ev[j]
<1>1. /\ Len(ev) \in Nat /\ DOMAIN ev = 1 .. Len(ev) /\ DOMAIN rest = 1 .. Len(ev) - 1
      /\ \A k \in 1 .. Len(ev) - 1 : rest[k] = IF k < i THEN ev[k] ELSE ev[k + 1]
  BY EventRemoved
<1> SUFFICES ASSUME NEW j \in DOMAIN ev, j # i, NEW k, k = IF j < i THEN j ELSE j - 1
             PROVE  k \in DOMAIN rest /\ rest[k] = ev[j]
  OBVIOUS
<1>2. j \in Nat /\ i \in Nat
  BY <1>1
<1>3. k \in 1 .. Len(ev) - 1
  BY <1>1, <1>2
<1>4. rest[k] = IF k < i THEN ev[k] ELSE ev[k + 1]
  BY <1>1, <1>3
<1>5. CASE j < i
  BY <1>1, <1>3, <1>4, <1>5
<1>6. CASE ~(j < i)
  <2>1. k = j - 1 /\ ~(k < i) /\ k + 1 = j
    BY <1>2, <1>6
  <2> QED BY <2>1, <1>1, <1>3, <1>4
<1> QED BY <1>5, <1>6

(* Taking another event leaves the answers there, ...                       *)
LEMMA AnswersStay ==
    ASSUME NEW ev \in Seq(EventType), NEW n \in {1, 2}, Answered(ev, n), NEW i \in DOMAIN ev,
           ~IsAnswer(ev[i]), NEW rest, rest = Without(ev, i)
    PROVE  Answered(rest, n)
<1> DEFINE to(j) == IF j < i THEN j ELSE j - 1
<1>1. \A j \in DOMAIN ev : IsAnswer(ev[j]) => to(j) \in DOMAIN rest /\ IsAnswer(rest[to(j)])
  BY OthersStay
<1>2. ASSUME NEW j \in DOMAIN ev, NEW k \in DOMAIN ev, j # k, j # i, k # i
      PROVE  to(j) # to(k)
  <2>1. i \in Nat /\ j \in Nat /\ k \in Nat
    OBVIOUS
  <2> QED BY <2>1, <1>2
<1>3. \E j \in DOMAIN rest : IsAnswer(rest[j])
  <2>1. PICK j \in DOMAIN ev : IsAnswer(ev[j])
    BY DEF Answered
  <2> QED BY <2>1, <1>1
<1>4. ASSUME n = 2
      PROVE  \E j, k \in DOMAIN rest : j # k /\ IsAnswer(rest[j]) /\ IsAnswer(rest[k])
  <2>1. PICK j, k \in DOMAIN ev : j # k /\ IsAnswer(ev[j]) /\ IsAnswer(ev[k])
    BY <1>4 DEF Answered
  <2>2. PICK x, y : x = to(j) /\ y = to(k)
    OBVIOUS
  <2>3. x \in DOMAIN rest /\ IsAnswer(rest[x]) /\ y \in DOMAIN rest /\ IsAnswer(rest[y])
    BY <2>1, <2>2, <1>1
  <2>4. x # y
    BY <2>1, <2>2, <1>2
  <2> QED BY <2>3, <2>4
<1> QED BY <1>3, <1>4 DEF Answered

(* ... and taking one of two leaves the other.                              *)
LEMMA AnswerLeft ==
    ASSUME NEW ev \in Seq(EventType), Answered(ev, 2), NEW i \in DOMAIN ev,
           NEW rest, rest = Without(ev, i)
    PROVE  Answered(rest, 1)
<1>1. PICK j \in DOMAIN ev : j # i /\ IsAnswer(ev[j])
  BY DEF Answered
<1>2. PICK k : k = IF j < i THEN j ELSE j - 1
  OBVIOUS
<1>3. k \in DOMAIN rest /\ rest[k] = ev[j]
  BY <1>1, <1>2, OthersStay
<1> QED BY <1>1, <1>3 DEF Answered

(* The invariant of the next state.                                         *)
LEMMA TextInvNext ==
    ASSUME NEW v, Sound(v), NEW n \in 0 .. 2, Answered(v.ev, n), Quiet => PictureOf(v, n),
           tw' = v, waits' = n, restore' \in BOOLEAN, ops' \in Nat
    PROVE  TextInv'
<1>1. TextSound'
  BY DEF TextSound
<1>2. (Quiet => PictureOf(tw, waits))'
  OBVIOUS
<1> QED BY <1>1, <1>2 DEF TextInv

(* One round of _XpwTextCopyWait.                                           *)
LEMMA CopyWaitStep ==
    ASSUME TextInv, CopyWait
    PROVE  TextInv' /\ waits # 0
<1>1. PICK i \in DOMAIN tw.ev :
        /\ IsExposure(tw.ev[i])
        /\ \A j \in 1 .. i - 1 : ~IsExposure(tw.ev[j])
        /\ LET e == tw.ev[i]
               v == [tw EXCEPT !.ev = Without(@, i)]
               u == IF e.type = "NoExpose" THEN v ELSE TextExpose(v, e.cells)
           IN /\ waits' = IF e.type = "Expose" THEN waits ELSE waits - 1
              /\ tw' = IF waits' = 0 THEN CursorTo(u, u.on \/ restore) ELSE u
              /\ restore' = (restore /\ waits' # 0)
  BY DEF CopyWait
<1>2. PICK t, ev, e, rest, v, u, n :
        /\ t = tw /\ ev = t.ev /\ e = ev[i] /\ rest = Without(ev, i)
        /\ v = [t EXCEPT !.ev = rest] /\ u = Heard(v, e) /\ n = waits
  OBVIOUS
<1>3. /\ waits' = (IF e.type = "Expose" THEN n ELSE n - 1)
      /\ tw' = (IF waits' = 0 THEN CursorTo(u, u.on \/ restore) ELSE u)
      /\ restore' = (restore /\ waits' # 0)
      /\ IsExposure(e) /\ ops' = ops
  BY <1>1, <1>2 DEF CopyWait, Heard
<1>4. /\ Sound(t) /\ ev \in Seq(EventType) /\ n \in {1, 2} /\ restore \in BOOLEAN /\ ops \in Nat
      /\ Answered(ev, n) /\ i \in DOMAIN ev
  BY <1>2 DEF TextInv, TextSound, CopyWait, Sound, IsText
<1>5. rest \in Seq(EventType) /\ (i = 1 => Follows(ev, ev[1], rest))
  BY <1>2, <1>4, EventRemoved
<1>6. Sound(v) /\ v.ev = rest
  BY <1>2, <1>4, <1>5, QueueChanged
<1>7. Sound(u) /\ u.ev = rest
  <2>1. CASE e.type = "NoExpose"
    BY <2>1, <1>2, <1>6 DEF Heard
  <2>2. CASE e.type # "NoExpose"
    <3>1. PICK cells : cells = e.cells
      OBVIOUS
    <3>2. u = TextExpose(v, cells)
      BY <2>2, <3>1, <1>2 DEF Heard
    <3> QED BY <3>2, <1>6, ExposureDrawn
  <2> QED BY <2>1, <2>2
<1>8. CASE e.type = "Expose"
  <2>1. waits' = n /\ waits' # 0
    BY <1>3, <1>4, <1>8
  <2>2. tw' = u /\ restore' \in BOOLEAN
    BY <2>1, <1>3, <1>4
  <2>3. ~IsAnswer(ev[i])
    BY <1>2, <1>8 DEF IsAnswer
  <2>4. Answered(rest, n)
    BY <2>3, <1>2, <1>4, AnswersStay
  <2>5. ~Quiet
    <3> SUFFICES ASSUME Quiet
                 PROVE  FALSE
      OBVIOUS
    <3>1. Awaited(ev, t.vis, n)
      BY <1>2, <1>4 DEF TextInv, PictureOf, QueueOf
    <3>2. Len(ev) \in Nat /\ DOMAIN ev = 1 .. Len(ev) /\ i \in 1 .. Len(ev)
      BY <1>4
    <3>3. ~(i <= n)
      BY <3>1, <2>3, <1>4 DEF Awaited
    <3>4. 1 \in DOMAIN ev /\ 1 <= n /\ 1 \in 1 .. i - 1
      BY <3>2, <3>3, <1>4
    <3>5. IsExposure(ev[1])
      BY <3>1, <3>4 DEF Awaited, IsAnswer, IsExposure
    <3> QED BY <3>4, <3>5, <1>1, <1>2
  <2>6. /\ Sound(u) /\ Answered(u.ev, n) /\ (Quiet => PictureOf(u, n)) /\ n \in 0 .. 2
        /\ tw' = u /\ waits' = n /\ restore' \in BOOLEAN /\ ops' \in Nat
    BY <2>1, <2>2, <2>4, <2>5, <1>3, <1>4, <1>7
  <2>7. TextInv'
    BY ONLY <2>6, TextInvNext
  <2> QED BY <2>7, <1>2, <1>4
<1>9. CASE e.type # "Expose"
  <2>1. PICK m : m = n - 1
    OBVIOUS
  <2>2. waits' = m /\ m \in {0, 1} /\ (n = 1 <=> m = 0) /\ (n = 2 <=> m = 1)
    BY <2>1, <1>3, <1>4, <1>9
  <2>3. ASSUME Quiet
        PROVE  PictureOf(u, m)
    <3>1. /\ SegmentSound(t) /\ Good(t, ExposedIn(ev)) /\ NoneLost(ev)
          /\ VisKnown(ev, t.vis, t.hidden) /\ Awaited(ev, t.vis, n)
      BY <2>3, <1>2, <1>4 DEF TextInv, PictureOf, QueueOf
    <3>2. i = 1
      <4>1. Len(ev) \in Nat /\ DOMAIN ev = 1 .. Len(ev) /\ i \in 1 .. Len(ev)
        BY <1>4
      <4>2. 1 \in DOMAIN ev /\ 1 <= n
        BY <4>1, <1>4
      <4>3. IsExposure(ev[1])
        BY <3>1, <4>2 DEF Awaited, IsAnswer, IsExposure
      <4>4. ~(1 \in 1 .. i - 1)
        BY <4>3, <1>1, <1>2
      <4> QED BY <4>1, <4>4
    <3>3. Follows(ev, e, rest)
      BY <3>2, <1>2, <1>5
    <3>4. PICK vis, hidden : vis = t.vis /\ hidden = t.hidden
      OBVIOUS
    <3>5. IsAnswer(e) /\ (IF n = 1 THEN Settled(rest, vis) ELSE Awaited(rest, vis, 1))
      <4>1. Awaited(ev, vis, n) /\ n \in {1, 2}
        BY <3>1, <3>4, <1>4
      <4> QED BY <4>1, <3>3, AwaitedGoes
    <3>6. NoneLost(rest)
      BY <3>1, <3>3, FollowingExposes
    <3>7. VisKnown(rest, vis, hidden)
      <4>1. VisKnown(ev, vis, hidden) /\ hidden \in BOOLEAN
        BY <3>1, <3>4, <1>4 DEF Sound, IsText
      <4>2. vis = IF IsVisibility(e) THEN e.type # "Obscured" ELSE vis
        BY <3>5 DEF IsAnswer, IsVisibility
      <4> QED BY <4>1, <4>2, <3>3, VisibilityGoes
    <3>8. Takes(t, ev, e, rest, v)
      BY <3>3, <1>2, <1>4 DEF Takes
    <3>9. EventShown(t, ev, rest, u) /\ u.vis = t.vis
      <4>1. CASE e.type = "NoExpose"
        <5>1. u = v
          BY <4>1, <1>2 DEF Heard
        <5>2. EventShown(t, ev, rest, v) /\ v.vis = t.vis
          BY <3>8, <4>1, OtherTaken
        <5> QED BY <5>1, <5>2
      <4>2. CASE e.type # "NoExpose"
        <5>1. PICK cells : cells = e.cells
          OBVIOUS
        <5>2. u = TextExpose(v, cells)
          BY <4>2, <5>1, <1>2 DEF Heard
        <5>3. IsExposure(e)
          BY <1>3
        <5> QED BY <3>8, <5>1, <5>2, <5>3, ExposureTaken
      <4> QED BY <4>1, <4>2
    <3>10. /\ SegmentSound(u) /\ Good(u, ExposedIn(rest)) /\ u.vis = vis /\ u.hidden = hidden
      BY <3>1, <3>4, <3>9 DEF EventShown
    <3>11. IF m = 0 THEN Settled(rest, vis) ELSE Awaited(rest, vis, m)
      BY <3>5, <2>2
    <3> QED BY <3>6, <3>7, <3>10, <3>11, <1>7 DEF PictureOf, QueueOf
  <2>4. CASE m = 0
    <3>1. PICK on, z : on = (u.on \/ restore) /\ z = CursorTo(u, on)
      OBVIOUS
    <3>2. u.on \in BOOLEAN
      BY <1>7 DEF Sound, IsText
    <3>3. waits' = 0 /\ tw' = z /\ restore' \in BOOLEAN /\ on \in BOOLEAN
      BY <3>1, <3>2, <2>2, <2>4, <1>3, <1>4
    <3>4. Plain(u, z)
      <4>1. on \in BOOLEAN /\ z = CursorTo(u, on)
        BY <3>1, <3>3
      <4> QED BY <4>1, <1>7, CursorPlain
    <3>5. Quiet => PictureOf(z, m)
      <4>1. /\ z.ev = u.ev /\ z.vis = u.vis /\ z.hidden = u.hidden
            /\ (SegmentSound(u) => SegmentSound(z) /\ \A D : Good(u, D) => Good(z, D))
        BY <3>4 DEF Plain, SameFrame
      <4> QED BY <4>1, <2>3, PictureKept
    <3>6. Sound(z)
      BY <3>4 DEF Plain
    <3>7. Answered(z.ev, 0)
      BY DEF Answered
    <3>8. /\ Sound(z) /\ Answered(z.ev, m) /\ (Quiet => PictureOf(z, m)) /\ m \in 0 .. 2
          /\ tw' = z /\ waits' = m /\ restore' \in BOOLEAN /\ ops' \in Nat
      BY <3>3, <3>5, <3>6, <3>7, <2>4, <1>3, <1>4
    <3>9. TextInv'
      BY ONLY <3>8, TextInvNext
    <3> QED BY <3>9, <1>2, <1>4
  <2>5. CASE m = 1
    <3>1. waits' = 1 /\ tw' = u /\ restore' \in BOOLEAN
      BY <2>2, <2>5, <1>3, <1>4
    <3>2. Answered(ev, 2)
      BY <2>2, <2>5, <1>4
    <3>3. Answered(rest, 1)
      BY <3>2, <1>2, <1>4, AnswerLeft
    <3>4. Quiet => PictureOf(u, 1)
      BY <2>3, <2>5
    <3>5. /\ Sound(u) /\ Answered(u.ev, m) /\ (Quiet => PictureOf(u, m)) /\ m \in 0 .. 2
          /\ tw' = u /\ waits' = m /\ restore' \in BOOLEAN /\ ops' \in Nat
      BY <3>1, <3>3, <3>4, <2>5, <1>3, <1>4, <1>7
    <3>6. TextInv'
      BY ONLY <3>5, TextInvNext
    <3> QED BY <3>6, <1>2, <1>4
  <2> QED BY <2>2, <2>4, <2>5
<1> QED BY <1>4, <1>8, <1>9

-----------------------------------------------------------------------------
(* Steps during which no method is called.                                  *)
LEMMA NothingRequested ==
    ASSUME TextInv, NEW v, Sound(v), Answered(v.ev, waits), Quiet => PictureOf(v, waits),
           tw' = v, waits' = waits, restore' = restore, ops' = ops
    PROVE  TextInv'
<1>1. waits \in 0 .. 2 /\ restore \in BOOLEAN /\ ops \in Nat
  BY DEF TextInv, TextSound
<1>2. TextSound'
  BY <1>1 DEF TextSound
<1>3. Quiet => PictureOf(v, waits)'
  BY DEF TextInv
<1> QED BY <1>2, <1>3 DEF TextInv

(* The event loop takes an event from the queue.                            *)
Believed(vis, e) == IF IsVisibility(e) THEN e.type # "Obscured" ELSE vis

Dispatched(v, e) ==
    IF e.type = "Expose" THEN TextExpose(v, e.cells)
    ELSE IF e.type = "Obscured" THEN [v EXCEPT !.vis = FALSE]
    ELSE IF e.type = "Unobscured" THEN [v EXCEPT !.vis = TRUE]
    ELSE v

(* News of the visibility is believed.                                      *)
LEMMA VisibilityShown ==
    ASSUME NEW u, NEW ev, NEW e, NEW rest, NEW v, Takes(u, ev, e, rest, v), ~IsExposure(e),
           NEW now \in BOOLEAN, NEW x, x = [v EXCEPT !.vis = now]
    PROVE  EventShown(u, ev, rest, x) /\ x.vis = now
<1>1. EventShown(u, ev, rest, v)
  BY OtherTaken
<1>2. /\ Sound(x) /\ x.ev = v.ev /\ x.vis = now /\ x.hidden = v.hidden /\ x.on = v.on
      /\ SegmentSound(v) => SegmentSound(x) /\ \A D : Good(v, D) => Good(x, D)
  <2>1. Sound(v) /\ now \in BOOLEAN /\ x = [v EXCEPT !.vis = now]
    BY <1>1 DEF EventShown
  <2> QED BY ONLY <2>1, BeliefChanged
<1> QED BY <1>1, <1>2 DEF EventShown

(* Any event but GraphicsExpose.                                            *)
LEMMA EventDispatched ==
    ASSUME NEW u, NEW ev, NEW e, NEW rest, NEW v, Takes(u, ev, e, rest, v),
           e.type # "GraphicsExpose",
           NEW now, now = Believed(u.vis, e), NEW x, x = Dispatched(v, e)
    PROVE  EventShown(u, ev, rest, x) /\ x.vis = now
<1>1. CASE e.type = "Expose"
  <2>1. PICK cells : cells = e.cells
    OBVIOUS
  <2>2. x = TextExpose(v, cells) /\ IsExposure(e) /\ now = u.vis
    BY <1>1, <2>1 DEF Dispatched, IsExposure, Believed, IsVisibility
  <2> QED BY <2>1, <2>2, ExposureTaken
<1>2. CASE IsVisibility(e)
  <2>1. now \in BOOLEAN /\ x = [v EXCEPT !.vis = now] /\ ~IsExposure(e)
    BY <1>2 DEF Dispatched, IsExposure, Believed, IsVisibility
  <2> QED BY <2>1, VisibilityShown
<1>3. CASE e.type # "Expose" /\ ~IsVisibility(e)
  <2>1. x = v /\ now = u.vis
    BY <1>3 DEF Dispatched, Believed, IsVisibility
  <2>2. e.type = "NoExpose" \/ ~IsExposure(e)
    BY <1>3 DEF IsExposure
  <2>3. EventShown(u, ev, rest, v) /\ v.vis = u.vis
    BY <2>2, OtherTaken
  <2> QED BY <2>1, <2>3
<1> QED BY <1>1, <1>2, <1>3

(* Whatever the event, the widget stays sound and the cursor as it is.      *)
LEMMA DispatchedSound ==
    ASSUME NEW u, NEW ev, NEW e, NEW rest, NEW v, Takes(u, ev, e, rest, v),
           NEW x, x = Dispatched(v, e)
    PROVE  Sound(x) /\ x.on = u.on
<1>1. CASE e.type # "GraphicsExpose"
  <2>1. PICK now : now = Believed(u.vis, e)
    OBVIOUS
  <2>2. EventShown(u, ev, rest, x)
    BY <1>1, <2>1, EventDispatched
  <2> QED BY <2>2 DEF EventShown
<1>2. CASE e.type = "GraphicsExpose"
  <2>1. x = v
    BY <1>2 DEF Dispatched
  <2>2. Sound(v) /\ v.on = u.on
    BY EventTaken
  <2> QED BY <2>1, <2>2
<1> QED BY <1>1, <1>2

(* The event loop.                                                          *)
LEMMA DispatchStep ==
    ASSUME TextInv, Dispatch
    PROVE  TextInv' /\ tw'.on = tw.on
<1>1. PICK t, ev, e, rest, v, x, now :
        /\ t = tw /\ ev = t.ev /\ e = Head(ev) /\ rest = Tail(ev)
        /\ v = [t EXCEPT !.ev = rest] /\ x = Dispatched(v, e) /\ now = Believed(t.vis, e)
  OBVIOUS
<1>2. /\ waits = 0 /\ ev # <<>> /\ tw' = x
      /\ waits' = waits /\ restore' = restore /\ ops' = ops
  BY <1>1 DEF Dispatch, Dispatched
<1>3. Sound(t) /\ ev \in Seq(EventType) /\ t.vis \in BOOLEAN /\ t.hidden \in BOOLEAN
  BY <1>1 DEF TextInv, TextSound, Sound, IsText
<1>4. Follows(ev, e, rest)
  BY <1>1, <1>2, <1>3, HeadTaken
<1>5. Takes(t, ev, e, rest, v)
  BY <1>1, <1>3, <1>4 DEF Takes
<1>6. Sound(x) /\ x.on = t.on
  BY <1>1, <1>5, DispatchedSound
<1>7. ASSUME Quiet
      PROVE  PictureOf(x, waits)
  <2>1. PICK n : n = 0
    OBVIOUS
  <2>2. /\ SegmentSound(t) /\ Good(t, ExposedIn(ev)) /\ NoneLost(ev)
        /\ VisKnown(ev, t.vis, t.hidden) /\ Settled(ev, t.vis)
    BY <1>1, <1>2, <1>7 DEF TextInv, PictureOf, QueueOf
  <2>3. PICK vis, hidden : vis = t.vis /\ hidden = t.hidden
    OBVIOUS
  <2>4. now = IF IsVisibility(e) THEN e.type # "Obscured" ELSE vis
    BY <1>1, <2>3 DEF Believed
  <2>5. Settled(rest, now) /\ e.type # "GraphicsExpose"
    <3>1. Follows(ev, e, rest) /\ Settled(ev, vis)
      BY <1>4, <2>2, <2>3
    <3> QED BY <3>1, <2>4, SettledGoes
  <2>6. VisKnown(rest, now, hidden)
    <3>1. /\ Follows(ev, e, rest) /\ VisKnown(ev, vis, hidden) /\ hidden \in BOOLEAN
      BY <1>3, <1>4, <2>2, <2>3
    <3> QED BY <3>1, <2>4, VisibilityGoes
  <2>7. EventShown(t, ev, rest, x) /\ x.vis = now
    BY <1>1, <1>5, <2>5, EventDispatched
  <2>8. NoneLost(rest)
    BY <1>4, <2>2, FollowingExposes
  <2>9. /\ x.ev = rest /\ x.vis = now /\ x.hidden = hidden
        /\ SegmentSound(x) /\ Good(x, ExposedIn(rest))
    BY <2>2, <2>3, <2>7 DEF EventShown
  <2>10. PictureOf(x, n)
    BY <2>1, <2>5, <2>6, <2>8, <2>9 DEF PictureOf, QueueOf
  <2> QED BY <2>1, <2>10, <1>2
<1>8. Answered(x.ev, waits)
  BY <1>2 DEF Answered
<1> QED BY <1>1, <1>2, <1>6, <1>7, <1>8, NothingRequested

-----------------------------------------------------------------------------
(* The blink timer and the mouse.                                           *)
LEMMA DoBlinkStep ==
    ASSUME TextInv, DoBlink
    PROVE  TextInv' /\ (Tame => tw'.on = tw.on)
<1>1. PICK t, x, N : t = tw /\ x = BlinkResult(t) /\ N = Noted(t)
  OBVIOUS
<1>2. /\ tw' = x /\ waits = 0
      /\ waits' = waits /\ restore' = restore /\ ops' = ops
      /\ Tame => CursorLast(t, N)
  BY <1>1 DEF DoBlink, BlinkResult, Turned, Renoted, NotesGiven, StillBlinking, CursorLast
<1>3. Sound(t)
  BY <1>1 DEF TextInv, TextSound
<1>4. /\ Sound(x) /\ x.nr = t.nr /\ x.hidden = t.hidden /\ x.vis = t.vis /\ x.ev = t.ev
      /\ SegmentSound(t) => SegmentSound(x) /\ \A D : Good(t, D) => Good(x, D)
      /\ CursorLast(t, Noted(t)) => x.on = t.on
  <2>1. Sound(t) /\ x = BlinkResult(t)
    BY <1>1, <1>3
  <2> QED BY ONLY <2>1, BlinkHandled
<1>5. ASSUME Quiet
      PROVE  PictureOf(x, waits)
  <2>1. PICK n : n = waits
    OBVIOUS
  <2>2. PictureOf(t, n)
    BY <2>1, <1>1, <1>5 DEF TextInv
  <2>3. /\ x.ev = t.ev /\ x.vis = t.vis /\ x.hidden = t.hidden
        /\ SegmentSound(t) => SegmentSound(x) /\ \A D : Good(t, D) => Good(x, D)
    BY <1>4
  <2>4. PictureOf(x, n)
    BY <2>2, <2>3, PictureKept
  <2> QED BY <2>1, <2>4
<1>6. Answered(x.ev, waits)
  BY <1>2 DEF Answered
<1>7. TextInv'
  BY <1>2, <1>4, <1>5, <1>6, NothingRequested
<1> QED BY <1>1, <1>2, <1>4, <1>7

(* The mouse moves.                                                         *)
LEMMA ActiveStep ==
    ASSUME TextInv, NEW row \in Rows, NEW col \in Cols, NEW wanted \in BOOLEAN,
           TestActiveChange(row, col, wanted)
    PROVE  TextInv' /\ tw'.on = tw.on
<1>1. PICK t, x : t = tw /\ x = Tested(t, row, col, wanted)
  OBVIOUS
<1>2. /\ tw' = x /\ waits = 0
      /\ waits' = waits /\ restore' = restore /\ ops' = ops
  BY <1>1 DEF TestActiveChange, Tested, Unlit, Dropped, Live, FirstLive, LimLive, Lit, Segment
<1>3. Sound(t)
  BY <1>1 DEF TextInv, TextSound
<1>4. Redone(t, x)
  BY <1>1, <1>3, ActiveTested
<1>5. /\ Sound(x) /\ x.vis = t.vis /\ x.hidden = t.hidden /\ x.ev = t.ev /\ x.on = t.on
      /\ SegmentSound(t) => SegmentSound(x) /\ \A D : Good(t, D) => Good(x, D)
  BY <1>4 DEF Redone, SameFrame, SameCursor
<1>6. ASSUME Quiet
      PROVE  PictureOf(x, waits)
  <2>1. PICK n : n = waits
    OBVIOUS
  <2>2. PictureOf(t, n)
    BY <2>1, <1>1, <1>6 DEF TextInv
  <2>3. /\ x.ev = t.ev /\ x.vis = t.vis /\ x.hidden = t.hidden
        /\ SegmentSound(t) => SegmentSound(x) /\ \A D : Good(t, D) => Good(x, D)
    BY <1>5
  <2>4. PictureOf(x, n)
    BY <2>2, <2>3, PictureKept
  <2> QED BY <2>1, <2>4
<1>7. Answered(x.ev, waits)
  BY <1>2 DEF Answered
<1>8. TextInv'
  BY <1>2, <1>5, <1>6, <1>7, NothingRequested
<1> QED BY <1>1, <1>2, <1>5, <1>8

-----------------------------------------------------------------------------
(* The server: another window comes in front of this one, or goes away.     *)
Scene(u, hidden, image, x) == [u EXCEPT !.hidden = hidden, !.win = image, !.ev = x]

(* Assigning what the server changes.                                       *)
LEMMA SceneAssigned ==
    ASSUME NEW u, IsText(u), NEW hidden \in BOOLEAN, NEW image, IsImage(image),
           NEW x \in Seq(EventType), NEW v, v = Scene(u, hidden, image, x)
    PROVE  /\ IsText(v) /\ v.hidden = hidden /\ v.win = image /\ v.ev = x
           /\ v.act = u.act /\ v.nr = u.nr /\ v.vis = u.vis /\ v.phase = u.phase
           /\ SameText(u, v) /\ SameCursor(u, v)
  BY DEF Scene, IsText, TextFields, SameText, SameCursor

(* In a covered part there is nothing, whether it still is or was covered.  *)
LEMMA SceneGood ==
    ASSUME NEW u, IsText(u), NEW v, IsText(v), v.act = u.act, SameText(u, v), SameCursor(u, v),
           v.nr = u.nr, v.phase = u.phase, u.hidden # v.hidden,
           \A c \in Cells : v.win[c] = IF c \in Covered /\ v.hidden THEN Blank ELSE u.win[c],
           NEW D, Good(u, D), NEW E, D \subseteq E, u.hidden => Covered \subseteq E
    PROVE  Good(v, E)
<1>1. ASSUME NEW r \in Rows, NEW k \in Cols
      PROVE  GoodAt(v, E, {}, r, k)
  <2>1. GoodAt(u, D, {}, r, k)
    BY DEF Good, GoodBut
  <2>2. Expected(v, <<r, k>>) = Expected(u, <<r, k>>)
    BY SamePicture
  <2>3. u.hidden \in BOOLEAN /\ v.hidden \in BOOLEAN
    BY DEF IsText
  <2>4. PICK c : c = <<r, k>>
    OBVIOUS
  <2>5. c \in Cells
    BY <2>4, CellsArePairs
  <2>6. v.win[c] = IF c \in Covered /\ v.hidden THEN Blank ELSE u.win[c]
    BY <2>5
  <2>7. CASE c \notin Covered
    <3>1. v.win[c] = u.win[c]
      BY <2>6, <2>7
    <3>2. VisibleAt(v, r, k) <=> VisibleAt(u, r, k)
      BY <2>4, <2>7 DEF VisibleAt
    <3> QED BY <2>1, <2>2, <2>4, <3>1, <3>2 DEF GoodAt
  <2>8. CASE c \in Covered /\ v.hidden
    <3>1. v.win[c] = Blank
      BY <2>6, <2>8
    <3>2. ~VisibleAt(v, r, k)
      BY <2>4, <2>8 DEF VisibleAt
    <3> QED BY <2>4, <3>1, <3>2 DEF GoodAt
  <2>9. CASE c \in Covered /\ ~v.hidden
    <3>1. v.win[c] = u.win[c] /\ u.hidden
      BY <2>3, <2>6, <2>9
    <3>2. ~VisibleAt(u, r, k)
      BY <2>4, <2>9, <3>1 DEF VisibleAt
    <3>3. u.win[c] = Blank
      BY <2>1, <2>4, <3>2 DEF GoodAt
    <3>4. c \in E
      BY <2>9, <3>1
    <3> QED BY <2>4, <3>1, <3>3, <3>4 DEF GoodAt
  <2> QED BY <2>7, <2>8, <2>9
<1> QED BY <1>1 DEF Good, GoodBut

(* What the server says of it comes last in the queue.                      *)
Queued(ev, vis, hidden, n) ==
    /\ NoneLost(ev) /\ VisKnown(ev, vis, hidden)
    /\ IF n = 0 THEN Settled(ev, vis) ELSE Awaited(ev, vis, n)

Hides(e, hidden) == hidden \in BOOLEAN /\ hidden = (e.type = "Obscured")

(* The server tells of a change of visibility ...                           *)
LEMMA ChangeQueued ==
    ASSUME NEW ev, NEW e, NEW more, Extends(ev, e, more), IsVisibility(e),
           NEW hidden, Hides(e, hidden)
    PROVE  /\ \A vis, was : \A n \in 0 .. 2 : Queued(ev, vis, was, n) => Queued(more, vis, hidden, n)
           /\ ExposedIn(more) = ExposedIn(ev)
           /\ \A n : Answered(ev, n) => Answered(more, n)
<1>1. ~IsAnswer(e) /\ ~IsExposure(e) /\ e.type # "NoExpose"
  BY DEF IsVisibility, IsAnswer, IsExposure
<1>2. /\ ExposedIn(more) = ExposedIn(ev) \cup ExposedBy(e)
      /\ \A n : Answered(ev, n) => Answered(more, n)
      /\ NoneLost(ev) => NoneLost(more)
  BY <1>1, ExtendedExposes
<1>3. ExposedBy(e) = {}
  BY <1>1 DEF ExposedBy
<1>4. ASSUME NEW vis, NEW was, NEW n \in 0 .. 2, Queued(ev, vis, was, n)
      PROVE  Queued(more, vis, hidden, n)
  <2>1. VisKnown(more, vis, hidden)
    <3>1. hidden \in BOOLEAN /\ hidden = (e.type = "Obscured")
      BY DEF Hides
    <3> QED BY <3>1, VisibilityComes
  <2>2. /\ Settled(ev, vis) => Settled(more, vis)
        /\ \A m \in {1, 2} : Awaited(ev, vis, m) => Awaited(more, vis, m)
    BY <1>1, OtherComes
  <2>3. n = 0 \/ n \in {1, 2}
    OBVIOUS
  <2> QED BY <2>1, <2>2, <2>3, <1>2, <1>4 DEF Queued
<1> QED BY <1>2, <1>3, <1>4

(* ... and of an exposure.                                                  *)
LEMMA ExposureQueued ==
    ASSUME NEW ev, NEW e, NEW more, Extends(ev, e, more), e.type = "Expose"
    PROVE  /\ \A vis, hidden : \A n \in 0 .. 2 : Queued(ev, vis, hidden, n) => Queued(more, vis, hidden, n)
           /\ ExposedIn(more) = ExposedIn(ev) \cup e.cells
           /\ \A n : Answered(ev, n) => Answered(more, n)
<1>1. ~IsAnswer(e) /\ IsExposure(e) /\ ~IsVisibility(e) /\ e.type # "NoExpose"
  BY DEF IsVisibility, IsAnswer, IsExposure
<1>2. /\ ExposedIn(more) = ExposedIn(ev) \cup ExposedBy(e)
      /\ \A n : Answered(ev, n) => Answered(more, n)
      /\ NoneLost(ev) => NoneLost(more)
  BY <1>1, ExtendedExposes
<1>3. ExposedBy(e) = e.cells
  BY <1>1 DEF ExposedBy
<1>4. ASSUME NEW vis, NEW hidden, NEW n \in 0 .. 2, Queued(ev, vis, hidden, n)
      PROVE  Queued(more, vis, hidden, n)
  <2>1. VisKnown(more, vis, hidden)
    BY <1>1, <1>4, ExposureComes DEF Queued
  <2>2. /\ Settled(ev, vis) => Settled(more, vis)
        /\ \A m \in {1, 2} : Awaited(ev, vis, m) => Awaited(more, vis, m)
    BY <1>1, OtherComes
  <2>3. n = 0 \/ n \in {1, 2}
    OBVIOUS
  <2> QED BY <2>1, <2>2, <2>3, <1>2, <1>4 DEF Queued
<1> QED BY <1>2, <1>3, <1>4

(* The picture after such an event; E is what is now to be drawn.           *)
LEMMA ScenePicture ==
    ASSUME NEW u, Sound(u), NEW v, IsText(v), v.act = u.act, SameText(u, v), SameCursor(u, v),
           v.nr = u.nr, v.phase = u.phase, v.vis = u.vis, u.hidden # v.hidden,
           \A c \in Cells : v.win[c] = IF c \in Covered /\ v.hidden THEN Blank ELSE u.win[c],
           ExposedIn(u.ev) \subseteq ExposedIn(v.ev), u.hidden => Covered \subseteq ExposedIn(v.ev),
           NEW n, Queued(u.ev, u.vis, u.hidden, n) => Queued(v.ev, v.vis, v.hidden, n)
    PROVE  Sound(v) /\ (PictureOf(u, n) => PictureOf(v, n))
<1>1. Sound(v)
  BY SameTextSound
<1>2. ASSUME PictureOf(u, n)
      PROVE  PictureOf(v, n)
  <2>1. PICK D, E : D = ExposedIn(u.ev) /\ E = ExposedIn(v.ev)
    OBVIOUS
  <2>2. SegmentSound(u) /\ Good(u, D) /\ Queued(u.ev, u.vis, u.hidden, n)
    BY <1>2, <2>1 DEF PictureOf, QueueOf, Queued
  <2>3. SegmentSound(v)
    BY <2>2, SameSegment DEF SameText
  <2>4. Good(v, E)
    BY <2>1, <2>2, SceneGood DEF Sound
  <2>5. QueueOf(v, n)
    BY <2>2 DEF QueueOf, Queued
  <2> QED BY <2>1, <2>3, <2>4, <2>5 DEF PictureOf
<1> QED BY <1>1, <1>2

-----------------------------------------------------------------------------
(* Another window comes in front.                                           *)
LEMMA CoverStep ==
    ASSUME TextInv, Cover
    PROVE  TextInv' /\ tw'.on = tw.on
<1>1. PICK t, ev, e, more, image, hidden, v :
        /\ t = tw /\ ev = t.ev /\ e = [type |-> "Obscured", cells |-> {}] /\ more = Append(ev, e)
        /\ image = Drawn(t.win, Covered, [c \in Cells |-> Blank]) /\ hidden = TRUE
        /\ v = Scene(t, hidden, image, more)
  OBVIOUS
<1>2. /\ tw' = v /\ ~t.hidden
      /\ waits' = waits /\ restore' = restore /\ ops' = ops
  BY <1>1 DEF Cover, Scene
<1>3. Sound(t) /\ IsText(t) /\ ev \in Seq(EventType) /\ IsImage(t.win) /\ hidden \in BOOLEAN
  BY <1>1 DEF TextInv, TextSound, Sound, IsText
<1>4. e \in EventType /\ IsVisibility(e) /\ hidden = (e.type = "Obscured")
  BY <1>1 DEF EventType, IsVisibility
<1>5. Extends(ev, e, more)
  BY <1>1, <1>3, <1>4, EventAppended
<1>6. more \in Seq(EventType)
  BY <1>5 DEF Extends
<1>7. /\ \A vis, was : \A n \in 0 .. 2 : Queued(ev, vis, was, n) => Queued(more, vis, hidden, n)
      /\ ExposedIn(more) = ExposedIn(ev)
      /\ \A n : Answered(ev, n) => Answered(more, n)
  <2>1. /\ Extends(ev, e, more) /\ IsVisibility(e)
        /\ Hides(e, hidden)
    BY <1>3, <1>4, <1>5 DEF Hides
  <2> QED BY ONLY <2>1, ChangeQueued
<1>8. /\ IsImage(image)
      /\ \A c \in Cells : image[c] = IF c \in Covered THEN Blank ELSE t.win[c]
  <2>1. PICK look, win : look = [c \in Cells |-> Blank] /\ win = t.win
    OBVIOUS
  <2>2. image = Drawn(win, Covered, look)
    BY <1>1, <2>1
  <2>3. /\ IsImage(image)
        /\ \A c \in Cells : image[c] = IF c \in Covered THEN look[c] ELSE win[c]
    BY <1>3, <2>1, <2>2, DrawnImage
  <2> QED BY <2>1, <2>3
<1>9. /\ IsText(v) /\ v.hidden = hidden /\ v.win = image /\ v.ev = more
      /\ v.act = t.act /\ v.nr = t.nr /\ v.vis = t.vis /\ v.phase = t.phase
      /\ SameText(t, v) /\ SameCursor(t, v)
  <2>1. /\ IsText(t) /\ hidden \in BOOLEAN /\ IsImage(image) /\ more \in Seq(EventType)
        /\ v = Scene(t, hidden, image, more)
    BY <1>1, <1>3, <1>6, <1>8
  <2> QED BY ONLY <2>1, SceneAssigned
<1>10. PICK n \in 0 .. 2 : n = waits
  BY DEF TextInv, TextSound
<1>11. Sound(v) /\ (PictureOf(t, n) => PictureOf(v, n))
  <2>1. t.hidden # v.hidden /\ v.hidden
    BY <1>1, <1>2, <1>9
  <2>2. \A c \in Cells : v.win[c] = IF c \in Covered /\ v.hidden THEN Blank ELSE t.win[c]
    BY <2>1, <1>8, <1>9
  <2>3. ExposedIn(t.ev) \subseteq ExposedIn(v.ev) /\ (t.hidden => Covered \subseteq ExposedIn(v.ev))
    BY <1>1, <1>2, <1>7, <1>9
  <2>4. Queued(t.ev, t.vis, t.hidden, n) => Queued(v.ev, v.vis, v.hidden, n)
    BY <1>1, <1>7, <1>9
  <2> QED BY ONLY <1>3, <1>9, <2>1, <2>2, <2>3, <2>4, ScenePicture
<1>12. Answered(v.ev, waits)
  BY <1>1, <1>7, <1>9 DEF TextInv, TextSound
<1>13. Quiet => PictureOf(v, waits)
  BY <1>1, <1>10, <1>11 DEF TextInv
<1>14. TextInv'
  BY <1>2, <1>11, <1>12, <1>13, NothingRequested
<1> QED BY <1>1, <1>2, <1>9, <1>14 DEF SameCursor

(* Two events appended one by one.                                          *)
LEMMA TwoAppended ==
    ASSUME NEW S, NEW s \in Seq(S), NEW a \in S, NEW b \in S
    PROVE  s \o <<a, b>> = Append(Append(s, a), b)
  OBVIOUS

(* It goes away.                                                            *)
LEMMA UncoverStep ==
    ASSUME TextInv, Uncover
    PROVE  TextInv' /\ tw'.on = tw.on
<1>1. PICK t, ev, a, b, mid, more, image, hidden, v :
        /\ t = tw /\ ev = t.ev /\ a = [type |-> "Unobscured", cells |-> {}]
        /\ b = [type |-> "Expose", cells |-> Covered] /\ mid = Append(ev, a) /\ more = Append(mid, b)
        /\ image = t.win /\ hidden = FALSE /\ v = Scene(t, hidden, image, more)
  OBVIOUS
<1>2. Sound(t) /\ IsText(t) /\ ev \in Seq(EventType) /\ IsImage(image) /\ hidden \in BOOLEAN
  BY <1>1 DEF TextInv, TextSound, Sound, IsText
<1>3. /\ a \in EventType /\ IsVisibility(a) /\ hidden = (a.type = "Obscured")
      /\ b \in EventType /\ b.type = "Expose" /\ b.cells = Covered
  BY <1>1, SizesAssumption DEF EventType, IsVisibility
<1>4. more = ev \o <<a, b>>
  <2>1. PICK S : S = EventType
    OBVIOUS
  <2>2. ev \in Seq(S) /\ a \in S /\ b \in S
    BY <2>1, <1>2, <1>3
  <2>3. ev \o <<a, b>> = Append(Append(ev, a), b)
    BY ONLY <2>2, TwoAppended
  <2> QED BY <2>3, <1>1
<1>5. /\ tw' = v /\ t.hidden
      /\ waits' = waits /\ restore' = restore /\ ops' = ops
  <2>1. v = [t EXCEPT !.hidden = FALSE, !.win = t.win, !.ev = ev \o <<a, b>>]
    BY <1>1, <1>4 DEF Scene
  <2>2. /\ tw' = [tw EXCEPT !.hidden = FALSE, !.ev = ev \o <<a, b>>] /\ t.hidden
        /\ waits' = waits /\ restore' = restore /\ ops' = ops
    BY <1>1 DEF Uncover
  <2>3. v = [t EXCEPT !.hidden = FALSE, !.ev = ev \o <<a, b>>]
    BY <2>1, <1>2 DEF IsText, TextFields
  <2> QED BY <2>2, <2>3, <1>1
<1>6. Extends(ev, a, mid)
  BY <1>1, <1>2, <1>3, EventAppended
<1>7. Extends(mid, b, more)
  <2>1. mid \in Seq(EventType)
    BY <1>6 DEF Extends
  <2> QED BY <2>1, <1>1, <1>3, EventAppended
<1>8. /\ \A vis, was : \A n \in 0 .. 2 : Queued(ev, vis, was, n) => Queued(more, vis, hidden, n)
      /\ ExposedIn(more) = ExposedIn(ev) \cup Covered
      /\ \A n : Answered(ev, n) => Answered(more, n)
  <2>1. /\ \A vis, was : \A n \in 0 .. 2 : Queued(ev, vis, was, n) => Queued(mid, vis, hidden, n)
        /\ ExposedIn(mid) = ExposedIn(ev)
        /\ \A n : Answered(ev, n) => Answered(mid, n)
    <3>1. /\ Extends(ev, a, mid) /\ IsVisibility(a)
          /\ Hides(a, hidden)
      BY <1>2, <1>3, <1>6 DEF Hides
    <3> QED BY ONLY <3>1, ChangeQueued
  <2>2. /\ \A vis, was : \A n \in 0 .. 2 : Queued(mid, vis, was, n) => Queued(more, vis, was, n)
        /\ ExposedIn(more) = ExposedIn(mid) \cup b.cells
        /\ \A n : Answered(mid, n) => Answered(more, n)
    BY <1>3, <1>7, ExposureQueued
  <2> QED BY <2>1, <2>2, <1>3
<1>9. more \in Seq(EventType)
  BY <1>7 DEF Extends
<1>10. /\ IsText(v) /\ v.hidden = hidden /\ v.win = image /\ v.ev = more
       /\ v.act = t.act /\ v.nr = t.nr /\ v.vis = t.vis /\ v.phase = t.phase
       /\ SameText(t, v) /\ SameCursor(t, v)
  <2>1. /\ IsText(t) /\ hidden \in BOOLEAN /\ IsImage(image) /\ more \in Seq(EventType)
        /\ v = Scene(t, hidden, image, more)
    BY <1>1, <1>2, <1>9
  <2> QED BY ONLY <2>1, SceneAssigned
<1>11. PICK n \in 0 .. 2 : n = waits
  BY DEF TextInv, TextSound
<1>12. Sound(v) /\ (PictureOf(t, n) => PictureOf(v, n))
  <2>1. t.hidden # v.hidden /\ ~v.hidden
    BY <1>1, <1>5, <1>10
  <2>2. \A c \in Cells : v.win[c] = IF c \in Covered /\ v.hidden THEN Blank ELSE t.win[c]
    BY <2>1, <1>1, <1>10
  <2>3. ExposedIn(t.ev) \subseteq ExposedIn(v.ev) /\ (t.hidden => Covered \subseteq ExposedIn(v.ev))
    BY <1>1, <1>8, <1>10
  <2>4. Queued(t.ev, t.vis, t.hidden, n) => Queued(v.ev, v.vis, v.hidden, n)
    BY <1>1, <1>8, <1>10
  <2> QED BY ONLY <1>2, <1>10, <2>1, <2>2, <2>3, <2>4, ScenePicture
<1>13. Answered(v.ev, waits)
  BY <1>1, <1>8, <1>10 DEF TextInv, TextSound
<1>14. Quiet => PictureOf(v, waits)
  BY <1>1, <1>11, <1>12 DEF TextInv
<1>15. TextInv'
  BY <1>5, <1>12, <1>13, <1>14, NothingRequested
<1> QED BY <1>1, <1>5, <1>10, <1>15 DEF SameCursor

-----------------------------------------------------------------------------
(* Another number of rows.                                                  *)
StartedAfresh(u, nr, buf, first, image, x) ==
    [u EXCEPT !.nr = nr, !.buf = buf, !.bfirst = first, !.blim = 0, !.ccol = 0, !.crow = 0,
              !.win = image, !.ev = x]

(* Assigning all that Resize assigns.                                       *)
LEMMA TextRestarted ==
    ASSUME NEW u, IsText(u), NEW nr \in Sizes, NEW buf \in [Buffer -> RowType], NEW first \in Nat,
           NEW image, IsImage(image), NEW x \in Seq(EventType),
           NEW v, v = StartedAfresh(u, nr, buf, first, image, x)
    PROVE  /\ IsText(v) /\ v.row = u.row /\ v.buf = buf /\ v.nr = nr /\ v.win = image /\ v.ev = x
           /\ v.act = u.act /\ v.hidden = u.hidden /\ v.vis = u.vis
<1>1. nr \in Nat /\ nr > 0 /\ NCols \in Nat
  BY Numbers
<1>2. 0 \in 0 .. nr - 1 /\ 0 \in 0 .. NCols /\ 0 \in Nat
  BY <1>1
<1>3. v = [y \in TextFields |->
             CASE y = "nr" -> nr [] y = "buf" -> buf [] y = "bfirst" -> first [] y = "blim" -> 0
               [] y = "ccol" -> 0 [] y = "crow" -> 0 [] y = "win" -> image [] y = "ev" -> x
               [] OTHER -> u[y]]
  BY DEF StartedAfresh, IsText, TextFields
<1>4. /\ v.nr = nr /\ v.buf = buf /\ v.bfirst = first /\ v.blim = 0 /\ v.ccol = 0 /\ v.crow = 0
      /\ v.win = image /\ v.ev = x
      /\ v.row = u.row /\ v.on = u.on /\ v.phase = u.phase /\ v.ticking = u.ticking
      /\ v.act = u.act /\ v.hidden = u.hidden /\ v.vis = u.vis /\ v.apart = u.apart
  BY <1>3 DEF TextFields
<1>5. v = [y \in TextFields |-> v[y]]
  BY <1>3
<1>6. IsText(v)
  BY <1>2, <1>4, <1>5 DEF IsText
<1> QED BY <1>4, <1>6

(* A row at first.                                                          *)
LEMMA EmptyRowIs ==
    /\ EmptyRow \in RowType
    /\ \A k \in Cols : RowText(EmptyRow, k) = Null
    /\ Null \notin Blinking /\ Null \notin Active
<1>1. Null \in Char
  BY DEF Char
<1>2. NCols \in Nat /\ 0 \in 0 .. NCols /\ MAX_COLS \in Nat
  BY Numbers DEF MAX_COLS
<1>3. EmptyRow \in RowType
  BY <1>1, <1>2 DEF EmptyRow, RowType
<1>4. \A k \in Cols : RowText(EmptyRow, k) = Null
  BY DEF EmptyRow, RowText
<1> QED BY <1>3, <1>4, TextAssumption

(* Rows without characters hold no blinking ones, and no segment.           *)
LEMMA EmptySound ==
    ASSUME NEW v, IsText(v), \A r \in Rows : At(v, r) = EmptyRow,
           \A r, q \in Rows : v.row[r] = v.row[q] => r = q
    PROVE  Sound(v) /\ SegmentSound(v)
<1>1. \A r \in Rows, k \in Cols : RowText(At(v, r), k) = Null
  BY EmptyRowIs
<1>2. RowsIn(v)
  BY <1>1, EmptyRowIs DEF RowsIn, ExtentNoted, Blinks
<1>3. SegmentSound(v)
  <2> SUFFICES ASSUME v.act.on, NEW i \in Cols, NEW j \in Cols, i <= j
               PROVE  Unbroken(v, i, j)
    BY DEF SegmentSound
  <2>1. v.act.row \in Rows
    BY DEF IsText, SegmentType
  <2>2. ~ActiveAt(At(v, v.act.row), i)
    BY <2>1, <1>1, EmptyRowIs DEF ActiveAt
  <2>3. i \in i .. j
    BY Numbers
  <2> QED BY <2>2, <2>3 DEF Unbroken
<1> QED BY <1>2, <1>3 DEF Sound

(* Resize.                                                                  *)
LEMMA ResizeStep ==
    ASSUME TextInv, NEW n \in Sizes, Resize(n)
    PROVE  TextInv' /\ ops' # ops
<1>1. PICK t, ev, e, more, image, buf, first, cells, v, z, on :
        /\ t = tw /\ ev = t.ev /\ cells = (0 .. n - 1) \X Cols
        /\ e = [type |-> "Expose", cells |-> cells] /\ more = Append(ev, e)
        /\ image = [c \in Cells |-> Blank] /\ buf = [p \in Buffer |-> EmptyRow]
        /\ first = NRows + 1 /\ v = StartedAfresh(t, n, buf, first, image, more)
        /\ on = TRUE /\ z = CursorTo(v, on)
  OBVIOUS
<1>2. /\ tw' = z /\ waits = 0 /\ ~restore /\ ops' = ops + 1
      /\ waits' = waits /\ restore' = restore
  BY <1>1 DEF Resize, StartedAfresh, Ready
<1>3. Sound(t) /\ IsText(t) /\ ev \in Seq(EventType) /\ ops \in Nat
  BY <1>1 DEF TextInv, TextSound, Sound, IsText
<1>4. n \in Nat /\ 0 .. n - 1 \subseteq Rows /\ first \in Nat
  BY <1>1, Numbers
<1>5. e \in EventType /\ e.type = "Expose" /\ e.cells = cells
  BY <1>1, <1>4 DEF EventType, Cells
<1>6. Extends(ev, e, more)
  BY <1>1, <1>3, <1>5, EventAppended
<1>7. /\ \A vis, hidden : \A m \in 0 .. 2 : Queued(ev, vis, hidden, m) => Queued(more, vis, hidden, m)
      /\ ExposedIn(more) = ExposedIn(ev) \cup cells
  BY <1>5, <1>6, ExposureQueued
<1>8. buf \in [Buffer -> RowType] /\ IsImage(image) /\ more \in Seq(EventType)
  BY <1>1, <1>6, EmptyRowIs DEF IsImage, Extends
<1>9. /\ IsText(v) /\ v.row = t.row /\ v.buf = buf /\ v.nr = n /\ v.win = image /\ v.ev = more
      /\ v.act = t.act /\ v.hidden = t.hidden /\ v.vis = t.vis
  <2>1. /\ IsText(t) /\ n \in Sizes /\ buf \in [Buffer -> RowType] /\ first \in Nat
        /\ IsImage(image) /\ more \in Seq(EventType) /\ v = StartedAfresh(t, n, buf, first, image, more)
    BY <1>1, <1>3, <1>4, <1>8
  <2> QED BY ONLY <2>1, TextRestarted
<1>10. Sound(v) /\ SegmentSound(v)
  <2>1. \A r \in Rows : At(v, r) = EmptyRow
    <3>1. t.row \in [Rows -> Buffer]
      BY <1>3 DEF IsText
    <3> QED BY <3>1, <1>1, <1>9 DEF At
  <2>2. \A r, q \in Rows : v.row[r] = v.row[q] => r = q
    BY <1>3, <1>9 DEF Sound, RowsIn
  <2> QED BY <1>9, <2>1, <2>2, EmptySound
<1>11. Plain(v, z)
  <2>1. on \in BOOLEAN /\ z = CursorTo(v, on)
    BY <1>1
  <2> QED BY <2>1, <1>10, CursorPlain
<1>12. ASSUME Quiet
       PROVE  PictureOf(z, 0)
  <2>1. PICK m \in 0 .. 2 : m = 0
    OBVIOUS
  <2>2. Queued(ev, t.vis, t.hidden, m)
    BY <2>1, <1>1, <1>2, <1>12 DEF TextInv, PictureOf, QueueOf, Queued
  <2>3. QueueOf(v, m)
    BY <2>2, <1>7, <1>9 DEF Queued, QueueOf
  <2>4. PICK D : D = ExposedIn(v.ev)
    OBVIOUS
  <2>5. Good(v, D)
    <3>1. ASSUME NEW r \in Rows, NEW k \in Cols
          PROVE  GoodAt(v, D, {}, r, k)
      <4>1. v.win[<<r, k>>] = Blank
        BY <1>1, <1>9, CellsArePairs
      <4>2. ASSUME VisibleAt(v, r, k)
            PROVE  <<r, k>> \in D
        <5>1. r \in 0 .. n - 1
          BY <4>2, <1>4, <1>9, Numbers DEF VisibleAt
        <5> QED BY <5>1, <2>4, <1>1, <1>7, <1>9
      <4> QED BY <4>1, <4>2 DEF GoodAt
    <3> QED BY <3>1 DEF Good, GoodBut
  <2>6. PictureOf(v, m)
    BY <2>3, <2>4, <2>5, <1>10 DEF PictureOf
  <2>7. /\ z.ev = v.ev /\ z.vis = v.vis /\ z.hidden = v.hidden
        /\ SegmentSound(v) => SegmentSound(z) /\ \A E : Good(v, E) => Good(z, E)
    BY <1>11 DEF Plain, SameFrame
  <2>8. PictureOf(z, m)
    BY <2>6, <2>7, PictureKept
  <2> QED BY <2>1, <2>8
<1>13. Sound(z)
  BY <1>11 DEF Plain
<1>14. TextSound'
  <2>1. Answered(z.ev, 0)
    BY DEF Answered
  <2>2. waits' = 0 /\ 0 \in 0 .. 2 /\ restore' \in BOOLEAN /\ ops' \in Nat
    <3>1. ops + 1 \in Nat
      BY <1>3
    <3>2. restore \in BOOLEAN
      BY DEF TextInv, TextSound
    <3> QED BY <3>1, <3>2, <1>2
  <2> QED BY <2>1, <2>2, <1>2, <1>13 DEF TextSound
<1>15. (Quiet => PictureOf(tw, waits))'
  BY <1>2, <1>12
<1> QED BY <1>2, <1>3, <1>14, <1>15 DEF TextInv

-----------------------------------------------------------------------------
(* The invariant holds at first ...                                         *)
LEMMA TextStarts ==
    ASSUME TextInit
    PROVE  TextInv
<1>1. PICK p \in [Rows -> Buffer], apart \in BOOLEAN :
        /\ \A r, q \in Rows : p[r] = p[q] => r = q
        /\ tw = [row |-> p, buf |-> [b \in Buffer |-> EmptyRow], nr |-> NRows, apart |-> apart,
                 crow |-> 0, ccol |-> 0, on |-> FALSE,
                 bfirst |-> NRows + 1, blim |-> 0, phase |-> TRUE, ticking |-> FALSE,
                 act |-> NoSegment,
                 win |-> [c \in Cells |-> Blank], hidden |-> FALSE, vis |-> TRUE, ev |-> <<>>]
  BY DEF TextInit
<1>2. waits = 0 /\ restore = FALSE /\ ops = 0
  BY DEF TextInit
<1>3. PICK t : t = tw
  OBVIOUS
<1>4. t = [x \in TextFields |-> t[x]]
  BY <1>1, <1>3 DEF TextFields
<1>5. /\ t.row = p /\ t.buf = [b \in Buffer |-> EmptyRow] /\ t.nr = NRows /\ t.apart \in BOOLEAN
      /\ t.crow = 0 /\ t.ccol = 0 /\ t.on = FALSE /\ t.bfirst = NRows + 1 /\ t.blim = 0
      /\ t.phase = TRUE /\ t.ticking = FALSE /\ t.act = NoSegment
      /\ t.win = [c \in Cells |-> Blank] /\ t.hidden = FALSE /\ t.vis = TRUE /\ t.ev = <<>>
  BY <1>1, <1>3
<1>6. /\ t.nr \in Sizes /\ 0 \in 0 .. t.nr - 1 /\ 0 \in 0 .. NCols /\ 0 \in Nat
      /\ NRows + 1 \in Nat /\ NoSegment \in SegmentType
  BY <1>5, SizesAssumption, Numbers DEF NoSegment, SegmentType
<1>7. /\ [b \in Buffer |-> EmptyRow] \in [Buffer -> RowType] /\ IsImage([c \in Cells |-> Blank])
      /\ <<>> \in Seq(EventType)
  BY EmptyRowIs DEF IsImage
<1>8. IsText(t)
  BY <1>4, <1>5, <1>6, <1>7 DEF IsText
<1>9. \A r \in Rows : At(t, r) = EmptyRow
  BY <1>5 DEF At
<1>10. Sound(t) /\ SegmentSound(t)
  BY <1>1, <1>5, <1>8, <1>9, EmptySound
<1>11. PICK n : n = 0
  OBVIOUS
<1>12. PictureOf(t, n)
  <2>2. PICK D : D = ExposedIn(t.ev)
    OBVIOUS
  <2>3. ASSUME NEW r \in Rows, NEW k \in Cols
        PROVE  GoodAt(t, D, {}, r, k)
    <3>1. t.win[<<r, k>>] = Blank
      BY <1>5, CellsArePairs
    <3>2. CharAt(t, r, k) = Null
      BY <1>9, EmptyRowIs DEF CharAt
    <3>3. Expected(t, <<r, k>>) = IF CursorAt(t, r, k) THEN CursorCell
                                  ELSE Look(t, CharAt(t, r, k), r, k)
      BY <1>8, ExpectedIs
    <3>4. ~CursorAt(t, r, k)
      BY <1>5 DEF CursorAt
    <3>5. Expected(t, <<r, k>>) = Blank
      BY <3>2, <3>3, <3>4, NullLook
    <3> QED BY <3>1, <3>5 DEF GoodAt
  <2>4. Good(t, D)
    BY <2>3 DEF Good, GoodBut
  <2>5. DOMAIN t.ev = {}
    BY <1>5
  <2>6. t.vis = ~t.hidden
    BY <1>5
  <2>7. QueueOf(t, n)
    BY <2>5, <2>6, <1>11 DEF QueueOf, NoneLost, VisKnown, Settled
  <2> QED BY <1>10, <2>2, <2>4, <2>7 DEF PictureOf
<1>13. TextSound
  <2>1. waits \in 0 .. 2 /\ ops \in Nat /\ Answered(tw.ev, waits)
    BY <1>2 DEF Answered
  <2>2. restore \in BOOLEAN
    BY <1>2
  <2>3. Sound(tw)
    BY <1>3, <1>10
  <2> QED BY <2>1, <2>2, <2>3 DEF TextSound
<1> QED BY <1>2, <1>3, <1>11, <1>12, <1>13 DEF TextInv

(* ... and after every step, which keeps the cursor as it is unless it is a *)
(* method.                                                                  *)
OnKept == ops' = ops /\ waits = 0 => tw'.on = tw.on

(* Every step.                                                              *)
LEMMA TextStep ==
    ASSUME TextInv, [TextNext]_textvars
    PROVE  TextInv' /\ (Tame => OnKept)
<1>1. ASSUME NEW a \in Areas, Clear(a)
      PROVE  TextInv' /\ (Tame => OnKept)
  BY <1>1, ClearStep DEF OnKept
<1>2. ASSUME NEW m \in Moves, Scroll(m)
      PROVE  TextInv' /\ (Tame => OnKept)
  BY <1>2, ScrollStep DEF OnKept
<1>3. ASSUME NEW row \in Rows, NEW col \in Cols, NEW str \in Texts, Insert(row, col, str)
      PROVE  TextInv' /\ (Tame => OnKept)
  BY <1>3, InsertStep DEF OnKept
<1>4. ASSUME NEW row \in Rows, NEW col \in Cols, NEW str \in Texts, NEW clear \in BOOLEAN,
             NEW strs \in {<<str>>, <<str, str>>}, Write(row, col, strs, clear)
      PROVE  TextInv' /\ (Tame => OnKept)
  <2>1. TextInv' /\ ops' # ops
    BY <1>4, WriteStep
  <2> QED BY <2>1 DEF OnKept
<1>5. ASSUME NEW str \in Texts, NEW insert \in BOOLEAN, WriteAtCursor(str, insert)
      PROVE  TextInv' /\ (Tame => OnKept)
  BY <1>5, WriteAtCursorStep DEF OnKept
<1>6. ASSUME NEW n \in 1 .. NCols, DeleteCharsAtCursor(n)
      PROVE  TextInv' /\ (Tame => OnKept)
  BY <1>6, DeleteStep DEF OnKept
<1>7. ASSUME NEW row \in Rows, NEW col \in 0 .. NCols, MoveCursorTo(row, col)
      PROVE  TextInv' /\ (Tame => OnKept)
  BY <1>7, MoveCursorStep DEF OnKept
<1>8. ASSUME CopyWait
      PROVE  TextInv' /\ (Tame => OnKept)
  BY <1>8, CopyWaitStep DEF OnKept
<1>9. ASSUME Dispatch
      PROVE  TextInv' /\ (Tame => OnKept)
  BY <1>9, DispatchStep DEF OnKept
<1>10. ASSUME DoBlink
       PROVE  TextInv' /\ (Tame => OnKept)
  BY <1>10, DoBlinkStep DEF OnKept
<1>11. ASSUME NEW c \in MouseAt, NEW wanted \in BOOLEAN, TestActiveChange(c[1], c[2], wanted)
       PROVE  TextInv' /\ (Tame => OnKept)
  <2>1. PICK row, col : row = c[1] /\ col = c[2]
    OBVIOUS
  <2>2. row \in Rows /\ col \in Cols
    BY <2>1, SizesAssumption DEF Cells
  <2>3. TestActiveChange(row, col, wanted)
    BY <1>11, <2>1
  <2> QED BY <2>2, <2>3, ActiveStep DEF OnKept
<1>12. ASSUME NEW n \in Sizes, Resize(n)
       PROVE  TextInv' /\ (Tame => OnKept)
  BY <1>12, ResizeStep DEF OnKept
<1>13. ASSUME Cover
       PROVE  TextInv' /\ (Tame => OnKept)
  BY <1>13, CoverStep DEF OnKept
<1>14. ASSUME Uncover
       PROVE  TextInv' /\ (Tame => OnKept)
  BY <1>14, UncoverStep DEF OnKept
<1>15. ASSUME UNCHANGED textvars
       PROVE  TextInv' /\ (Tame => OnKept)
  <2>1. tw' = tw /\ waits' = waits /\ restore' = restore /\ ops' = ops
    BY <1>15 DEF textvars
  <2> QED BY <2>1 DEF TextInv, TextSound, OnKept
<1> QED BY <1>1, <1>2, <1>3, <1>4, <1>5, <1>6, <1>7, <1>8, <1>9, <1>10, <1>11, <1>12, <1>13,
           <1>14, <1>15 DEF TextNext

(* So it always holds.                                                      *)
LEMMA TextInvariant ==
    TextSpec => []TextInv
<1>1. TextInit => TextInv
  BY TextStarts
<1>2. TextInv /\ [TextNext]_textvars => TextInv'
  BY TextStep
<1> QED BY <1>1, <1>2, PTL DEF TextSpec

-----------------------------------------------------------------------------
(* The rows of the text, through rotations and resizes: each has a buffer   *)
(* of its own, and the parts of it noted as blinking are enough, whatever   *)
(* the program asks for (copy_text, DoBlink).                               *)
THEOREM TextRowsSound ==
    TextSpec => []RowsSound
<1>1. ASSUME TextInv
      PROVE  RowsSound
  <2>1. /\ IsText(tw) /\ RowsIn(tw) /\ waits \in 0 .. 2 /\ restore \in BOOLEAN
    BY <1>1 DEF TextInv, TextSound, Sound
  <2>2. TypeOK
    <3>1. ASSUME NEW b \in Buffer
          PROVE  tw.buf[b].n \in 0 .. NCols /\ tw.buf[b].bl \in 0 .. NCols
      <4>1. tw.buf[b] \in RowType
        BY <2>1 DEF IsText
      <4> QED BY <4>1 DEF RowType
    <3>2. DOMAIN tw.win = Cells
      BY <2>1 DEF IsText, IsImage
    <3> QED BY <2>1, <3>1, <3>2 DEF TypeOK, IsText
  <2>3. RowsApart
    BY <2>1 DEF RowsApart, RowsIn
  <2>4. BlinkCovered
    <3> SUFFICES ASSUME NEW c \in InWindow(tw), Text(tw)[c] \in Blinking
                 PROVE  LET b == At(tw, c[1])
                        IN /\ tw.ticking
                           /\ tw.bfirst <= c[1] /\ c[1] < tw.blim
                           /\ b.bs <= c[2] /\ c[2] < b.bl
      BY DEF BlinkCovered
    <3>1. PICK r, k, b : r = c[1] /\ k = c[2] /\ b = At(tw, r)
      OBVIOUS
    <3>2. c \in Cells /\ r \in Rows /\ k \in Cols /\ r < tw.nr
      <4>1. tw.nr \in Nat /\ 0 .. tw.nr - 1 \subseteq Rows
        BY <2>1, Numbers DEF IsText
      <4>2. r \in 0 .. tw.nr - 1 /\ k \in Cols /\ c = <<r, k>>
        BY <3>1 DEF InWindow
      <4> QED BY <4>1, <4>2 DEF Cells
    <3>3. Text(tw)[c] = RowText(b, k)
      BY <3>1, <3>2 DEF Text, RowText
    <3>4. RowText(b, k) \in Blinking
      BY <3>3
    <3>5. ExtentNoted(b) /\ RowNoted(tw, r)
      BY <2>1, <3>1, <3>2, <3>4 DEF RowsIn, Blinks
    <3> QED BY <3>1, <3>2, <3>4, <3>5 DEF ExtentNoted, RowNoted
  <2> QED BY <2>2, <2>3, <2>4 DEF RowsSound
<1> QED BY <1>1, TextInvariant, PTL

(* _XpwTextCopyWait never waits for an answer that will not come: for each  *)
(* call that is to come there is one in the queue it may take.              *)
THEOREM TextWaitAnswered ==
    TextSpec => []WaitAnswered
<1>1. ASSUME TextInv
      PROVE  WaitAnswered
  <2>1. waits \in 0 .. 2 /\ Answered(tw.ev, waits) /\ tw.ev \in Seq(EventType)
    BY <1>1 DEF TextInv, TextSound, Sound, IsText
  <2>2. PICK S : S = {i \in DOMAIN tw.ev : tw.ev[i].type \in {"NoExpose", "GraphicsExpose"}}
    OBVIOUS
  <2>3. IsFiniteSet(S)
    <3>1. S \subseteq 1 .. Len(tw.ev) /\ Len(tw.ev) \in Nat
      BY <2>1, <2>2
    <3>2. IsFiniteSet(1 .. Len(tw.ev))
      BY <3>1, FS_Interval
    <3> QED BY <3>1, <3>2, FS_Subset
  <2>4. Cardinality(S) \in Nat
    BY <2>3, FS_CardinalityType
  <2>5. ASSUME waits = 1
        PROVE  Cardinality(S) # 0
    <3>1. S # {}
      BY <2>1, <2>2, <2>5 DEF Answered, IsAnswer
    <3> QED BY <3>1, <2>3, FS_EmptySet
  <2>6. ASSUME waits = 2
        PROVE  Cardinality(S) \notin {0, 1}
    <3>1. PICK i, j \in S : i # j
      BY <2>1, <2>2, <2>6 DEF Answered, IsAnswer
    <3>2. IsFiniteSet(S \ {i}) /\ Cardinality(S \ {i}) = Cardinality(S) - 1
      BY <3>1, <2>3, FS_RemoveElement
    <3>3. Cardinality(S \ {i}) \in Nat /\ Cardinality(S \ {i}) # 0
      <4>1. S \ {i} # {}
        BY <3>1
      <4> QED BY <4>1, <3>2, FS_EmptySet, FS_CardinalityType
    <3> QED BY <3>2, <3>3, <2>4
  <2>7. PICK card : card = Cardinality(S)
    OBVIOUS
  <2>8. waits <= Cardinality(S)
    BY <2>1, <2>4, <2>5, <2>6, <2>7
  <2> QED BY <2>2, <2>8 DEF WaitAnswered
<1> QED BY <1>1, TextInvariant, PTL

(* Redrawing never changes whether the cursor is on, if the last of the     *)
(* rows that DoBlink redraws is the cursor's or the cursor's is not one.    *)
THEOREM TextCursorKept ==
    ASSUME Tame
    PROVE  TextSpec => CursorKept
<1>1. TextInv /\ [TextNext]_textvars => [ops' = ops /\ waits = 0 => tw'.on = tw.on]_textvars
  BY TextStep DEF OnKept
<1> QED BY <1>1, TextInvariant, PTL DEF TextSpec, CursorKept

(* What the user sees is the text, for a program that moves no highlighted  *)
(* segment, no block of columns that a row ends before and, where the       *)
(* status line is set apart, no rows down over themselves from row 0, and   *)
(* reads its events before it calls a method.                               *)
THEOREM TextShown ==
    ASSUME Tame, Late \subseteq {"NoExpose"}
    PROVE  TextSpec => []Shown
<1>1. ASSUME TextInv
      PROVE  Shown
  <2>1. Sound(tw) /\ PictureOf(tw, waits)
    BY <1>1 DEF TextInv, TextSound, Quiet
  <2>2. IsText(tw) /\ Good(tw, ExposedIn(tw.ev))
    BY <2>1 DEF Sound, PictureOf
  <2>3. ToBeDrawn(tw) = ExposedIn(tw.ev)
    BY DEF ToBeDrawn, ExposedIn
  <2>4. ASSUME NEW c \in Visible(tw) \ ToBeDrawn(tw)
        PROVE  tw.win[c] = Expected(tw, c)
    <3>1. c \in Cells
      <4>1. 0 .. tw.nr - 1 \subseteq Rows
        BY <2>2, Numbers DEF IsText
      <4> QED BY <4>1 DEF Visible, InWindow, Cells
    <3>2. PICK r \in Rows, k \in Cols : c = <<r, k>>
      BY <3>1 DEF Cells
    <3>3. GoodAt(tw, ExposedIn(tw.ev), {}, r, k)
      BY <2>2 DEF Good, GoodBut
    <3>4. VisibleAt(tw, r, k)
      BY <2>2, <3>2, VisibleIs
    <3> QED BY <2>3, <3>2, <3>3, <3>4 DEF GoodAt
  <2> QED BY <2>4 DEF Shown
<1> QED BY <1>1, TextInvariant, PTL
=============================================================================
