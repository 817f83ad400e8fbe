----------------------------- MODULE MCScrText -----------------------------
(***************************************************************************)
(* Arguments for ScrText: three rows of two cells, the calls that reach    *)
(* every branch of Scroll, copy_text and copy_row_chars.                   *)
(***************************************************************************)
EXTENDS ScrText, TLC

CONSTANTS buf1, buf2, buf3, plain, blink, link

Symmetry == Permutations(Buffer)
MCCovered == {<<1, 0>>, <<1, 1>>}
MCMouseAt == {<<1, 0>>, <<0, 1>>}
MCAreas == {<<0, 0, 0, 0>>, <<1, 1, 1, 0>>, <<0, 0, 2, 1>>}
(* Up, down, left, right, a column down, a block up and right, two rows up,        *)
(* a column down and left                                                  *)
MCMoves == {<<1, 0, 0, 0, -1, 0>>, <<0, 0, 0, 0, 1, 0>>, <<0, 1, 0, 0, 0, -1>>,
            <<1, 0, 1, 0, 0, 1>>, <<0, 0, 2, 1, 1, 0>>, <<1, 0, 2, 1, -1, 1>>,
            <<1, 0, 0, 0, -2, 0>>, <<0, 1, 1, 1, 1, -1>>}
(* Down, from a status line *)
MCDown == {<<0, 0, 0, 0, 1, 0>>}
MCTexts == {<<plain>>, <<blink, plain>>, <<link, link>>, <<Null>>}
=============================================================================
