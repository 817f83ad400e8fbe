SPECIFICATION Spec
CONSTANTS
  w1 = w1  w2 = w2  w3 = w3
  Widget = {w1, w2}
  Class <- MCClass
  Pixel = {0, 1, 2, 3}  Function = {"copy", "invert"}
  GC = {g1, g2, g3}  NoGC = NoGC
  Pixmap = {p1, p2, p3, p4}  NullPixmap = NullPixmap  UnspecifiedPixmap = Unspecified
  NoWindow = NoWindow  NoAttributes = NoAttributes
  Tile = 10  Ink = 20  Junk = 50
  Covered = {0}
  Colormap = {m1, m2, m3}  DefaultColormap = m0
  Cell = {0, 1, 2, 3}
  InitArgs <- MCAnyInitArgs  Args <- MCArgs  GCArgs <- MCGCArgs
  Sizes = {1, 2}
  MaxOps = 3
  Tame = FALSE
INVARIANTS Mirror PixmapsOwned NoBadRequest ColoursSound
