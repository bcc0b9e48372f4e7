CONSTANTS
  Titles = {t1, t2}
  NoTitle = NoTitle
  Pool = {p1, p2}
  Remote = TRUE
  RingPages = 2
  MaxStreams = 2
  MaxPages = 2
SPECIFICATION Spec
SYMMETRY StreamSymmetry
INVARIANT TitlesInOrder
CHECK_DEADLOCK FALSE
