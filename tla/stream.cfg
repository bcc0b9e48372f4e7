CONSTANTS
  Titles = {t1, t2}
  NoTitle = NoTitle
  Pool = {p1, p2}
  Remote = TRUE
  RingPages = 2
  MaxStreams = 2
  MaxPages = 2
SPECIFICATION Spec
SYMMETRY StreamSymmetry
INVARIANTS LastHeadersCurrent TitleSurvives PagesInOrder
CHECK_DEADLOCK FALSE
