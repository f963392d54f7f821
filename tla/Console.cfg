SPECIFICATION Spec
CONSTANTS
  Cols = 2
  Rows = 3
  Height = 2
  Word = 1048576
  Glyphs = {"a", "b"}
  Blank = " "
  Smear = "#"
INVARIANTS TypeOK CursorOnScreen TidyStaysInside
PROPERTIES LinesAboveKept ShowsPage
