SPECIFICATION MCSpec
CONSTANTS
  Sizes = {5, 14}
  Capacities = {2, 4}
  Groups = {1, 2}
  Fonts = {2, 3}
  Widths = {18, 23, 30}
  Heights = {19, 21, 28}
  CharWidth = 1
  ExtraWidth = 1
  Digits = 1
  InfoHeight = 1
  BarSize = 3
  ThumbMin = 2
  Modulus = 1000
  Items = {a, b}
  PaintSize = 5
  CopySize = 14
  LastSpan = 9
  MaxSpans = 2
  MaxCopied = 8
  PageLines = {1, 2, 3}
  MaxPage = 5
  DataPages = {2, 3, 4, 8}
INVARIANTS
  ViewInData
  PaintedInPlace
  GoneToIsVisible
  ThumbFollowsMouse
  PrintedOnce
  CopiedAsShown
PROPERTIES
  ArrowsKeepCaretVisible
CHECK_DEADLOCK FALSE
