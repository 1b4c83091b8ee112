SPECIFICATION Spec
CONSTANTS
  t1 = t1  t2 = t2  t3 = t3
  p1 = p1  p2 = p2  p3 = p3  p4 = p4  p5 = p5
  None = None
  Threads = {t1, t2, t3}
  Pages = {p1, p2, p3, p4}
  PageSize = 2
  Word = 8
  Bytes = {0, 1}
  Zero = 0
  Sizes = {1, 3}
  Ranges <- WrapRanges
  MmapFails = FALSE
PROPERTIES ReadsInBounds
