SPECIFICATION Spec
CONSTANTS
  t1 = t1  t2 = t2  t3 = t3
  p1 = p1  p2 = p2  p3 = p3  p4 = p4  p5 = p5
  None = None
  Threads = {t1, t2, t3}
  Pages = {p1, p2, p3, p4}
  PageSize = 2
  Word = 8
  Bytes = {0, 1}
  Zero = 0
  Sizes = {3, 7}
  Ranges <- SmallRanges
  MmapFails = TRUE
SYMMETRY Symmetry
INVARIANTS TypeOK RefCountsExact MappedIsHeld
PROPERTIES ImplementsPrivate
