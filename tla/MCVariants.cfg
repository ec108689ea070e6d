CONSTANTS
  main = main
  north = north
  south = south
  s1 = s1
  s2 = s2
  r1 = r1
  r2 = r2
  Variants <- AllVariants
  Slugs <- AllSlugs
  Requests <- AllRequests
  VariantLimit = 2
  None = None
SPECIFICATION VariantsSpec
SYMMETRY Symmetry
INVARIANT MainAgrees
PROPERTY MainLostOnlyWhenOvertaken
PROPERTY ClosedLinksStayClosed
