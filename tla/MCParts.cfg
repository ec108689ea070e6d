CONSTANTS
  x1 = x1
  x2 = x2
  y1 = y1
  y2 = y2
  y3 = y3
  p1 = p1
  p2 = p2
  d1 = d1
  d2 = d2
  r1 = r1
  t1 = t1
  t2 = t2
  f1 = f1
  h1 = h1
  Blocks <- Twins
  Days <- AllDays
  FirstDay <- d1
  Requests = {r1}
  People <- AllPeople
  Tours <- AllTours
  FirstTour <- t1
  Folders = {f1}
  Clients <- Twins
  Assets <- Triplets
  Owners <- Twins
  Photos = {h1}
  MaxSize = 2
  Quota = 3
  Calls = 2
  Members <- Twins
  Items <- Triplets
  MaxVersion = 4
  Tasks <- Twins
SPECIFICATION PartsSpec
SYMMETRY Symmetry
CHECK_DEADLOCK FALSE
INVARIANT CopiesExact
INVARIANT FiledWithOwner
INVARIANT FoundUnlessOvertaken
INVARIANT StorageAgrees
INVARIANT QuotaOverrunBounded
INVARIANT OnePhotoOneRow
INVARIANT SeededOnce
PROPERTY NoTextLost
