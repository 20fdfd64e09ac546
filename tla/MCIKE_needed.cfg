SPECIFICATION MCSpec
CONSTANTS
  KeyIds = {k1}
  KeyShapes <- MissingOne
  Headers = {h1}
  Plain = {sa, Garbage}
  Types <- MCTypes
  FirstType <- MCFirstType
  Unencodable = {}
  Large = {}
  Unmarshal <- MCUnmarshal
  Garbage = Garbage
  Malformed = Malformed
  nil = nil
  MaxSeals = 2
  MaxNet = 2
  empty = empty
  sa = sa
  lossy = lossy
  rejected = rejected
  large = large
  bad = bad
  k1 = k1
  h1 = h1
INVARIANT NeededDataChecked
CHECK_DEADLOCK FALSE
