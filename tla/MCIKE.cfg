SPECIFICATION MCSpec
CONSTANTS
  KeyIds = {k1, k2}
  KeyShapes <- MissingOne
  Headers = {h1, h2}
  Plain = {empty, sa, lossy, rejected, large, bad, Garbage}
  Types <- MCTypes
  FirstType <- MCFirstType
  Unencodable = {bad}
  Large = {large}
  Unmarshal <- MCUnmarshal
  Garbage = Garbage
  Malformed = Malformed
  nil = nil
  MaxSeals = 2
  MaxNet = 2
  empty = empty
  sa = sa
  lossy = lossy
  rejected = rejected
  large = large
  bad = bad
  k1 = k1
  h1 = h1
INVARIANTS TypeOK Authenticity RoundTrip
PROPERTY ImplementsSecureChannel
CHECK_DEADLOCK FALSE
