SPECIFICATION MCSpec
CONSTANTS
  Octet = 16
  BlockSize = 4
  Lengths = {0, 1, 3, 4, 5, 7, 8, 11, 12}
  Paddings <- MCPaddings
  Keys = {"k1", "k2"}
  Garbage = {0, 3, 7, 15}
INVARIANTS CbcRoundTrip 
INVARIANTS StreamAsDefined
CHECK_DEADLOCK FALSE
