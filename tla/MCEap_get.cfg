SPECIFICATION MCSpec
CONSTANTS
  Octet = 8
  EapTypeAkaPrime = 5
  EapTypeExpanded = 6
  EapMD5ChallengeSize = 2
  MaxPackets = 0
  Packets <- MCPackets
  Settings <- MCSettings
  Foreign = {}
  MaxAttrs = 2
  ChangedTo = {}
INVARIANT SetThenGet
CHECK_DEADLOCK FALSE
