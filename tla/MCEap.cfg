SPECIFICATION MCSpec
CONSTANTS
  Octet = 8
  EapTypeAkaPrime = 5
  EapTypeExpanded = 6
  EapMD5ChallengeSize = 2
  MaxPackets = 2
  Packets <- MCPackets
  Settings <- MCSettings
  Foreign <- MCForeign
  MaxAttrs = 2
  ChangedTo = {0, 1, 3, 4, 5, 11, 24, 134}
INVARIANTS EapRoundTrip  KeepsLastAccepted
INVARIANTS   VerifiedIsGenuine
CHECK_DEADLOCK FALSE
