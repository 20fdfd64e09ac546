SPECIFICATION MCSpec
CONSTANTS
  Octet = 16
  SAs <- MCAll
  ChangedTo = {0, 1, 3, 4, 8, 9, 12, 15}
INVARIANTS SARoundTrip DamageStaysBehind OctetsAccounted
INVARIANTS StructuredRoundTrip 
PROPERTY UnmarshalTerminates
CHECK_DEADLOCK FALSE
