SPECIFICATION MCSpec
CONSTANTS
  Octet = 6
  Known = {1, 2, 3, 4}
  SK = 4
  Prefix <- MCPrefix
  Containers <- MCContainers
  MaxGot = 20
INVARIANTS TypeOK ChainRoundTrip Accounted TruncatedReadsPrefix
INVARIANTS HeaderAsTold ReencodesAsReceived 
PROPERTY DecodeAdvances DecodeTerminates
CHECK_DEADLOCK FALSE
