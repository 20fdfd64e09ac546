SPECIFICATION Spec
CONSTANTS
  Octet = 8
  Data = {d1, d2}
  MaxObjects = 3
  MaxMessages = 2
  MaxParts = 1
  Spare = 1
  Codes = {1, 3, 4}
  Addresses = {"", "IPv4", "other"}
  QFIs <- MCQFIs
  NASPDUs <- MCNASPDUs
INVARIANTS TypeOK    VendorDataReadable
SYMMETRY MCSymmetry
CONSTRAINT MCConstraint
