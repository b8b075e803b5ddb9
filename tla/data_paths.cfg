SPECIFICATION DataSpec
CONSTANTS
  TransferCount = 9
  EventCount = 3
  MaxOutstanding = 2
  Requests = {a, b}
INVARIANTS
  RequestsMatched
  ReadsLastWrite
  
  
SYMMETRY RequestsAlike
