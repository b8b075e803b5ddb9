SPECIFICATION ConsoleSpec
CONSTANTS
  MaxPuts = 3
  MaxSessions = 2
  Chars = {a, b}
  Blank = blank
  Rows = 3
  Columns = 2
  Packets = {p, q, r}
  MaxCount = 2
PROPERTIES
  KeysAreRead
  
  DrawnIsShown
CHECK_DEADLOCK FALSE
