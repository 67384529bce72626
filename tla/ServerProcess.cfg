SPECIFICATION ProcessSpec
CONSTANTS
  Names = {n1, n2}
  Tokens = {t1}
  n1 = n1
  n2 = n2
  Connections = {c1}
  Missing = Missing
  Blank = Blank
  Refused = Refused
  NoAccounts = NoAccounts
  NoRow = NoRow
  Origins <- SomeOrigins
  MaxAcceptErrors = 1
  MaxProbes = 1
  MaxStarts = 2
  MaxRemovals = 1
INVARIANTS
  
  EndedSignInsStayEnded
  RequestsFindTheirTables

  
CHECK_DEADLOCK FALSE
