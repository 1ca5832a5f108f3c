SPECIFICATION Spec
CONSTANTS
  Values <- MCValues
  Base = 10
  Columns = 3
  Rows = 2
  MaxPrints = 4
INVARIANTS
  MessagesWhole
  OutputsAgree
