CONSTANTS
  screen_columns = 2
  screen_rows = 3
  Letters = {a}
  NL = NL
  Nul = Nul
  Blank = Blank
  BufSize = 2
SPECIFICATION Spec
PROPERTY IsTerminal
