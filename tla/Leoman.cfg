CONSTANTS
  NPROCS = 6
  NEssential = 4
  Garbage <- MCGarbage
  Shifts = {lshift}
  Keys = {}
  NoKey = NoKey
  Data <- Messages
  Receivers = {}
  MaxPackets = 5
SPECIFICATION LMSpec
INVARIANTS OwnMessages EachPressOnce ShiftNotStuck
PROPERTY ShellEchoes
CHECK_DEADLOCK FALSE
