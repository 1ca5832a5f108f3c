CONSTANTS
  NPROCS = 4
  NEssential = 2
  Lines = {0, 12}
  Forwarded = {12}
SPECIFICATION Spec
INVARIANTS OwnContext HandlerInItsSpace
PROPERTIES IsContexts Served
