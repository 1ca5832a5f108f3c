CONSTANTS
  NPROCS = 5
  NEssential = 2
  Data = {d}
  Receivers = {0, 2, 4}
  MaxPackets = 3
SPECIFICATION RRSpec
INVARIANTS
  TypeOK
  RunningIsRunnable
  ReceiverHasPlaceholder
  BlockedSenderIsQueued
PROPERTIES ReleaseConsumesPacket ReadyRuns NoOvertaking
CHECK_DEADLOCK FALSE
