SPECIFICATION Spec
CONSTANTS
  NProcs = 3
  Privileged = {1}
  Entries = 26
  HeapPages = 1
  StackPages = 2
  PageSize = 2
  Windows = {6}
  File <- MCFile
  Device <- MCDevice
  Buffers <- MCBuffers
  Ram <- MCZeroRam
INVARIANTS
  NoConflict
  KernelStacksMapped
  OwnAddressSpaces
  
CHECK_DEADLOCK FALSE
