CONSTANTS
  HeapSize = 60
  Header = 3
  Packet = 10
  MaxLive = 4
  MaxBlocks = 7
  Width = 1024
  Heads = {h1, h2}
  NULL = NULL
SPECIFICATION PSpec
INVARIANTS
  Disjoint
  BlocksReused
  LiveIsQueued
PROPERTY IsQueues
