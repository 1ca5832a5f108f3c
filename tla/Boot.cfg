CONSTANTS
  Discs <- MCDiscs
  Shorter <- MCShorter
  Sector = 8
  Unit = 2
  Wrap = 16
  Dword = 2
  High = 12
  Bios <- MCBios
  Entries = 5
  Slots = 10
  KernBase = 2
  KernLen = 4
  Word = 2
  Cores = {1, 2, 3}
  Tables <- MCTables
  MaxTries = 2
SPECIFICATION KSpec
INVARIANTS
  
  
  OwnStacks
  ImageLoaded
  Boots
  OutputPortKept
PROPERTY BootGoesOn
CHECK_DEADLOCK FALSE
