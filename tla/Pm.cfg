CONSTANTS
  NWords = 2
  WordBits = 2
  Loaders = {l1, l2, l3}
SPECIFICATION Spec
INVARIANTS BootPagesKept SerialIsSafe
SYMMETRY LoaderSymmetry
