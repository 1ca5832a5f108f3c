CONSTANTS
  NWords = 2
  WordBits = 2
  Loaders = {l1, l2}
SPECIFICATION Spec
INVARIANT OwnPages
