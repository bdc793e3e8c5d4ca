CONSTANTS
  size = 4
  Callbacks = {a, b, c}
  Null = Null
SPECIFICATION Spec
INVARIANT TypeOK
INVARIANT NeverThrows
PROPERTY ImplementsFifo
