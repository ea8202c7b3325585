SPECIFICATION Spec
CONSTANTS
  Runes = {0, 97, 128512}
  MaxLen = 2
  MaxList = 3
  Blocks <- WrittenBlocks
INVARIANTS
  InBlock
  CutsAreStrings
  RoundTrip
CHECK_DEADLOCK FALSE
