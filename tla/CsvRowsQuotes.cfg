SPECIFICATION Spec
CONSTANTS
  MaxSymbols = 5
  ChunkSizes = {1, 2, 3}
INVARIANT StrayQuoteIsText
CHECK_DEADLOCK FALSE
