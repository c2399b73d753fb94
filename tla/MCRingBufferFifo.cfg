CONSTANTS
  Size <- MCSize
  Values <- MCValues
  Blocks <- MCBlocks
  Amounts <- MCAmounts
SPECIFICATION RingBufferSpec
PROPERTY ImplementsFifo
