SPECIFICATION RingSpec
CONSTANTS
  RingCells = {0, 1, 2}
  ZeroCell = 0
  RING_CAP = 4
PROPERTIES IsFifo
