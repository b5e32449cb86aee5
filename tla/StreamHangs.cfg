SPECIFICATION StreamSpec
CONSTANTS
  StreamTiles = 6
  StreamWorkers = 2
  QueueDepth = 1
CHECK_DEADLOCK FALSE
PROPERTIES
  StreamEnds
