SPECIFICATION FlightSpec
CONSTANTS
  cim = cim
  gpu = gpu
  npu = npu
  Sharers <- MCSharers
  Channels <- MCChannels
  MaxStreams = 3
INVARIANTS
  MaxMinFair
PROPERTIES
  NeighboursOnlyLose
