\* Any operations on a queue that fills up, and is too tall with two keys.
SPECIFICATION Spec
CONSTANTS
  NNodesMax = 3
  HiInsertionKey = 3
  Keys <- ThreeKeys
  CriticalHeight = 0
PROPERTY
  IsPriceTimeQueue
