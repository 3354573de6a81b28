\* Each AVL tree of 7, 9 and 12 nodes, and a few operations; a tablist of up
\* to four keys, added, changed and removed in any order.
SPECIFICATION ContainersSpec
CONSTANTS
  NNodesMax = 14
  HiInsertionKey = 25
  Keys <- AllKeys
  CriticalHeight = 18
  MaxOperations = 2
  TableKeys = {k1, k2, k3, k4}
  TableValues = {v1, v2}
  NONE = NONE
INVARIANTS
  TreeHolds
  AccessKeysHold
PROPERTY
  TablistIsTable
\* The number of operations is bounded.
CHECK_DEADLOCK FALSE
