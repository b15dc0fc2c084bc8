SPECIFICATION Spec
CONSTANTS
  TreePrices = {1, 2, 3, 4}
  TreeTimes = {0, 1, 2}
INVARIANTS Balanced TraversalIsSorted KeyIsOrdersKey ExtremesFound
