CONSTANTS
  NumVertices = 3
  NumQuadrature = 2
  Branches = {FALSE}
  Norms = {1}
  WeightNums = {1, 2}
  MonomialValues = {0, 1, 2}
SPECIFICATION Spec
CHECK_DEADLOCK FALSE
INVARIANT FaceAverageExact
