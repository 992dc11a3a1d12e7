CONSTANTS
  NumVertices = 3
  NumQuadrature = 2
  Branches = {TRUE, FALSE}
  Norms = {1, 2}
  WeightNums = {1, 2}
  MonomialValues = {0, 1, 2}
SPECIFICATION Spec
CHECK_DEADLOCK FALSE
INVARIANT ManifoldFaceAverageExact ConstantReproduced
