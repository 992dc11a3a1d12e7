CONSTANTS
  FlatSpaces = {"ScalarTaylor", "VectorTaylor", "Clones"}
  ManifoldSpaces = {"ScalarTaylor", "VectorTaylor"}
  Operations = {"Laplacian", "Gradient", "Divergence", "ChainedStaggeredLaplacian"}
  DivFreeOperations = {}
  Samplings = {"PointSample", "StaggeredEdgeIntegralSample", "StaggeredEdgeAnalyticGradientIntegralSample", "ManifoldVectorPointSample"}
  FlatDims = {1, 2, 3}
  VectorDims = {1, 2, 3}
  FlatOrders = {0, 1}
  ManifoldDims = {3}
  ManifoldOrders = {0, 2}
  CurvatureOrders = {0, 1, 2}
SPECIFICATION Spec
CHECK_DEADLOCK FALSE
INVARIANT RowsFitOrder
