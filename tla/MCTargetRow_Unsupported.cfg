CONSTANTS
  FlatSpaces = {"VectorTaylor", "Clones", "DivFree"}
  ManifoldSpaces = {"VectorTaylor", "Clones"}
  Operations = {"PartialY", "PartialZ", "Curl", "ChainedStaggeredLaplacian"}
  DivFreeOperations = {"ScalarPoint", "VectorPoint", "Laplacian", "Gradient", "GradientOfVector", "PartialX", "PartialY", "PartialZ", "Divergence", "Curl", "CurlCurl", "FaceAverage", "ChainedStaggeredLaplacian", "VectorLaplacian", "GaussianCurvature"}
  Samplings = {"PointSample", "StaggeredEdgeIntegralSample", "StaggeredEdgeAnalyticGradientIntegralSample", "ManifoldVectorPointSample"}
  FlatDims = {2, 3}
  VectorDims = {1, 2}
  FlatOrders = {1, 2}
  ManifoldDims = {3}
  ManifoldOrders = {1, 2}
  CurvatureOrders = {1, 2}
SPECIFICATION Spec
CHECK_DEADLOCK FALSE
INVARIANT UnsupportedOperationFails
