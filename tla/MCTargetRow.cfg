CONSTANTS
  FlatSpaces = {"ScalarTaylor", "VectorTaylor", "Clones", "DivFree"}
  ManifoldSpaces = {"ScalarTaylor", "VectorTaylor"}
  Operations = {"ScalarPoint", "VectorPoint", "Laplacian", "Gradient", "GradientOfVector", "PartialX", "PartialY", "PartialZ", "Divergence", "Curl", "CurlCurl", "FaceAverage", "ChainedStaggeredLaplacian", "VectorLaplacian", "GaussianCurvature"}
  DivFreeOperations = {"VectorPoint", "Curl", "CurlCurl", "GradientOfVector"}
  Samplings = {"PointSample", "StaggeredEdgeIntegralSample", "StaggeredEdgeAnalyticGradientIntegralSample", "ManifoldVectorPointSample"}
  FlatDims = {1, 2, 3}
  VectorDims = {3}
  FlatOrders = {2, 3, 4, 5, 6}
  ManifoldDims = {2, 3}
  ManifoldOrders = {1, 2, 3, 4, 5, 6}
  CurvatureOrders = {1, 2, 3}
SPECIFICATION Spec
CHECK_DEADLOCK FALSE
INVARIANT UnsupportedOperationFails LaplacianSelectsSquares RowColumnsInRange DivergenceMatchesReference CurlMatchesReference ManifoldLowOrderTerms TangentGradientComplete CurlCurlMatchesReference
