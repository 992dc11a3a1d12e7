------------------------------ MODULE TargetRow ------------------------------
(***************************************************************************)
(* Target functional rows of Compadre_Targets.hpp.  A row P_target_row    *)
(* has one column per basis monomial, in the graded order the basis uses: *)
(* degree n outermost, then the z exponent, then the y exponent.  A       *)
(* target operation either evaluates the basis (calcPij and its           *)
(* derivatives), or writes hard-coded columns; it may also abort the      *)
(* batch (compadre_kernel_assert_release) or do nothing.  This module     *)
(* models which branch of computeTargetFunctionals (four reconstruction   *)
(* spaces) handles each operation, the hard-coded writes of the           *)
(* Laplacian, divergence and curl branches, and the Laplacian row of      *)
(* computeTargetFunctionalsOnManifold.                                    *)
(***************************************************************************)
EXTENDS Integers, Sequences, Folds

CONSTANTS
  FlatSpaces,       \* reconstruction spaces of flat problems
  ManifoldSpaces,   \* reconstruction spaces of manifold problems
  Operations,       \* target operations requested of the other bases
  DivFreeOperations, \* target operations requested of the divergence-free basis
  Samplings,        \* polynomial sampling functionals
  FlatDims,         \* _dimensions of flat scalar problems
  VectorDims,       \* _dimensions of flat VectorTaylor and clones problems
  FlatOrders,       \* polynomial orders of flat problems
  ManifoldDims,     \* _dimensions of manifold problems (surface in 3D, curve in 2D)
  ManifoldOrders,   \* polynomial orders of manifold problems
  CurvatureOrders   \* _curvature_poly_order of manifold problems

ASSUME FlatDims \cup VectorDims \subseteq 1 .. 3 /\ ManifoldDims \subseteq 2 .. 3
ASSUME "DivFree" \notin ManifoldSpaces
ASSUME FlatOrders \subseteq Nat /\ ManifoldOrders \subseteq Nat
ASSUME CurvatureOrders \subseteq Nat

(***************************************************************************)
(* The graded monomial order (Targets.hpp:208-225): exponent triples      *)
(* <<x, y, z>> of degree n, z exponent outermost, then y.  In d < 3       *)
(* dimensions the missing exponents are 0.                                *)
(***************************************************************************)
RECURSIVE DegreeFrom(_, _, _)
DegreeFrom(d, n, az) ==
  IF az > (IF d = 3 THEN n ELSE 0) THEN <<>>
  ELSE [i \in 1 .. (IF d = 1 THEN 1 ELSE n - az + 1) |->
          IF d = 1 THEN <<n, 0, 0>> ELSE <<n - az - (i - 1), i - 1, az>>]
       \o DegreeFrom(d, n, az + 1)

RECURSIVE GradedExponents(_, _)
GradedExponents(d, p) ==
  IF p < 0 THEN <<>> ELSE GradedExponents(d, p - 1) \o DegreeFrom(d, p, 0)

(* target_NP: the number of monomials of order at most p in d dimensions. *)
NP(d, p) == Len(GradedExponents(d, p))

Columns(d, p) == 0 .. NP(d, p) - 1

VARIABLES
  manifold,  \* computeTargetFunctionalsOnManifold rather than computeTargetFunctionals
  curv,      \* on a manifold: the curvature fit's row (computeCurvatureFunctionals)
  space,     \* _reconstruction_space
  op,        \* _operations(i)
  sampling,  \* _polynomial_sampling_functional
  dims,      \* _dimensions (of the local reconstruction on a manifold)
  p,         \* _poly_order
  cp,        \* _curvature_poly_order
  extra,     \* additional_evaluation_sites_need_handled (Targets.hpp:31)
  scalarData, \* _data_sampling_multiplier = 0: the data functional has scalar output
  debug,     \* the build checks compadre_kernel_assert_debug
  result,    \* what the operation's branch did
  status     \* "ready", "done", or "aborted" by an assert

vars == <<manifold, curv, space, op, sampling, dims, p, cp, extra, scalarData, debug, result, status>>

(* Mutant: the 3D mixed xy column taken for y^2.                           *)
FlatLaplacianColumnsMixed(d) ==
  CASE d = 3 -> {4, 5, 9} [] d = 2 -> {3, 5} [] OTHER -> {2}

(* The columns the flat Laplacian sets to epsilon^-2 (Targets.hpp:82-98),  *)
(* chosen by the dimension alone.                                         *)
FlatLaplacianColumns(d) ==
  CASE d = 3 -> {4, 6, 9} [] d = 2 -> {3, 5} [] OTHER -> {2}

(* Mutant: the second-order terms written without the order guard.         *)
ManifoldLaplacianColumnsUnguarded(q, cq) ==
  (IF q > 0 /\ cq > 1 THEN {1, 2} ELSE {}) \cup (IF cq > 0 THEN {3, 4, 5} ELSE {})

(* Mutant: the second-order terms guarded by the test of the first-order *)
(* ones.                                                                   *)
ManifoldLaplacianColumnsCurvatureTwo(q, cq) ==
  (IF q > 0 /\ cq > 1 THEN {1, 2} ELSE {}) \cup (IF q > 1 /\ cq > 1 THEN {3, 4, 5} ELSE {})

(* The manifold Laplacian (Targets.hpp:1174-1186): the row zeroed over    *)
(* target_NP, the first-order curvature terms when p > 0 and the          *)
(* curvature order exceeds 1, the second-order terms when p > 1 and the   *)
(* curvature order is positive.                                           *)
ManifoldLaplacianColumns(q, cq) ==
  (IF q > 0 /\ cq > 1 THEN {1, 2} ELSE {}) \cup (IF q > 1 /\ cq > 0 THEN {3, 4, 5} ELSE {})


(***************************************************************************)
(* What one operation of the loop at Targets.hpp:54 does to the row.      *)
(* writes: hard-coded entries <<out, in, column, sign>> set to             *)
(* +-epsilon^-k at getTargetOffsetIndex(i, in, out, 0); partials: rows    *)
(* computed by calcGradientPij, as <<out, component, direction, sign>>;   *)
(* sites: the branch loops over the additional evaluation sites and sets  *)
(* additional_evaluation_sites_handled; hessian: the calcHessianPij rows  *)
(* assigned or added in order, as <<out, component, dir1, dir2, sign>>.  *)
(* "assert" is a                                                          *)
(* compadre_kernel_assert_release(false), which aborts the batch; "none"  *)
(* is a branch that writes nothing and raises nothing.                    *)
(***************************************************************************)
Outcome(k, sites, writes, partials) ==
  [k |-> k, sites |-> sites, writes |-> writes, partials |-> partials, hessian |-> <<>>]
BasisRow(sites) == Outcome("row", sites, {}, {})
Written(writes) == Outcome("row", FALSE, writes, {})
Assert == Outcome("assert", FALSE, {}, {})
Silent == Outcome("none", FALSE, {}, {})

Analytic == "StaggeredEdgeAnalyticGradientIntegralSample"
EdgeIntegral == "StaggeredEdgeIntegralSample"

LaplacianWrites == {<<0, 0, c, 1>> : c \in FlatLaplacianColumns(dims)}

(* Mutant: the ScalarTaylor partial derivative without its dimension    *)
(* assert.                                                                 *)
AssertedPartialUnchecked(dir) == IF dims > dir THEN BasisRow(TRUE) ELSE Silent

(* PartialY and PartialZ of ScalarTaylor assert dims>1, dims>2            *)
(* (Targets.hpp:116, 124).                                                *)
AssertedPartial(dir) == IF dims > dir THEN BasisRow(TRUE) ELSE Assert

(* ScalarTaylorPolynomial (Targets.hpp:67-235).                           *)
ScalarTaylorRow ==
  CASE op = "ScalarPoint" \/ (op = "VectorPoint" /\ dims = 1) -> BasisRow(TRUE)
    [] op = "Laplacian" -> Written(LaplacianWrites)
    [] op \in {"Gradient", "PartialX"} -> BasisRow(TRUE)
    [] op = "PartialY" -> AssertedPartial(1)
    [] op = "PartialZ" -> AssertedPartial(2)
    [] op = "Divergence" /\ sampling = Analytic -> Written(LaplacianWrites)
    [] op = "FaceAverage" -> BasisRow(FALSE)
    [] OTHER -> Assert

(* Mutant: the y entry of the staggered divergence one column early.     *)
StaggeredDivergenceWritesShifted(d, n) ==
  CASE d = 3 -> {<<0, 0, 1, 1>>, <<0, 0, n + 1, 1>>, <<0, 0, 2 * n + 3, 1>>}
    [] d = 2 -> {<<0, 0, 1, 1>>, <<0, 0, n + 1, 1>>}
    [] OTHER -> {<<0, 0, 1, 1>>}

(* The staggered divergence of VectorTaylor (Targets.hpp:318-334): one    *)
(* row whose blocks of target_NP columns are the vector components.       *)
StaggeredDivergenceWrites(d, n) ==
  CASE d = 3 -> {<<0, 0, 1, 1>>, <<0, 0, n + 2, 1>>, <<0, 0, 2 * n + 3, 1>>}
    [] d = 2 -> {<<0, 0, 1, 1>>, <<0, 0, n + 2, 1>>}
    [] OTHER -> {<<0, 0, 1, 1>>}

(* VectorTaylor curl (Targets.hpp:348-431), in 3D and 2D.                 *)
VectorCurlWrites(d, n) ==
  IF d = 3
  THEN {<<0, 1, n + 3, -1>>, <<0, 2, 2 * n + 2, 1>>, <<1, 0, 3, 1>>,
        <<1, 2, 2 * n + 1, -1>>, <<2, 0, 2, -1>>, <<2, 1, n + 1, 1>>}
  ELSE {<<0, 1, n + 2, 1>>, <<1, 0, 1, -1>>}

(* VectorTaylorPolynomial (Targets.hpp:237-435).                          *)
VectorTaylorRow ==
  CASE op = "ScalarPoint" \/ (op = "VectorPoint" /\ dims = 1) -> BasisRow(TRUE)
    [] op \in {"VectorPoint", "Gradient", "GradientOfVector"} -> BasisRow(TRUE)
    [] op = "Divergence" /\ sampling = EdgeIntegral ->
         Written(StaggeredDivergenceWrites(dims, NP(dims, p)))
    [] op = "Divergence" ->
         Outcome("row", TRUE, {}, {<<0, m, m, 1>> : m \in 0 .. dims - 1})
    [] op = "Curl" /\ dims \in {2, 3} -> Written(VectorCurlWrites(dims, NP(dims, p)))
    [] op = "Curl" -> Silent
    [] OTHER -> Assert

(* The clones partials: guarded by if (dims>1), if (dims>2) with no else  *)
(* (Targets.hpp:521, 531).                                                *)
GuardedPartial(dir) == IF dims > dir THEN BasisRow(TRUE) ELSE Silent

(* The clones divergence (Targets.hpp:539-563): one row per input        *)
(* component, column 1, 2, 3 for the components that exist.              *)
ClonesDivergenceWrites ==
  {<<0, 0, 1, 1>>} \cup (IF dims > 1 THEN {<<0, 1, 2, 1>>} ELSE {})
                   \cup (IF dims > 2 THEN {<<0, 2, 3, 1>>} ELSE {})

(* Mutant: the second output of the 3D clones curl with its signs         *)
(* swapped.                                                                *)
ClonesCurlWritesFlipped(d) ==
  IF d = 3
  THEN {<<0, 1, 3, -1>>, <<0, 2, 2, 1>>, <<1, 0, 3, -1>>, <<1, 2, 1, 1>>,
        <<2, 0, 2, -1>>, <<2, 1, 1, 1>>}
  ELSE {<<0, 1, 2, 1>>, <<1, 0, 1, -1>>}

(* The clones curl (Targets.hpp:564-691), in 3D and 2D.                   *)
ClonesCurlWrites(d) ==
  IF d = 3
  THEN {<<0, 1, 3, -1>>, <<0, 2, 2, 1>>, <<1, 0, 3, 1>>, <<1, 2, 1, -1>>,
        <<2, 0, 2, -1>>, <<2, 1, 1, 1>>}
  ELSE {<<0, 1, 2, 1>>, <<1, 0, 1, -1>>}

(* VectorOfScalarClonesTaylorPolynomial (Targets.hpp:441-699).            *)
ClonesRow ==
  CASE op = "ScalarPoint" \/ (op = "VectorPoint" /\ dims = 1) -> BasisRow(TRUE)
    [] op = "VectorPoint" -> BasisRow(TRUE)
    [] op = "Laplacian" -> Written(LaplacianWrites)
    [] op \in {"Gradient", "GradientOfVector", "PartialX"} -> BasisRow(TRUE)
    [] op = "PartialY" -> GuardedPartial(1)
    [] op = "PartialZ" -> GuardedPartial(2)
    [] op = "Divergence" -> Written(ClonesDivergenceWrites)
    [] op = "Curl" /\ dims \in {2, 3} -> Written(ClonesCurlWrites(dims))
    [] op = "Curl" -> Silent
    [] OTHER -> Assert

(* Mutant: the 2D divergence-free curl with the partial directions        *)
(* exchanged.                                                              *)
DivFreeCurlPartialsTransposed ==
  IF dims = 3
  THEN {<<0, 2, 1, 1>>, <<0, 1, 2, -1>>, <<1, 2, 0, -1>>, <<1, 0, 2, 1>>,
        <<2, 1, 0, 1>>, <<2, 0, 1, -1>>}
  ELSE {<<0, 1, 1, 1>>, <<0, 0, 0, -1>>}

(* The divergence-free curl (Targets.hpp:722-794): differences of         *)
(* calcGradientPij rows of the components the comments name (u2y - u1z,   *)
(* -u2x + u0z, u1x - u0y; in 2D u1x - u0y).  The 2D branch first sets     *)
(* columns 2 and 3, which the calcGradientPij rows overwrite.             *)
DivFreeCurlPartials ==
  IF dims = 3
  THEN {<<0, 2, 1, 1>>, <<0, 1, 2, -1>>, <<1, 2, 0, -1>>, <<1, 0, 2, 1>>,
        <<2, 1, 0, 1>>, <<2, 0, 1, -1>>}
  ELSE {<<0, 1, 0, 1>>, <<0, 0, 1, -1>>}

(* Mutant: the 3D second output's u0yx term read from component 1.       *)
DivFreeCurlCurlHessiansMixed ==
  IF dims = 3
  THEN <<<<0, 1, 0, 1, 1>>, <<0, 0, 1, 1, -1>>, <<0, 2, 0, 2, 1>>, <<0, 0, 2, 2, -1>>,
         <<1, 1, 0, 0, -1>>, <<1, 1, 1, 0, 1>>, <<1, 2, 1, 2, 1>>, <<1, 1, 2, 2, -1>>,
         <<2, 2, 0, 0, -1>>, <<2, 0, 2, 0, 1>>, <<2, 2, 1, 1, -1>>, <<2, 1, 2, 1, 1>>>>
  ELSE <<<<0, 0, 0, 0, 1>>, <<0, 1, 1, 0, 1>>, <<0, 0, 0, 0, -1>>, <<0, 0, 1, 1, -1>>,
         <<1, 0, 0, 1, 1>>, <<1, 1, 1, 1, 1>>, <<1, 1, 0, 0, -1>>, <<1, 1, 1, 1, -1>>>>

(* The divergence-free curl curl (Targets.hpp:795-933): per output the    *)
(* calcHessianPij rows the comments name (u1xy - u0yy + u2xz - u0zz, ...); *)
(* in 2D grad(div u) - laplace(u) term by term, so u0xx and u1yy are      *)
(* added and then subtracted.                                              *)
DivFreeCurlCurlHessians ==
  IF dims = 3
  THEN <<<<0, 1, 0, 1, 1>>, <<0, 0, 1, 1, -1>>, <<0, 2, 0, 2, 1>>, <<0, 0, 2, 2, -1>>,
         <<1, 1, 0, 0, -1>>, <<1, 0, 1, 0, 1>>, <<1, 2, 1, 2, 1>>, <<1, 1, 2, 2, -1>>,
         <<2, 2, 0, 0, -1>>, <<2, 0, 2, 0, 1>>, <<2, 2, 1, 1, -1>>, <<2, 1, 2, 1, 1>>>>
  ELSE <<<<0, 0, 0, 0, 1>>, <<0, 1, 1, 0, 1>>, <<0, 0, 0, 0, -1>>, <<0, 0, 1, 1, -1>>,
         <<1, 0, 0, 1, 1>>, <<1, 1, 1, 1, 1>>, <<1, 1, 0, 0, -1>>, <<1, 1, 1, 1, -1>>>>

(* The divergence-free gradient of a vector (Targets.hpp:934-949): output *)
(* m1*d+m2 is the calcGradientPij row of component m1 in direction m2.    *)
DivFreeGradientPartials ==
  {<<m1 * dims + m2, m1, m2, 1>> : m1, m2 \in 0 .. dims - 1}

(* DivergenceFreeVectorTaylorPolynomial (Targets.hpp:700-949): its chain  *)
(* has no final else, so another operation falls through.                 *)
DivFreeRow ==
  CASE op = "VectorPoint" -> BasisRow(TRUE)
    [] op = "CurlCurl" -> [BasisRow(TRUE) EXCEPT !.hessian = DivFreeCurlCurlHessians]
    [] op = "GradientOfVector" -> Outcome("row", TRUE, {}, DivFreeGradientPartials)
    [] op = "Curl" -> Outcome("row", TRUE, {}, DivFreeCurlPartials)
    [] OTHER -> Silent

(* The reconstruction-space chain of computeTargetFunctionals; its else  *)
(* asserts (Targets.hpp:950-951).                                          *)
FlatRow ==
  CASE space = "ScalarTaylor" -> ScalarTaylorRow
    [] space = "VectorTaylor" -> VectorTaylorRow
    [] space = "Clones" -> ClonesRow
    [] space = "DivFree" -> DivFreeRow
    [] OTHER -> Assert

(***************************************************************************)
(* computeTargetFunctionalsOnManifold (Targets.hpp:1085-1741).  The row   *)
(* has target_NP = NP(_dimensions - 1, p) columns per block; a rank-1     *)
(* (VectorTaylor) basis has one block per tangent component.              *)
(***************************************************************************)
(* _reconstruction_space_rank (the ActualReconstructionSpaceRank table,    *)
(* GMLS_Operators.hpp, not under src/).                                    *)
Rank == IF space = "VectorTaylor" THEN 1 ELSE 0

MNP == NP(dims - 1, p)

ScalarWrites(cols) == {<<0, 0, c, 1>> : c \in cols}

(* Entries 0..2 of the block starting at column base, written with the    *)
(* curvature-corrected coefficients c0, c1, c2 at offset (in, 0).          *)
FirstOrderBlock(in, base) == {<<0, in, base + c, 1>> : c \in 0 .. 2}

ManifoldLaplacianWrites == ScalarWrites(ManifoldLaplacianColumns(p, cp))

(* ChainedStaggeredLaplacian (Targets.hpp:1190-1261): no else for other  *)
(* spaces.                                                                 *)
ChainedStaggeredRow ==
  CASE space = "VectorTaylor" -> Written(FirstOrderBlock(0, 0) \cup FirstOrderBlock(0, MNP))
    [] space = "ScalarTaylor" -> Written(ManifoldLaplacianWrites)
    [] OTHER -> Silent

(* Mutant: the second output in the second block for every rank.        *)
VectorLaplacianRowBlocked ==
  Written({<<0, 0, c, 1>> : c \in ManifoldLaplacianColumns(p, cp)}
          \cup {<<1, 1, MNP + c, 1>> : c \in ManifoldLaplacianColumns(p, cp)})

(* VectorLaplacian (Targets.hpp:1262-1372): the Laplacian row on the      *)
(* diagonal blocks, in a block of the row (rank 1) or at the in=out      *)
(* offsets (rank 0).                                                       *)
VectorLaplacianRow ==
  Written({<<0, 0, c, 1>> : c \in ManifoldLaplacianColumns(p, cp)}
          \cup {<<1, 1, Rank * MNP + c, 1>> : c \in ManifoldLaplacianColumns(p, cp)})

(* Mutant: the unsupported gradients without their asserts.              *)
ManifoldGradientRowUnchecked ==
  IF Rank = 0 /\ sampling \in {"PointSample", "ManifoldVectorPointSample"}
  THEN Written(IF p > 0 /\ cp > 0 THEN {<<0, 0, 1, 1>>, <<1, 0, 2, 1>>} ELSE {})
  ELSE Silent

(* GradientOfScalarPointEvaluation (Targets.hpp:1373-1429): the x and y  *)
(* entries are set only when p > 0 and the curvature order is positive.  *)
ManifoldGradientRow ==
  IF Rank = 0 /\ sampling \in {"PointSample", "ManifoldVectorPointSample"}
  THEN Written(IF p > 0 /\ cp > 0 THEN {<<0, 0, 1, 1>>, <<1, 0, 2, 1>>} ELSE {})
  ELSE Assert

(* DivergenceOfVectorPointEvaluation (Targets.hpp:1430-1571).             *)
ManifoldDivergenceRow ==
  CASE Rank = 1 /\ sampling = "ManifoldVectorPointSample" ->
         Written(FirstOrderBlock(0, 0) \cup FirstOrderBlock(1, MNP))
    [] Rank = 0 /\ sampling = "ManifoldVectorPointSample" ->
         Written(FirstOrderBlock(0, 0) \cup FirstOrderBlock(1, 0))
    [] Rank = 1 /\ sampling = EdgeIntegral ->
         Written(FirstOrderBlock(0, 0) \cup FirstOrderBlock(0, MNP))
    [] OTHER -> Assert

(* target_NP basis entries (delta) in output out, input in, from column  *)
(* base.                                                                   *)
BasisBlock(out, in, base) == {<<out, in, base + j, 1>> : j \in 0 .. MNP - 1}

(* VectorPointEvaluation (Targets.hpp:1096-1152): the basis on the        *)
(* diagonal, in the second block of the row for a rank-1 basis and at     *)
(* the in=out offset for a rank-0 basis; the off-diagonal entries zeroed. *)
ManifoldVectorPointRow ==
  Outcome("row", TRUE, BasisBlock(0, 0, 0) \cup BasisBlock(1, 1, Rank * MNP), {})

(* GaussianCurvaturePointEvaluation (Targets.hpp:1572-1591): column 0     *)
(* holds the curvature of the fitted surface at each site.                *)
GaussianCurvatureRow == Outcome("row", TRUE, {<<0, 0, 0, 1>>}, {})

(* CurlOfVectorPointEvaluation (Targets.hpp:1592-1629): SurfaceCurlOfScalar *)
(* for every monomial of order n <= p in the tangent coordinates, index   *)
(* counting up, in outputs 0 and 1.                                       *)
SurfaceCurlRow ==
  Outcome("row", TRUE, {<<o, 0, j, 1>> : o \in {0, 1}, j \in 0 .. NP(2, p) - 1}, {})

(* A curve in 2D evaluates points only (Targets.hpp:1726-1738).           *)
CurveRow == IF op = "ScalarPoint" THEN BasisRow(TRUE) ELSE Assert

(* The chain for a 2D surface in 3D, and for a curve in 2D.               *)
ManifoldRow ==
  IF dims = 3
  THEN CASE op = "ScalarPoint" -> BasisRow(TRUE)
         [] op = "VectorPoint" -> ManifoldVectorPointRow
         [] op = "GaussianCurvature" -> GaussianCurvatureRow
         [] op = "Curl" -> SurfaceCurlRow
         [] op = "Laplacian" -> Written(ManifoldLaplacianWrites)
         [] op = "ChainedStaggeredLaplacian" -> ChainedStaggeredRow
         [] op = "VectorLaplacian" -> VectorLaplacianRow
         [] op = "Gradient" -> ManifoldGradientRow
         [] op = "Divergence" -> ManifoldDivergenceRow
         [] op = "FaceAverage" -> BasisRow(FALSE)
         [] OTHER -> Assert
  ELSE CurveRow

(***************************************************************************)
(* computeCurvatureFunctionals (Targets.hpp:962-1036): the rows of the    *)
(* curvature fit, of order _curvature_poly_order in the dims-1 tangent     *)
(* coordinates.  It has no additional-sites check.                        *)
(***************************************************************************)
(* Mutant: the second tangent derivative taken for a curve as well.      *)
CurvatureGradientPartialsUnguarded ==
  {<<0, 0, 0, 1>>} \cup (IF dims > 1 THEN {<<1, 0, 1, 1>>} ELSE {})

(* The gradient of the curvature function: partial direction 0 at output *)
(* 0, and direction 1 at output 1 when _dimensions > 2 (1007-1030).      *)
CurvatureGradientPartials ==
  {<<0, 0, 0, 1>>} \cup (IF dims > 2 THEN {<<1, 0, 1, 1>>} ELSE {})

CurvatureRow ==
  CASE op = "ScalarPoint" -> BasisRow(FALSE)
    [] op = "Gradient" -> Outcome("row", FALSE, {}, CurvatureGradientPartials)
    [] OTHER -> Assert

(* A problem the row may be built for.  The divergence-free basis exists *)
(* in 2D and 3D, and is not used on manifolds.  The user hook included at *)
(* Targets.hpp:62 handles no operation.                                   *)
Init ==
  /\ \/ /\ manifold = FALSE
        /\ space \in FlatSpaces
        /\ op \in (IF space = "DivFree" THEN DivFreeOperations ELSE Operations)
        /\ dims \in CASE space = "DivFree" -> FlatDims \ {1}
                     [] space \in {"VectorTaylor", "Clones"} -> VectorDims
                     [] OTHER -> FlatDims
        /\ p \in FlatOrders
        /\ cp = 0
        /\ curv = FALSE
     \/ /\ manifold = TRUE
        /\ space \in ManifoldSpaces
        /\ op \in Operations
        /\ dims \in ManifoldDims
        /\ p \in ManifoldOrders
        /\ cp \in CurvatureOrders
        /\ curv \in BOOLEAN
  /\ sampling \in Samplings
  /\ extra \in BOOLEAN
  /\ scalarData \in BOOLEAN
  /\ debug \in BOOLEAN
  /\ result = Silent
  /\ status = "ready"

(* One pass of the operation loop: the branch runs, then the check of     *)
(* additional sites (Targets.hpp:957, 1740) aborts when sites were asked  *)
(* for and the branch did not handle them.                                *)
Run(r, aborts) ==
  /\ status = "ready"
  /\ result' = r
  /\ status' = IF aborts THEN "aborted" ELSE "done"
  /\ UNCHANGED <<manifold, curv, space, op, sampling, dims, p, cp, extra, scalarData, debug>>

RunBranch(r) == Run(r, r.k = "assert" \/ (extra /\ ~r.sites))

(* The clones basis with scalar data and a polynomial sampling other than *)
(* PointSample (Targets.hpp:20-28).  The check is a                        *)
(* compadre_kernel_assert_debug, whose macro is defined outside the tree: *)
(* a debug build aborts, a release build goes on to the operation loop.  *)
ClonesSamplingMismatch ==
  dims > 1 /\ space = "Clones" /\ scalarData /\ sampling # "PointSample"

ComputeTargetFunctionals ==
  /\ ~manifold
  /\ \/ debug /\ ClonesSamplingMismatch /\ Run(Assert, TRUE)
     \/ ~(debug /\ ClonesSamplingMismatch) /\ RunBranch(FlatRow)

ComputeTargetFunctionalsOnManifold == manifold /\ ~curv /\ RunBranch(ManifoldRow)

ComputeCurvatureFunctionals == manifold /\ curv /\ Run(CurvatureRow, CurvatureRow.k = "assert")

Next ==
  \/ ComputeTargetFunctionals
  \/ ComputeTargetFunctionalsOnManifold
  \/ ComputeCurvatureFunctionals

Spec == Init /\ [][Next]_vars

-----------------------------------------------------------------------------
Finished == status = "done"

(* The columns of the pure second powers x^2, y^2, z^2 of the basis.       *)
PureSquares(d, q) ==
  {k \in Columns(d, q) :
     LET e == GradedExponents(d, q)[k + 1]
     IN  \E j \in 1 .. d : e[j] = 2 /\ \A i \in 1 .. 3 \ {j} : e[i] = 0}

(* The direction 0, 1, 2 of basis column k when it is a first-degree      *)
(* monomial x, y, z; -1 otherwise.                                         *)
DirOf(k) ==
  IF k \in Columns(dims, p)
     /\ GradedExponents(dims, p)[k + 1] \in {<<1, 0, 0>>, <<0, 1, 0>>, <<0, 0, 1>>}
  THEN CHOOSE j \in 0 .. 2 : GradedExponents(dims, p)[k + 1][j + 1] = 1
  ELSE -1

(* A hard-coded entry read as a derivative <<out, component, direction,   *)
(* sign>>: a VectorTaylor row holds the components in blocks of          *)
(* target_NP columns, a clones row holds one component.                   *)
Term(w) ==
  LET n == NP(dims, p)
  IN  IF space = "VectorTaylor" THEN <<w[1], w[3] \div n, DirOf(w[3] % n), w[4]>>
      ELSE <<w[1], w[2], DirOf(w[3]), w[4]>>

Terms == result.partials \cup {Term(w) : w \in result.writes}

(* A row of an operation that completes without an assert evaluates      *)
(* something: an unsupported operation, space and dimension must abort     *)
(* the batch rather than return a zero row (spec: NotImplemented errors   *)
(* fail fast).                                                            *)
UnsupportedOperationFails == Finished => result.k = "row"

(* A flat Laplacian row of order at least 2, and the ScalarTaylor         *)
(* staggered divergence that is a Laplacian of the potential, have        *)
(* epsilon^-2 exactly in the columns of x^2, y^2 and z^2 of the graded    *)
(* basis, in every dimension.                                             *)
LaplacianSelectsSquares ==
  Finished /\ ~manifold /\ p >= 2
  /\ (op = "Laplacian" \/ (op = "Divergence" /\ space = "ScalarTaylor"))
  => {w[3] : w \in result.writes} = PureSquares(dims, p)

(* Every hard-coded entry lies inside the row: below target_NP times the  *)
(* number of component blocks.                                            *)
RowWidth ==
  IF manifold THEN MNP * (IF Rank = 1 THEN dims - 1 ELSE 1)
  ELSE NP(dims, p) * (IF space = "VectorTaylor" THEN dims ELSE 1)

RowColumnsInRange == Finished => \A w \in result.writes : w[3] < RowWidth

(* A divergence row is the sum over the components m of d/dx_m of        *)
(* component m.                                                            *)
DivergenceMatchesReference ==
  Finished /\ ~manifold /\ op = "Divergence" /\ space # "ScalarTaylor" =>
    Terms = {<<0, m, m, 1>> : m \in 0 .. dims - 1}

(* The curl of u: output q is d/dx_(q+1) u_(q+2) - d/dx_(q+2) u_(q+1) in  *)
(* 3D, and the single output d/dx u_1 - d/dy u_0 in 2D.                   *)
CurlReference ==
  IF dims = 3
  THEN UNION {{<<q, (q + 2) % 3, (q + 1) % 3, 1>>, <<q, (q + 1) % 3, (q + 2) % 3, -1>>} :
                q \in 0 .. 2}
  ELSE {<<0, 1, 0, 1>>, <<0, 0, 1, -1>>}

(* A curl row, whichever basis it is built from, is the curl.            *)
CurlMatchesReference == Finished /\ ~manifold /\ op = "Curl" => Terms = CurlReference

(* The coefficient a hessian row list gives to d2/dx_a dx_b of component *)
(* c in output q, the order of the two directions immaterial.             *)
HessianCoefficient(h, q, c, a, b) ==
  LET I == {i \in DOMAIN h : h[i][1] = q /\ h[i][2] = c /\ {h[i][3], h[i][4]} = {a, b}}
  IN  MapThenFoldSet(+, 0, LAMBDA i : h[i][5], LAMBDA s : CHOOSE x \in s : TRUE, I)

(* curl curl u = grad(div u) - laplace(u): output q has d2/dx_q dx_c of   *)
(* component c, minus d2/dx_a^2 of component q.                           *)
CurlCurlCoefficient(q, c, a, b) ==
  (IF {a, b} = {q, c} THEN 1 ELSE 0) - (IF c = q /\ a = b THEN 1 ELSE 0)

(* A curl curl row, after every term is assigned or added in the code's   *)
(* order, has for every output, component and pair of directions the      *)
(* coefficient of curl curl u, in 2D and in 3D.                           *)
CurlCurlMatchesReference ==
  Finished /\ ~manifold /\ op = "CurlCurl" =>
    \A q, c, a, b \in 0 .. dims - 1 :
      HessianCoefficient(result.hessian, q, c, a, b) = CurlCurlCoefficient(q, c, a, b)

(* On a surface, the Laplace-Beltrami row of order p >= 2 has the x^2 and *)
(* y^2 entries for every curvature order: with the curvature coefficients *)
(* zero the formula gives 1/h^2, and a zero row would reproduce no        *)
(* polynomial.                                                             *)
ManifoldLowOrderTerms ==
  Finished /\ manifold /\ ~curv /\ dims = 3 /\ op = "Laplacian" /\ p >= 2 =>
    {3, 5} \subseteq {w[3] : w \in result.writes}

(* The direction of tangent-basis column k when it is a first-degree      *)
(* monomial of the dims-1 tangent coordinates; -1 otherwise.              *)
TangentDir(k) ==
  LET e == GradedExponents(dims - 1, 1)
  IN  IF k \in 1 .. Len(e) - 1 THEN CHOOSE j \in 0 .. 2 : e[k + 1][j + 1] = 1 ELSE -1

(* A manifold gradient row read as <<output, direction>> pairs.            *)
GradientTerms ==
  {<<w[1], TangentDir(w[3])>> : w \in result.writes} \cup {<<t[1], t[3]>> : t \in result.partials}

(* Every gradient row on a manifold, of the curvature fit                 *)
(* (computeCurvatureFunctionals) or of the target                         *)
(* (computeTargetFunctionalsOnManifold), has one output per tangent        *)
(* direction, holding the derivative in that direction: one for a curve,  *)
(* two for a surface.  AssembleManifoldPsqrtW reads output k of the       *)
(* curvature gradient for every k < _dimensions-1 (GMLS.cpp:509-517).    *)
TangentGradientComplete ==
  Finished /\ manifold /\ op = "Gradient" =>
    GradientTerms = {<<m, m>> : m \in 0 .. dims - 2}


(* At every polynomial and curvature order the setters accept, a         *)
(* hard-coded row fits its order: its entries lie inside target_NP, and  *)
(* once the polynomial order is high enough for the operator (p >= 2 for *)
(* the manifold Laplacian, p >= 1 for a gradient) the row holds every     *)
(* term of the operator, whatever the curvature order.  The order guards  *)
(* of Targets.hpp:87, 1183, 1398 and 1465 decide it.                      *)
RowsFitOrder ==
  RowColumnsInRange /\ ManifoldLowOrderTerms /\ (p >= 1 => TangentGradientComplete)

========================================================================
