# TLA+ models of Compadre's GMLS engine

These modules model the generalized moving least squares (GMLS) engine in
`src/GMLS/src/GMLS.cpp` and the target-functional rows in
`src/src/Compadre_Targets.hpp`. They are checked with TLC.

## 1. The system

For every target site, `GMLS::generateAlphas` solves a small weighted
least-squares problem. It produces the coefficients `alpha`, and also the
*prestencil weights* when the data functional is not a point sample. All
per-target data lives in global Kokkos views sharded by `target_index`. A
kernel is launched as a league with one team per target.

| Part | Source | State it keeps | Operations |
|---|---|---|---|
| Orchestrator | GMLS.cpp:11-260 | `_alphas`, `_prestencil_weights`, `_P`, `_RHS`, `_w`, `_poly_order`, `_nontrivial_nullspace`, host mirrors | `generateAlphas`: allocate and zero the views, set flags, bump the order, launch the kernels, copy to the host |
| Manifold | GMLS.cpp:364-644 | `_V`, `_T`, `_manifold_metric_tensor_inverse`, curvature coefficients and gradient | `ComputeCoarseTangentPlane` (V), `AssembleManifoldPsqrtW` (curvature fit, T, G_inv, then P in the refined frame) |
| Flat assembly | GMLS.cpp:263-318 | P, RHS | `AssembleStandardPsqrtW` |
| LinAlg | not in the tree | P, RHS in place | `batchQRFactorize`, `batchSVDFactorize`, `applyQR` |
| TargetRow | Compadre_Targets.hpp:1-1741 | the row `P_target_row` | `computeTargetFunctionals`, `computeTargetFunctionalsOnManifold`, `computeCurvatureFunctionals` |
| Apply | GMLS.cpp:321-361, 646-733 | `_alphas` | `ApplyStandardTargets`, `ApplyManifoldTargets` |
| Prestencil | GMLS.cpp:736-838 | `_prestencil_weights` | `ComputePrestencilWeights`: assign from coefficients, T or V, or accumulate a quadrature with `+=` |
| PolyBasis, Weights | not in the tree | - | `createWeightsAndP`, `calcPij`, weighting kernel |
| Physics glue | src/physics, src/development | field values | boundary flagging and application, loops over points |

**How the parts interact.** The manifold pipeline is
CoarseTangentPlane -> AssembleManifoldPsqrtW -> (SVD if the nullspace flag is set, else QR)
-> ApplyManifoldTargets -> ComputePrestencilWeights. There is no fence
between these steps. The flat pipeline is AssembleStandardPsqrtW -> fence ->
(QR, or nothing for LU) -> fence -> ApplyStandardTargets. A fence and the host
copy follow either pipeline. Each stage of target *t* reads what earlier
stages wrote into *t*'s slice. Teams of one kernel run in any order.

**What is hard in this code.**
- Member state that survives calls: `_poly_order` is bumped in place, and the
  nullspace flag is sticky.
- Buffers that `+=` accumulates into, which must be freshly zeroed.
- Host mirrors that alias the device view on host builds but not on device
  builds.
- Stage ordering without fences.
- Branch-specific omissions: no prestencil on the flat branch, no
  factorization for LU, the nullspace flag ignored on the flat branch.
- Hard-coded column indices and overwrite-versus-accumulate logic in the
  target rows.

**Correctness properties by part.**
- Orchestrator: alphas come from this call's assembly and factorization;
  repeated calls agree; host copies are current; every call returns.
- Factorization: SVD is used whenever the sampling has a nullspace, also
  after the user has switched functionals between calls.
- Prestencil: populated exactly once per call, from this call's geometry.
- TargetRow: each row equals the functional it names (face average = cell
  average; Laplacian columns = the second-order monomials); unsupported
  requests fail loudly.

## 2. Modules

### `GMLS.tla` (with `MCGMLS.tla`): the orchestrator

**State.** Buffer contents are abstracted to *provenance tags*:
- `ls[t]` (P and RHS of target t): stage (`zero`, `curvature`, `assembled`,
  `QR`, `SVD`), call, polynomial order, and the call whose V it was
  assembled in;
- `geo[t]`: the call of V, and the call of the V that T/G_inv/curvature
  were built from;
- `alpha[t]`: copied from `ls[t]` by the apply kernel;
- `pre[t]`: call, number of full writes, and geometry.

**Mapping to the code.**
- `cfg`, `polyOrder` and `nullspace` are the members `_dense_solver_type`,
  the sampling functionals, `_poly_order` and `_nontrivial_nullspace`.
- `kernel` is the host's position in `generateAlphas`, and `done` holds the
  teams of the current kernel that have finished.

**Actions.**
- `StartGenerateAlphas`: the whole of lines 11-186, which allocate and zero
  the views.
- One action per kernel and target: `ComputeCoarseTangentPlane`,
  `AssembleManifoldPsqrtW`, `AssembleStandardPsqrtW`, `Factorize`,
  `ApplyStandardTargets`, `ApplyManifoldTargets`, `ComputePrestencilWeights`.
- `NextKernel`: the host launches the next kernel once the previous one is
  complete. This is immediate for the commented-out LU branch.
- `CopyBack`: lines 250-259. `HostMirror` is `create_mirror_view`: the device
  view itself when `HostMirrorAliases`, otherwise a new zeroed view. It also
  appends the call's order and polynomial sampling functional to the
  history variables `usedOrder` and `usedPoly`.
- `SetPolynomialSamplingFunctional`: between calls, the user sets another
  polynomial sampling functional used with the same solver in the run's
  configurations. The setter lives in GMLS.hpp, which is not under src/, so
  it is modelled from the spec's interface list: it stores the functional
  and nothing else. `NullspaceFlag` (lines 43-47) then sets the nullspace
  flag on the next call if the new functional has a nullspace, and never
  clears it.

### `GMLSAbstract.tla` and `GMLSRefinement.tla`: what a call promises

`GMLSAbstract` is what `generateAlphas` promises its caller, with no
kernels, teams or buffers. `Begin` starts a call. `Finish` returns it, and
the host then holds, for every target, the solution of this call at the
problem's order, plus this call's prestencil weights when the data functional
needs them. `Configure` lets the user set up a problem of another order
between calls, and leaves the host values alone. The host values change only
at `Finish`, and `WF(Finish)` makes every call return.

`GMLSRefinement` extends `MCGMLS` and instantiates `GMLSAbstract` with a
refinement mapping:
- `busy` is `kernel # "Idle"`;
- `order` is the bumped order of the configuration;
- `published[t]` is read from the host alphas' tag: the call and order when
  the tag says `QR` or `SVD` as the nullspace of *that call's* functional
  (read from `usedPoly`) needs, and a `Corrupt` value otherwise;
- `weights[t]` is the call of the host prestencil entry, when it was written
  exactly once from that call's geometry.

`AbsSpec` is checked as a `PROPERTY`. It holds on the configurations with
no finding against them. It fails on the others, which are checked one
property at a time in the violation runs.

### `ScratchLayout.tla`: sizes, budgets and the prestencil layout

`ScratchLayout` extends `GMLS`, and `MCGMLS` extends it, so its checks run
in `gmls_results`. It has no state of its own. A problem is a record of what
the sizes depend on: the solver, `_dimensions`, the data functional, the rank
of the reconstruction space, the orders, `max_num_neighbors` and
`_total_alpha_values`. `Problems` takes the solver and the data functional
from the configuration the user set (`cfg`) and ranges over the rest. The
checks apply to the kernel that `kernel` says is running.

- **Multipliers.** `SamplingMultiplier` and `BasisMultiplier` translate
  GMLS.cpp:55-75.
- **Shard sizes.** `HostDims` is generateAlphas' dimension block (96-111):
  `max_num_rows`, `this_num_columns`, `max_matrix_dimension`, and on a
  manifold `manifold_NP`, `max_manifold_NP`, `max_NP` and `max_P_row_size`.
  `StandardKernelDims` and `ManifoldKernelDims` translate, separately, the
  copies each kernel recomputes from `_neighbor_lists.dimension_1()-1`
  (271-277, 329-335, 374-385, 432-443, 656-667, 746-757). The copies are
  the same text today. Comparing them with generateAlphas' block checks
  that the duplicated code still agrees.
- **Scratch.** `Budget` is the team level a, team level b and thread level b
  budget tallied at 86-160. `ScratchUse` is what each kernel carves out of
  it (291-296, 346-348, 394-397, 460-475, 684-699). Sizes are counted in
  doubles, and Kokkos' alignment padding is left out on both sides.
- **Prestencil.** `PrestencilWidth` is the row width allocated at 37.
  `PrestencilSlots` lists, per data functional, the weights
  ComputePrestencilWeights writes (760-837), and `PrestencilColumn` gives
  the column of each one.

`getNP`, `_NP` and the tensor-rank table are in headers outside the tree.
They are taken from the spec (NP(p,d) = C(p+d,d)) and marked spec_modelled.

### `FaceAverage.tla`: the face-average quadrature

This module models the `ScalarFaceAverageEvaluation` branches
(Targets.hpp:152-226 flat, 1630-1720 manifold). One row entry accumulates,
over sub-triangles `v` and quadrature points `q`, a value computed from:
- `getAreaFromVectors` (`norm[v]`);
- the weight (`wn[q]`, normalised to sum 1/2);
- the monomial value (`mono[v,q]`).

Values are exact, reduced rationals. `Init` enumerates the branch
(`onManifold`) and every input over small sets. The loop is one action per
iteration. The result is checked against `ReferenceAverage`: the quadrature
integral over the whole cell divided by its area.

### `TargetRow.tla`: the operation loop of the target functionals

`GradedExponents(d, p)` is a RECURSIVE definition of the monomial order the
basis uses (Targets.hpp:208-225): degree outermost, then the z exponent,
then y. `NP` is its length.

**State.** The variables are the inputs of one pass of the operation loop:
flat or manifold, the reconstruction space, the operation, the sampling
functional, the dimension, the order and the curvature order, and whether
additional evaluation sites were given. There are two outputs: `result`,
what the branch did, and `status`.

**Outcome of a branch.** An `Outcome` is one of:
- a basis row, filled by `calcPij` or `calcGradientPij`, with a flag for
  whether it loops over the additional sites;
- a set of hard-coded writes `<<output, input, column, sign>>`;
- a set of `calcGradientPij` partials `<<output, component, direction, sign>>`;
- an assert;
- nothing ("none"): the branch writes no entry and raises no error.

**Rows of the flat chain.** `ScalarTaylorRow`, `VectorTaylorRow`,
`ClonesRow` and `DivFreeRow` translate the four branches of
`computeTargetFunctionals` (67-949). Each keeps every `if`, its guards,
asserts and missing `else`s. `FlatRow` is the space chain with its asserting
else (950). The divergence-free curl curl (795-933) is kept as the
sequence of `calcHessianPij` rows it assigns and adds, as
`<<out, component, dir1, dir2, sign>>`, in the code's order. The 2D branch
adds u0xx and u1yy and then subtracts them again. The divergence-free
gradient of a vector (934-949) is one `calcGradientPij` row per output.

**Rows of the manifold chain.** `ManifoldRow` is the chain of
`computeTargetFunctionalsOnManifold` (1085-1741), with
`ManifoldVectorPointRow`, `ChainedStaggeredRow`, `VectorLaplacianRow`,
`ManifoldGradientRow`, `ManifoldDivergenceRow`, `GaussianCurvatureRow`,
`SurfaceCurlRow` and `CurveRow`.

**The clones check.** `ClonesSamplingMismatch` is the check at 20-28: a
clones basis with scalar data and a sampling other than `PointSample`. It
is a `compadre_kernel_assert_debug`, so `debug` chooses the build. A debug
build aborts, and a release build runs the operation loop.

**Actions.**
- `ComputeTargetFunctionals` and `ComputeTargetFunctionalsOnManifold` run
  the branch, then the additional-sites assert (957, 1740). That assert
  aborts when sites were asked for and the branch did not handle them.
- `ComputeCurvatureFunctionals` (962-1036) builds the rows of the curvature
  fit: a basis row for `ScalarPoint`, and one `calcGradientPij` row per
  tangent direction for `Gradient`, the second only when `_dimensions > 2`.
  It asserts for any other operation and has no additional-sites check.
  `AssembleManifoldPsqrtW` (GMLS.cpp:509-517) reads output k of that
  gradient for every k < `_dimensions-1`.

**Checks against the basis order.** `DirOf` maps a column to the
first-degree monomial it holds, so the divergence and curl columns are
checked against the reference operators.

### `TeamAssembly.tla` (with `MCTeamAssembly.cfg`): the threads of a team

`GMLS.tla` runs `AssembleManifoldPsqrtW` (GMLS.cpp:488-644) as one step per
target. `TeamAssembly` extends `MCGMLS` and replaces that step with the
threads of the target's team, running the functor body as a program `Prog`
of team steps in source order. A step names the views it reads and writes
(`PsqrtW`, `Q`, `W`, `V`, `T`, `G`, `GInv`, the entries `MG(i,k)` of
`manifold_gradient`, ...; lines 449-467). The kinds of step are:
- a team-routine call (`Coll`), which every thread enters and which ends in a
  barrier;
- a `parallel_for`/`parallel_reduce` over a `TeamThreadRange` (`ThreadRange`,
  `Reduce`);
- a `Kokkos::single(PerTeam)` (`Single`), run by thread 0 only;
- per-thread local code (`Each`);
- a `team_barrier`.

`NeighborIteration(i)` is one pass of the neighbor loop (509-536).
`RefinementTail` is the frame single, the refined assembly, the PsqrtW
zeroing and, on a host build only, `matrixToLayoutLeft` (538-644).

**State.** `tpc[t][th]` is the next step of thread th. `lw[t][b]` records
the last step that wrote buffer b, and the thread that ran it. `taint[t]`
is set when a thread reads or overwrites a buffer whose last write is not
ordered before it by a barrier.

**Actions.**
- `ThreadStep(t, th)`: a thread runs its next step. At a barrier it waits
  until every thread of the team has reached it.
- `TeamExits(t)`: when every thread is done, the team leaves the functor and
  writes the refined frame and assembly to `geo` and `ls`. If the run was
  tainted, the model may instead produce a wrong frame or assembly.
- `OtherTeamStep(t)`: every other functor stays one step, as in `GMLS.tla`.

`ThreadsPerTeam` follows GMLS.cpp:180-185. It is 2 on a CUDA build, standing
for 32 or 64 threads: any two threads are enough to show a race. It is 1 on
a host build.

**Properties.**
- `NoTeamRace`: no two threads stand at steps that conflict on a buffer with
  no barrier between them.
- `AtomicAssembly`: the composition implements `GMLS!Spec`, fairness
  included, through `INSTANCE GMLS`. Every team leaves the functor with this
  call's frame and assembly, so the one-step model of `GMLS.tla` is sound.

On a host build with more than one thread per team, the PsqrtW zeroing
(621-625) races with `matrixToLayoutLeft` (629), because no barrier lies
between them. TLC finds this when `ThreadsPerTeam` is 2 and
`HostMirrorAliases` is TRUE. The code is safe as built: host teams have one
thread, and CUDA compiles the conversion out. It is recorded as a hazard.

## 3. Runs

| Run | Expect | What it shows |
|---|---|---|
| gmls_results (`GMLSRefinement.cfg`) | pass | 3 manifold configurations and one flat QR configuration, 2 targets, 3 calls, the polynomial sampling functional switched between calls: `AlphaFromCurrentCall`, `PrestencilFromCurrentCall`, `FactorizationMatchesNullspace`, `TypeOK`, `AbsSpec` (the refinement of `GMLSAbstract`), and the layout checks `KernelShardsMatchAllocation`, `ScratchWithinBudget` and `PrestencilSlotsDistinct` |
| gmls_teams (`MCTeamAssembly.cfg`) | pass | a CUDA build (2 threads per team), every configuration (LU included), 1 target, 2 calls: `NoTeamRace` and `AtomicAssembly` |
| gmls_idempotence | violation | the second call with the staggered analytic gradient basis uses order p+2 (GMLS.cpp:81) |
| gmls_host_prestencil | violation | the device-build mirror of the prestencil weights is never copied (GMLS.cpp:257) |
| gmls_flat_prestencil | violation | the flat staggered problem returns a zero prestencil table (GMLS.cpp:223-247) |
| gmls_lu | violation | with LU the alphas come from an unfactorized P (GMLS.cpp:237-241) |
| gmls_flat_nullspace | violation | the flat branch uses QR on a rank-deficient problem (GMLS.cpp:233) |
| face_average | pass | the manifold accumulation equals the exact cell average for every input, and both branches reproduce constants, which hides the flat branch's defect from reproduction tests |
| face_average_flat_exact | violation | the flat branch keeps only the last sub-triangle, even with equal areas (Targets.hpp:219) |
| target_row | pass | every basis and operation within the bounds builds a row or aborts (`UnsupportedOperationFails`); see below |
| target_row_low_order | violation | `RowsFitOrder`: hard-coded columns past `target_NP`, with no error, for the flat Laplacian with p<2 (Targets.hpp:87) and the manifold Divergence with p=0 (1465); and, at curvature order 0, manifold Laplacian and gradient rows of order p>=2 left empty (1183, 1398) |
| target_row_unsupported | violation | unsupported operations that return a zero row with no assert: the divergence-free fall-through (950), the 1D curl (404), the clones PartialY/Z (521), the manifold ChainedStaggeredLaplacian of the clones basis (1258) |

In `gmls_results` the user may switch the polynomial sampling functional
between calls, for example from a point sample to the manifold gradient and
back. `FactorizationMatchesNullspace` is checked when each call reaches the
host copy: a call made with a functional that has a nullspace always
factorizes with SVD, whatever earlier calls used. The other direction is
reachable too: once the flag is set, a later full-rank call still
factorizes with SVD, where spec section 1 says QR. SVD also solves a
full-rank problem, so `AbsSpec` holds and no result changes. This is
recorded as a hazard, not a finding.

The layout properties of `gmls_results` hold in every state where a kernel
runs, for every problem of the configuration up to the named bounds:
- `KernelShardsMatchAllocation`: every kernel's recomputed
  `max_matrix_dimension`, `max_num_rows` and `this_num_columns` agree with
  generateAlphas'. Each kernel finds target t's shard of `_P`, `_RHS` and
  `_w` where it was allocated and where the batched factorization strides
  to it.
- `ScratchWithinBudget`: each kernel's scratch views fit, level by level,
  the budget passed to the launch.
- `PrestencilSlotsDistinct`: every prestencil weight of a target has its own
  column inside the target's row.

The other properties of `target_row` are:
- `RowColumnsInRange`: hard-coded columns stay inside `target_NP`.
- `LaplacianSelectsSquares`: the Laplacian columns are exactly x^2, y^2, z^2.
- `DivergenceMatchesReference` and `CurlMatchesReference`: the divergence
  and curl columns, blocks and signs match the reference operators.
- `ManifoldLowOrderTerms`: the manifold Laplacian keeps its x^2 and y^2
  terms.
- `TangentGradientComplete`: every manifold gradient row, of the curvature
  fit or of the target, has exactly one output per tangent direction,
  holding the derivative in that direction.
- `CurlCurlMatchesReference`: summing the signed Hessian rows of a curl
  curl row gives, for every output, component and pair of directions, the
  coefficient of grad(div u) - laplace(u), in 2D and in 3D.

Each property of a passing run has a mutant in `PROJECT.json`, and TLC finds
that property violated in the mutant. The mutants are:
- a host that moves on after one team;
- the prestencil kernel run before the refined frame;
- a prestencil buffer kept across calls;
- a separate mirror on a host build (`AbsSpec`);
- the manifold branch always using QR;
- the nullspace flag decided on the first call only;
- the manifold per-sub-triangle reset;
- the missing division by the cell area;
- a Laplacian column taken from the mixed xy term;
- the manifold p>1 guard dropped, or demanding curvature order 2;
- a ScalarTaylor partial without its assert;
- a manifold gradient without its assert;
- the staggered divergence's y column one early;
- the clones curl with a sign swapped;
- the divergence-free curl with its directions transposed;
- the vector Laplacian's second block at the wrong offset;
- the curvature gradient's second direction taken for a curve too;
- a 3D curl curl term read from the wrong component;
- a manifold kernel sizing its shards with the flat formula;
- `Vsvd` sized by `max_NP`, as `delta` is;
- the prestencil neighbor stride taken as `dimension_1()`;
- the neighbor loop without the barrier between the gradient single and the per-thread reads (`NoTeamRace`);
- the refinement without the barrier after the frame single (`AtomicAssembly`).

**Bounds.**
- Two targets are enough for teams of one kernel to interleave, and for one
  target to be in a later stage than the other.
- `gmls_teams` uses one target, two threads, two neighbors and two tangent
  directions. Teams share no buffer, so one target shows every
  thread-level order. Two neighbor iterations put a barrier between
  consecutive singles, and two tangents give each single two entries to
  write. With two targets the run grows past a million states.
- Two calls are enough for state left by the first call (order bump,
  nullspace flag, unzeroed buffers) to affect the second. `gmls_results`
  runs three calls, so a third call is checked against the abstract
  specification too.
- The layout checks take the solver and data functional of each
  configuration of the run, dimensions 1-3 (2-3 on a manifold), both space
  ranks, orders 0-3 (`LayoutMaxOrder`), 1-6 neighbors
  (`LayoutMaxNeighbors`) and 1-3 alpha values per neighbor
  (`LayoutMaxAlphas`). These bounds include orders where the target basis
  is larger than the curvature basis, and the reverse. They also include
  neighbor counts below and above the basis size.
- A cell with 3 vertices (3 sub-triangles) and 2 quadrature points, with
  monomial values in {0,1,2}, makes contributions differ both across
  sub-triangles and across points within one sub-triangle.
- The TargetRow bounds are:
  - flat scalar rows in 1-3D with orders 2-6;
  - VectorTaylor and clones rows in 3D;
  - divergence-free rows in 2D and 3D for the four operations it handles;
  - manifold rows in 2D and 3D with orders 1-6 and curvature orders 1-3;
  - all four sampling functionals, with and without additional sites.

  These include every case of the hard-coded columns. The rest is settled by
  the violation runs. They leave out:
  - the 2D curl of the vector bases: it is the vector (du1/dy, -du0/dx),
    as the code's comments say, while the divergence-free basis computes the
    scalar du1/dx - du0/dy;
  - curvature order 0: the manifold Laplacian (Targets.hpp:1183) and gradient
    (1398) rows are then left empty with no error. `target_row_low_order`
    includes curvature order 0 and reports this as a finding through
    `RowsFitOrder`, which conjoins `RowColumnsInRange`,
    `ManifoldLowOrderTerms` and `TangentGradientComplete` (the last for
    p >= 1).

**Deadlock.** `CHECK_DEADLOCK FALSE` is used because the library stops:
- after `MaxCalls` calls the user stops calling;
- a face-average loop ends;
- the operation loop ends.

**Fairness.** `WF` on each target's team step and on the host's steps. Kokkos
runs every team of a launched kernel, and the host thread resumes when the
kernel completes. No fairness is assumed for the user's next call. `TeamAssembly` adds `WF` on
each thread's step, since Kokkos runs every thread of a team to completion.
`GMLSAbstract` assumes `WF` on `Finish`: a call that began returns.

## 4. Not modelled, and why

- **Numerical content:** Givens QR, SVD, eigenvectors, Gram-Schmidt and
  det(G). Floating-point conditioning is out of reach of a finite-state model,
  so only provenance is tracked.
- **Team-internal steps of the other functors:** only `AssembleManifoldPsqrtW`
  is modelled thread by thread (`TeamAssembly`). The other functors stay one
  atomic step per target. Each team owns its own slice, and their bodies
  are calls into routines that are not in the tree.
- **Code outside the tree:** GMLS.hpp (setters, `_NP`, `CallFunctorWithTeamThreads`),
  GMLS_LinearAlgebra, GMLS_Basis and the operator tables. The nullspace table
  and the team dispatch are modelled from the spec and marked as such.
- **Basis values:** what `calcPij` and `calcGradientPij` write (GMLS_Basis,
  not in the tree). A basis row is abstracted to which row it fills, and in
  which component and direction.
- **User target hooks:** `Compadre_USER_*TargetFunctionals.hpp` are not in
  the tree. They are assumed to handle no operation.
- **Physics glue:** the boundary-condition and shallow-water classes. The
  spec (§1) puts boundary-condition flagging and source terms out of scope,
  as collaborators of the engine. `Compadre_LagrangianShallowWater_Sources.hpp`
  and `Compadre_BoundaryConditionsT.hpp` only declare interfaces and
  setters. `GMLS_CurlCurlBoundaryConditions` (physics/…cpp) does two things.
  It flags particles within 1e-6 of a face of the cube [-1,1]^3, each one
  independently. It then overwrites the right-hand side of the flagged
  particles' DOFs with an analytic value. Both are host loops over points
  with no shared state between iterations, and their content is
  floating-point comparison and evaluation.
- **Scratch padding:** Kokkos' `shmem_size` alignment padding (Kokkos, not in
  the tree). Budgets and uses are compared in doubles.

## 5. Plan for later work

1. An unordered-factorization variant, for builds where the batched solvers
   are not stream-ordered with the kernels (no fence at GMLS.cpp:205-218).
