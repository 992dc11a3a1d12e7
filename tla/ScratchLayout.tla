---------------------------- MODULE ScratchLayout ----------------------------
(***************************************************************************)
(* The sizes behind the orchestrator of GMLS.tla.  generateAlphas computes *)
(* the shard sizes of the global views _P, _RHS and _w and the team and    *)
(* thread scratch budgets it hands to every kernel launch                 *)
(* (GMLS.cpp:86-168); every kernel recomputes the shard sizes in its own  *)
(* copy of the dimension block and carves its scratch views out of the    *)
(* budget; ComputePrestencilWeights writes the prestencil table that      *)
(* generateAlphas allocated (GMLS.cpp:37).  Sizes are counted in doubles; *)
(* Kokkos' shmem_size alignment padding is left out on both sides.        *)
(*                                                                         *)
(* A problem is a record: manifold (the MANIFOLD solver), d (_dimensions), *)
(* data (_data_sampling_functional), spaceRank (the tensor rank of the     *)
(* reconstruction space), p (_poly_order, after the bump), mp              *)
(* (_manifold_poly_order), nn (max_num_neighbors) and tav                  *)
(* (_total_alpha_values).                                                 *)
(***************************************************************************)
EXTENDS GMLS

Larger(a, b) == IF a > b THEN a ELSE b

RECURSIVE Binomial(_, _)
Binomial(n, k) == IF k = 0 THEN 1 ELSE (Binomial(n, k - 1) * (n - k + 1)) \div k

(* getNP: the dimension of the polynomials of degree <= p in d variables. *)
GetNP(p, d) == Binomial(p + d, d)

(* SamplingOutputTensorRank (GMLS_Operators.hpp): the vector samples.     *)
VectorSamplings == {ManifoldVectorSample, ManifoldGradientVectorSample}

(* _sampling_multiplier and _basis_multiplier (GMLS.cpp:55-75): d-1      *)
(* components on a manifold, d in the plane, 1 for a scalar.              *)
Multiplier(c, rank) ==
  IF rank > 0 THEN (IF c.manifold THEN c.d - 1 ELSE c.d) ELSE 1

DataRank(c) == IF c.data \in VectorSamplings THEN 1 ELSE 0

SamplingMultiplier(c) == Multiplier(c, DataRank(c))
BasisMultiplier(c) == Multiplier(c, c.spaceRank)

(* The member _NP: the basis of the problem's order in d dimensions.      *)
MemberNP(c) == GetNP(c.p, c.d)

(* The manifold dimension block, the same text in generateAlphas         *)
(* (GMLS.cpp:104-111) and in every manifold kernel.                       *)
ManifoldDims(c) ==
  LET sm == SamplingMultiplier(c)
      bm == BasisMultiplier(c)
      mNP == GetNP(c.mp, c.d - 1)
      mmNP == Larger(mNP, GetNP(c.p, c.d - 1))
      maxNP == Larger(mmNP, MemberNP(c))
  IN  [rows |-> sm * c.nn, cols |-> bm * mmNP, mmd |-> Larger(c.nn * sm, maxNP * bm),
       mNP |-> mNP, mmNP |-> mmNP, maxNP |-> maxNP,
       prow |-> Larger((c.d - 1) * mNP, maxNP * c.tav * bm)]

(* The flat dimension block (GMLS.cpp:96-100).                            *)
StandardDims(c) ==
  LET rows == SamplingMultiplier(c) * c.nn
      cols == BasisMultiplier(c) * MemberNP(c)
  IN  [rows |-> rows, cols |-> cols, mmd |-> Larger(rows, cols)]

(* The shard sizes generateAlphas allocates _P, _RHS and _w with and      *)
(* passes to the batched factorization (GMLS.cpp:96-111, 167-169).       *)
HostDims(c) == IF c.manifold THEN ManifoldDims(c) ELSE StandardDims(c)

(* Mutant: a manifold kernel sizing its shards with the flat formula.    *)
ManifoldKernelDimsFlat(c) ==
  LET m == ManifoldDims(c) IN [m EXCEPT !.mmd = Larger(m.rows, m.cols)]

(* The dimension block each manifold kernel recomputes for itself, from   *)
(* max_num_neighbors = _neighbor_lists.dimension_1()-1 (GMLS.cpp:432-443; *)
(* the same lines at 374-385, 656-667 and 746-757), independently of      *)
(* generateAlphas' block.                                                 *)
ManifoldKernelDims(c) ==
  LET maxNumNeighbors == c.nn
      sm == SamplingMultiplier(c)
      bm == BasisMultiplier(c)
      manifoldNP == GetNP(c.mp, c.d - 1)
      targetNP == GetNP(c.p, c.d - 1)
      maxManifoldNP == IF manifoldNP > targetNP THEN manifoldNP ELSE targetNP
      maxNP == IF maxManifoldNP > MemberNP(c) THEN maxManifoldNP ELSE MemberNP(c)
  IN  [rows |-> sm * maxNumNeighbors,
       cols |-> bm * maxManifoldNP,
       mmd |-> IF maxNumNeighbors * sm > maxNP * bm THEN maxNumNeighbors * sm ELSE maxNP * bm,
       mNP |-> manifoldNP, mmNP |-> maxManifoldNP, maxNP |-> maxNP,
       prow |-> IF (c.d - 1) * manifoldNP > maxNP * c.tav * bm
                THEN (c.d - 1) * manifoldNP ELSE maxNP * c.tav * bm]

(* The dimension block a flat kernel recomputes (GMLS.cpp:271-277, the    *)
(* same lines at 329-335).                                                *)
StandardKernelDims(c) ==
  LET maxNumRows == SamplingMultiplier(c) * c.nn
      thisNumColumns == BasisMultiplier(c) * MemberNP(c)
  IN  [rows |-> maxNumRows, cols |-> thisNumColumns,
       mmd |-> IF maxNumRows > thisNumColumns THEN maxNumRows ELSE thisNumColumns]

KernelDims(c) == IF c.manifold THEN ManifoldKernelDims(c) ELSE StandardKernelDims(c)

(* The scratch budget of every launch, [team level a, team level b,       *)
(* thread level b] (GMLS.cpp:88-160).                                     *)
Budget(c) ==
  LET sm == SamplingMultiplier(c)
      bm == BasisMultiplier(c)
      h == HostDims(c)
      w == c.nn * sm
  IN  IF c.manifold
      THEN [a |-> 0,
            b |-> w + (c.d - 1) * (c.d - 1) + c.d * c.d + (c.d - 1) * c.nn
                  + 2 * c.nn * Larger(sm, bm) + 1 + h.prow * sm
                  + h.mmNP * bm + h.mmNP * bm * sm + (h.mmNP * bm) * (h.mmNP * bm),
            tb |-> h.maxNP * bm]
      ELSE [a |-> 2 * h.rows, b |-> w + h.cols * c.tav * sm, tb |-> h.cols]

(* The team and thread scratch views a manifold assembly or apply kernel  *)
(* declares: G, t1, t2, t3, manifold_gradient, P_target_row, S, b_data,  *)
(* and Vsvd sized by vnp basis functions, and the per-thread delta        *)
(* (GMLS.cpp:460-475, 684-699).                                           *)
ManifoldViews(c, vnp) ==
  LET sm == SamplingMultiplier(c)
      bm == BasisMultiplier(c)
      k == ManifoldKernelDims(c)
  IN  [a |-> 0,
       b |-> (c.d - 1) * (c.d - 1) + 2 * c.nn * Larger(sm, bm) + 1 + (c.d - 1) * c.nn
             + k.prow * sm + k.mmNP * bm + k.mmNP * bm * sm + (vnp * bm) * (vnp * bm),
       tb |-> k.maxNP * bm]

(* Mutant: Vsvd sized by max_NP, as delta is.                             *)
ManifoldFullUseMaxNP(c) == ManifoldViews(c, ManifoldKernelDims(c).maxNP)

ManifoldFullUse(c) == ManifoldViews(c, ManifoldKernelDims(c).mmNP)

(* What each kernel carves out of the scratch (GMLS.cpp:291-296, 346-348, *)
(* 394-397; ComputePrestencilWeights declares none).                      *)
ScratchUse(f, c) ==
  LET k == KernelDims(c)
  IN  CASE f = "AssembleStandardPsqrtW" -> [a |-> 2 * k.rows, b |-> 0, tb |-> k.cols]
        [] f = "ApplyStandardTargets" ->
             [a |-> 2 * k.rows, b |-> k.cols * c.tav * SamplingMultiplier(c), tb |-> 0]
        [] f = "ComputeCoarseTangentPlane" -> [a |-> 0, b |-> c.d * c.d, tb |-> k.maxNP * BasisMultiplier(c)]
        [] f \in {"AssembleManifoldPsqrtW", "ApplyManifoldTargets"} -> ManifoldFullUse(c)
        [] OTHER -> [a |-> 0, b |-> 0, tb |-> 0]

(***************************************************************************)
(* The prestencil table: one row per target of width                      *)
(* pow(d, rank+1) * 2 * max_num_neighbors (GMLS.cpp:37).  A slot is what  *)
(* a weight is for: <<output k, input j, neighbor m, edge end e>>.         *)
(***************************************************************************)
PrestencilWidth(c) ==
  c.d ^ (DataRank(c) + 1) * 2 * c.nn

(* Mutant: the neighbor stride taken as dimension_1(), one more than the *)
(* neighbors a row was allocated for.                                     *)
PrestencilColumnWideStride(c, s) ==
  s[1] * c.d * 2 * (c.nn + 1) + s[2] * 2 * (c.nn + 1) + 2 * s[3] + s[4]

(* The column ComputePrestencilWeights writes a slot to, with            *)
(* neighbor_offset = dimension_1()-1 = max_num_neighbors                 *)
(* (GMLS.cpp:782-836); the edge samples use k = 0.                        *)
PrestencilColumn(c, s) ==
  s[1] * c.d * 2 * c.nn + s[2] * 2 * c.nn + 2 * s[3] + s[4]

(* The slots written for a target with n neighbors, per data functional  *)
(* (GMLS.cpp:764-836): both ends of each neighbor's edge; for the vector  *)
(* samples every (k, j), the k = d-1 block zeroed; for the edge integral  *)
(* every ambient component j.                                             *)
PrestencilSlots(c, n) ==
  CASE c.data = StaggeredEdgeAnalyticGradientIntegralSample ->
         {<<0, 0, m, e>> : m \in 0 .. n - 1, e \in 0 .. 1}
    [] c.data \in VectorSamplings ->
         {<<k, j, m, e>> : k \in 0 .. c.d - 1, j \in 0 .. c.d - 1, m \in 0 .. n - 1, e \in 0 .. 1}
    [] c.data = StaggeredEdgeIntegralSample ->
         {<<0, j, m, e>> : j \in 0 .. c.d - 1, m \in 0 .. n - 1, e \in 0 .. 1}
    [] OTHER -> {}

-----------------------------------------------------------------------------
(* The problems of the configuration the user set: its solver and data   *)
(* functional, with dimensions 1-3 (2-3 on a manifold), either space      *)
(* rank, orders up to LayoutMaxOrder, up to LayoutMaxNeighbors neighbors  *)
(* and up to LayoutMaxAlphas alpha values per neighbor.                   *)
LayoutMaxOrder == 3
LayoutMaxNeighbors == 6
LayoutMaxAlphas == 3

Problems ==
  {c \in [manifold : {IsManifold}, d : 1 .. 3, data : {cfg.data}, spaceRank : 0 .. 1,
          p : 0 .. LayoutMaxOrder, mp : 0 .. LayoutMaxOrder, nn : 1 .. LayoutMaxNeighbors,
          tav : 1 .. LayoutMaxAlphas] :
     c.manifold => c.d >= 2}

(* Whatever kernel or factorization is running finds target t's shards   *)
(* of _P, _RHS and _w where generateAlphas allocated them and where the   *)
(* batched factorization strides to them: the dimension block each kernel *)
(* recomputes agrees with generateAlphas' on max_matrix_dimension,        *)
(* max_num_rows and this_num_columns (the duplicated blocks the spec      *)
(* warns about).                                                          *)
KernelShardsMatchAllocation ==
  kernel \notin {"Idle", "CopyBack"} =>
    \A c \in Problems :
      LET k == KernelDims(c)
          h == HostDims(c)
      IN  k.mmd = h.mmd /\ k.rows = h.rows /\ k.cols = h.cols

(* The running kernel's team scratch at each level, and its thread        *)
(* scratch, fit the budget generateAlphas passed to                       *)
(* CallFunctorWithTeamThreads.                                            *)
ScratchWithinBudget ==
  kernel \notin {"Idle", "CopyBack"} =>
    \A c \in Problems :
      LET u == ScratchUse(kernel, c)
          b == Budget(c)
      IN  u.a <= b.a /\ u.b <= b.b /\ u.tb <= b.tb

(* While ComputePrestencilWeights runs, every weight it writes for a     *)
(* target with up to max_num_neighbors neighbors has its own column,      *)
(* inside the row generateAlphas allocated: no weight overwrites another  *)
(* and none lands in the next target's row.                               *)
PrestencilSlotsDistinct ==
  kernel = "ComputePrestencilWeights" =>
    \A c \in {q \in Problems : q.p = 0 /\ q.mp = 0 /\ q.tav = 1 /\ q.spaceRank = 0} :
      \A n \in 1 .. c.nn :
        LET S == PrestencilSlots(c, n)
            cols == {PrestencilColumn(c, s) : s \in S}
        IN  /\ cols \subseteq 0 .. PrestencilWidth(c) - 1
            /\ Cardinality(cols) = Cardinality(S)

=============================================================================
