-------------------------------- MODULE GMLS --------------------------------
(***************************************************************************)
(* The GMLS orchestrator of GMLS.cpp: GMLS::generateAlphas and the kernels *)
(* it dispatches over the league of targets.                               *)
(*                                                                         *)
(* One generateAlphas call runs a fixed sequence of kernels.  A kernel is *)
(* one team per target; teams of one kernel run in any order, and the next *)
(* kernel starts only once every team of the previous one has finished    *)
(* (kernels go to one in-order execution space).  The numerical content of *)
(* the per-target buffers is abstracted to provenance tags: which call and *)
(* which stage produced them, with which polynomial order, and from which  *)
(* tangent-plane approximation.  The user may call generateAlphas again    *)
(* with the same inputs, up to MaxCalls times.                             *)
(***************************************************************************)
EXTENDS Integers, Sequences, FiniteSets

CONSTANTS
  Targets,          \* the league: one team per target site
  MaxCalls,         \* bound on the number of generateAlphas calls
  Configs,          \* the configurations [solver, poly, data, order] a user can set
  HostMirrorAliases \* TRUE on a host build: create_mirror_view returns the device view

ASSUME MaxCalls \in Nat \ {0}
ASSUME HostMirrorAliases \in BOOLEAN

(***************************************************************************)
(* Sampling functionals and their tables (GMLS_Operators.hpp, not under    *)
(* src/): the functionals that annihilate constants, and those whose       *)
(* output is a vector.                                                     *)
(***************************************************************************)
PointSample == "PointSample"
StaggeredEdgeAnalyticGradientIntegralSample == "StaggeredEdgeAnalyticGradientIntegralSample"
StaggeredEdgeIntegralSample == "StaggeredEdgeIntegralSample"
ManifoldVectorSample == "ManifoldVectorSample"
ManifoldGradientVectorSample == "ManifoldGradientVectorSample"

SamplingNontrivialNullspace ==
  {StaggeredEdgeAnalyticGradientIntegralSample, ManifoldGradientVectorSample}

Solvers == {"QR", "LU", "MANIFOLD"}

(* Mutant: prestencil weights computed before the refined frame.         *)
ManifoldKernelsPrestencilFirst ==
  <<"ComputeCoarseTangentPlane", "ComputePrestencilWeights",
    "AssembleManifoldPsqrtW", "ManifoldFactorize", "ApplyManifoldTargets">>

ManifoldKernels == <<"ComputeCoarseTangentPlane", "AssembleManifoldPsqrtW",
                     "ManifoldFactorize", "ApplyManifoldTargets",
                     "ComputePrestencilWeights">>
StandardKernels == <<"AssembleStandardPsqrtW", "StandardFactorize",
                     "ApplyStandardTargets">>

VARIABLES
  cfg,        \* solver, sampling functionals and order the user set
  polyOrder,  \* the member _poly_order
  nullspace,  \* the member _nontrivial_nullspace
  call,       \* number of generateAlphas calls started
  kernel,     \* where the host is in generateAlphas
  done,       \* teams of the current kernel that have finished
  ls,         \* per target: provenance of the P and RHS shards
  geo,        \* per target: call of V, and call of the V that T, G_inv and curvature came from
  alpha,      \* per target: provenance of the shard of _alphas
  pre,        \* per target: provenance of the shard of _prestencil_weights
  hostAlpha,  \* per target: what _host_alphas holds
  hostPre,    \* per target: what _host_prestencil_weights holds
  usedOrder,  \* history: the polynomial order each completed call used
  usedPoly    \* history: the polynomial sampling functional of each completed call

vars == <<cfg, polyOrder, nullspace, call, kernel, done, ls, geo, alpha, pre,
          hostAlpha, hostPre, usedOrder, usedPoly>>

Calls == 0 .. MaxCalls
Stages == {"zero", "curvature", "assembled", "QR", "SVD"}
ZeroLS == [s |-> "zero", c |-> 0, p |-> 0, g |-> 0]
ZeroAlpha == [c |-> 0, f |-> "zero", p |-> 0, g |-> 0]
ZeroPre == [c |-> 0, n |-> 0, g |-> 0]

IsManifold == cfg.solver = "MANIFOLD"
Kernels == IF IsManifold THEN ManifoldKernels ELSE StandardKernels

(* The polynomial order generateAlphas works with: bumped by one for a    *)
(* basis of potentials sampled through their gradient (GMLS.cpp:78-82).   *)
(* Mutant: the order bumped for every sampling functional.               *)
BumpedAlways(p) == p + 1

BumpedOrder(p) ==
  IF cfg.poly = StaggeredEdgeAnalyticGradientIntegralSample THEN p + 1 ELSE p

(***************************************************************************)
(* generateAlphas up to the first kernel (GMLS.cpp:11-186): reallocates    *)
(* _alphas (zeroed), reallocates _prestencil_weights when the data         *)
(* functional is not a point sample, sets the nullspace flag, bumps the    *)
(* polynomial order, and reallocates and zeroes V, T, G_inv, curvature and *)
(* P, RHS, w.                                                              *)
(***************************************************************************)
(* Mutant: the prestencil view kept, not reallocated, across calls.       *)
AllocatePrestencilKept(t) == pre[t]

AllocatePrestencil(t) ==
  IF cfg.data # PointSample THEN ZeroPre ELSE pre[t]

(* The nullspace flag after generateAlphas' check (GMLS.cpp:43-47): set  *)
(* when the polynomial sampling functional annihilates constants, and     *)
(* never cleared.                                                         *)
(* Mutant: the flag decided on the first call only, as if cached.         *)
NullspaceFlagOnce ==
  IF call = 0 THEN cfg.poly \in SamplingNontrivialNullspace ELSE nullspace

NullspaceFlag == nullspace \/ cfg.poly \in SamplingNontrivialNullspace

StartGenerateAlphas ==
  /\ kernel = "Idle"
  /\ call < MaxCalls
  /\ call' = call + 1
  /\ alpha' = [t \in Targets |-> ZeroAlpha]
  /\ pre' = [t \in Targets |-> AllocatePrestencil(t)]
  /\ nullspace' = NullspaceFlag
  /\ polyOrder' = BumpedOrder(polyOrder)
  /\ geo' = IF IsManifold THEN [t \in Targets |-> [v |-> 0, t |-> 0]] ELSE geo
  /\ ls' = [t \in Targets |-> ZeroLS]
  /\ kernel' = Head(Kernels)
  /\ done' = {}
  /\ UNCHANGED <<cfg, hostAlpha, hostPre, usedOrder, usedPoly>>

(***************************************************************************)
(* The team of target t runs the current kernel.                           *)
(***************************************************************************)
TeamStarts(t, k) == kernel = k /\ t \notin done /\ done' = done \cup {t}

(* ComputeCoarseTangentPlane (GMLS.cpp:364-412): curvature-style P from   *)
(* the neighbour coordinates, PTP, and its eigenvectors into V.            *)
ComputeCoarseTangentPlane(t) ==
  /\ TeamStarts(t, "ComputeCoarseTangentPlane")
  /\ ls' = [ls EXCEPT ![t] = [s |-> "curvature", c |-> call, p |-> 0, g |-> 0]]
  /\ geo' = [geo EXCEPT ![t].v = call]
  /\ UNCHANGED <<cfg, polyOrder, nullspace, call, kernel, alpha, pre, hostAlpha, hostPre, usedOrder, usedPoly>>

(* T (Gram-Schmidt of V tilted by the curvature gradient) and G_inv,      *)
(* built from the V of target t (GMLS.cpp:539-608).                        *)
RefinedFrame(t) == [geo EXCEPT ![t].t = geo[t].v]

(* sqrt(W)P of order _poly_order in the refined frame, and sqrt(W) I in   *)
(* RHS (GMLS.cpp:612-644).                                                 *)
RefinedAssembly(t) ==
  [ls EXCEPT ![t] = [s |-> "assembled", c |-> call, p |-> polyOrder, g |-> geo[t].v]]

(* AssembleManifoldPsqrtW (GMLS.cpp:422-644): curvature fit in the frame  *)
(* V, T, G_inv and curvature coefficients from it, then sqrt(W)P in the   *)
(* refined frame and sqrt(W) I in RHS.                                     *)
AssembleManifoldPsqrtW(t) ==
  /\ TeamStarts(t, "AssembleManifoldPsqrtW")
  /\ geo' = RefinedFrame(t)
  /\ ls' = RefinedAssembly(t)
  /\ UNCHANGED <<cfg, polyOrder, nullspace, call, kernel, alpha, pre, hostAlpha, hostPre, usedOrder, usedPoly>>

(* AssembleStandardPsqrtW (GMLS.cpp:263-318).                               *)
AssembleStandardPsqrtW(t) ==
  /\ TeamStarts(t, "AssembleStandardPsqrtW")
  /\ ls' = [ls EXCEPT ![t] = [s |-> "assembled", c |-> call, p |-> polyOrder, g |-> 0]]
  /\ UNCHANGED <<cfg, polyOrder, nullspace, call, kernel, geo, alpha, pre, hostAlpha, hostPre, usedOrder, usedPoly>>

(* The batched factorization of one target's P against its RHS           *)
(* (GMLS.cpp:207-215 on manifolds, 233-241 on flat problems).  The        *)
(* manifold branch chooses SVD on the nullspace flag; the flat branch     *)
(* factorizes with QR when the solver is QR and does nothing for LU.      *)
(* Mutant: the manifold branch always factorizes with QR.                *)
FactorKindQR == "QR"

FactorKind == IF kernel = "ManifoldFactorize" /\ nullspace THEN "SVD" ELSE "QR"

Factorizes == kernel = "ManifoldFactorize" \/ (kernel = "StandardFactorize" /\ cfg.solver = "QR")

Factorize(t) ==
  /\ Factorizes
  /\ TeamStarts(t, kernel)
  /\ ls' = [ls EXCEPT ![t].s = FactorKind]
  /\ UNCHANGED <<cfg, polyOrder, nullspace, call, kernel, geo, alpha, pre, hostAlpha, hostPre, usedOrder, usedPoly>>

(* ApplyStandardTargets (GMLS.cpp:321-361): the target functional row,   *)
(* applied to the coefficients that the QR solve left in RHS, gives the   *)
(* target's alphas.                                                       *)
ApplyStandardTargets(t) ==
  /\ TeamStarts(t, "ApplyStandardTargets")
  /\ alpha' = [alpha EXCEPT ![t] = [c |-> ls[t].c, f |-> ls[t].s, p |-> ls[t].p,
                                    g |-> ls[t].c]]
  /\ UNCHANGED <<cfg, polyOrder, nullspace, call, kernel, ls, geo, pre, hostAlpha, hostPre, usedOrder, usedPoly>>

(* ApplyManifoldTargets (GMLS.cpp:646-733): the row on the manifold uses  *)
(* T, G_inv and the curvature, and is applied with applyQR whichever      *)
(* factorization ran (the SVD apply is commented out).                    *)
ApplyManifoldTargets(t) ==
  /\ TeamStarts(t, "ApplyManifoldTargets")
  /\ alpha' = [alpha EXCEPT ![t] = [c |-> ls[t].c, f |-> ls[t].s, p |-> ls[t].p,
                                    g |-> geo[t].t]]
  /\ UNCHANGED <<cfg, polyOrder, nullspace, call, kernel, ls, geo, pre, hostAlpha, hostPre, usedOrder, usedPoly>>

(* ComputePrestencilWeights (GMLS.cpp:736-838): assignments for the       *)
(* staggered analytic gradient (no geometry) and for the manifold vector  *)
(* samples (from T, or from V); one += per quadrature point for the       *)
(* staggered edge integral, from V; nothing for a point sample.           *)
PrestencilWrite(t) ==
  CASE cfg.data = StaggeredEdgeAnalyticGradientIntegralSample ->
         [c |-> call, n |-> 1, g |-> call]
    [] cfg.data = ManifoldVectorSample -> [c |-> call, n |-> 1, g |-> geo[t].t]
    [] cfg.data = ManifoldGradientVectorSample -> [c |-> call, n |-> 1, g |-> geo[t].v]
    [] cfg.data = StaggeredEdgeIntegralSample ->
         [c |-> call, n |-> pre[t].n + 1, g |-> geo[t].v]
    [] OTHER -> pre[t]

ComputePrestencilWeights(t) ==
  /\ TeamStarts(t, "ComputePrestencilWeights")
  /\ pre' = [pre EXCEPT ![t] = PrestencilWrite(t)]
  /\ UNCHANGED <<cfg, polyOrder, nullspace, call, kernel, ls, geo, alpha, hostAlpha, hostPre, usedOrder, usedPoly>>

(***************************************************************************)
(* The host moves to the next kernel once every team has finished; the    *)
(* flat LU branch is commented out, so there is no kernel to wait for.     *)
(***************************************************************************)
(* Mutant: the host proceeds as soon as one team has finished.           *)
KernelCompleteOneTeam == done # {}

KernelComplete ==
  \/ done = Targets
  \/ kernel = "StandardFactorize" /\ ~Factorizes

KernelIndex == CHOOSE i \in 1 .. Len(Kernels) : Kernels[i] = kernel

NextKernel ==
  /\ kernel \in {Kernels[i] : i \in 1 .. Len(Kernels)}
  /\ KernelComplete
  /\ kernel' = IF KernelIndex = Len(Kernels) THEN "CopyBack" ELSE Kernels[KernelIndex + 1]
  /\ done' = {}
  /\ UNCHANGED <<cfg, polyOrder, nullspace, call, ls, geo, alpha, pre, hostAlpha, hostPre, usedOrder, usedPoly>>

(* Device to host copy (GMLS.cpp:254-259): mirror views of _alphas and,   *)
(* when it exists, of _prestencil_weights; only _alphas is deep-copied.   *)
(* A mirror of a device view is a fresh zeroed allocation unless the      *)
(* device memory is host accessible, when it is the device view itself.   *)
(* Mutant: the mirror is a separate allocation even on a host build.     *)
HostMirrorSeparate(f) == [t \in Targets |-> ZeroPre]

HostMirror(f) == IF HostMirrorAliases THEN f ELSE [t \in Targets |-> ZeroPre]

CopyBack ==
  /\ kernel = "CopyBack"
  /\ hostAlpha' = alpha
  /\ hostPre' = IF cfg.data # PointSample THEN HostMirror(pre) ELSE hostPre
  /\ usedOrder' = Append(usedOrder, polyOrder)
  /\ usedPoly' = Append(usedPoly, cfg.poly)
  /\ kernel' = "Idle"
  /\ UNCHANGED <<cfg, polyOrder, nullspace, call, done, ls, geo, alpha, pre>>

(***************************************************************************)
(* Between calls the user may set another polynomial sampling functional  *)
(* for the same solver (set_polynomial_sampling_functional, GMLS.hpp, not  *)
(* under src/): the setter stores the functional and nothing else.        *)
(***************************************************************************)
SetPolynomialSamplingFunctional ==
  /\ kernel = "Idle"
  /\ call < MaxCalls
  /\ \E c \in Configs :
       /\ c.solver = cfg.solver
       /\ c.poly # cfg.poly
       /\ cfg' = [cfg EXCEPT !.poly = c.poly]
  /\ UNCHANGED <<polyOrder, nullspace, call, kernel, done, ls, geo, alpha, pre,
                 hostAlpha, hostPre, usedOrder, usedPoly>>

(***************************************************************************)
(* A configured GMLS object: the setters and the constructor (GMLS.hpp,    *)
(* not under src/) leave a configuration, the order and a clear flag.     *)
(***************************************************************************)
Init ==
  /\ cfg \in Configs
  /\ polyOrder = cfg.order
  /\ nullspace = FALSE
  /\ call = 0
  /\ kernel = "Idle"
  /\ done = {}
  /\ ls = [t \in Targets |-> ZeroLS]
  /\ geo = [t \in Targets |-> [v |-> 0, t |-> 0]]
  /\ alpha = [t \in Targets |-> ZeroAlpha]
  /\ pre = [t \in Targets |-> ZeroPre]
  /\ hostAlpha = [t \in Targets |-> ZeroAlpha]
  /\ hostPre = [t \in Targets |-> ZeroPre]
  /\ usedOrder = <<>>
  /\ usedPoly = <<>>

TeamStep(t) ==
  \/ ComputeCoarseTangentPlane(t)
  \/ AssembleManifoldPsqrtW(t)
  \/ AssembleStandardPsqrtW(t)
  \/ Factorize(t)
  \/ ApplyStandardTargets(t)
  \/ ApplyManifoldTargets(t)
  \/ ComputePrestencilWeights(t)

Next ==
  \/ StartGenerateAlphas
  \/ \E t \in Targets : TeamStep(t)
  \/ NextKernel
  \/ CopyBack
  \/ SetPolynomialSamplingFunctional

(* Every team of a launched kernel is scheduled, and the host thread     *)
(* proceeds once the kernel is complete; the user's next call is not      *)
(* assumed to happen.                                                      *)
Fairness ==
  /\ \A t \in Targets : WF_vars(TeamStep(t))
  /\ WF_vars(NextKernel)
  /\ WF_vars(CopyBack)

Spec == Init /\ [][Next]_vars /\ Fairness

-----------------------------------------------------------------------------
KernelNames == {ManifoldKernels[i] : i \in 1 .. Len(ManifoldKernels)}
                 \cup {StandardKernels[i] : i \in 1 .. Len(StandardKernels)}
Provenance == [c : Calls, g : Calls]

(* Every variable has its type; a prestencil entry holds at most one     *)
(* complete set of weights (ComputePrestencilWeights assigns, or sums     *)
(* once over the quadrature into a buffer generateAlphas zeroed).        *)
TypeOK ==
  /\ cfg \in [solver : Solvers, poly : {c.poly : c \in Configs},
              data : {c.data : c \in Configs}, order : {c.order : c \in Configs}]
  /\ polyOrder \in Nat
  /\ nullspace \in BOOLEAN
  /\ call \in Calls
  /\ kernel \in KernelNames \cup {"Idle", "CopyBack"}
  /\ done \subseteq Targets
  /\ ls \in [Targets -> [s : Stages, c : Calls, p : Nat, g : Calls]]
  /\ geo \in [Targets -> [v : Calls, t : Calls]]
  /\ alpha \in [Targets -> [c : Calls, f : Stages, p : Nat, g : Calls]]
  /\ pre \in [Targets -> [c : Calls, n : 0 .. 1, g : Calls]]
  /\ hostPre \in [Targets -> [c : Calls, n : 0 .. 1, g : Calls]]
  /\ hostAlpha \in [Targets -> [c : Calls, f : Stages, p : Nat, g : Calls]]
  /\ usedOrder \in Seq(Nat)
  /\ Len(usedPoly) = Len(usedOrder)

CallFinished == kernel \in {"CopyBack", "Idle"} /\ call > 0

(* When generateAlphas has run all its kernels, every target's alphas    *)
(* come from a P and RHS assembled and factorized in this same call, with *)
(* the current polynomial order and, on a manifold, with T and G_inv from *)
(* this call's tangent plane: no team read a stage of another kernel or   *)
(* of an earlier call.                                                    *)
AlphaFromCurrentCall ==
  CallFinished =>
    \A t \in Targets :
      /\ alpha[t].c = call /\ alpha[t].g = call
      /\ alpha[t].f \in {"QR", "SVD"}
      /\ alpha[t].p = polyOrder

(* When generateAlphas has run all its kernels, every prestencil weight  *)
(* written in it comes from this call's tangent plane or T.               *)
PrestencilFromCurrentCall ==
  CallFinished =>
    \A t \in Targets : pre[t].n = 1 => pre[t].c = call /\ pre[t].g = call

(* Once generateAlphas has returned, _host_alphas and, when the data     *)
(* functional needs one, _host_prestencil_weights hold what the device    *)
(* computed.                                                              *)
HostResultsCurrent ==
  kernel = "Idle" =>
    /\ hostAlpha = alpha
    /\ cfg.data # PointSample => hostPre = pre

(* Running generateAlphas twice with the same inputs solves the same      *)
(* problem: every call uses the same polynomial order.                    *)
CallsAgree ==
  \A i, j \in 1 .. Len(usedOrder) : usedOrder[i] = usedOrder[j]

(* Sampling functionals with a nontrivial nullspace make the least-squares *)
(* problem rank deficient; the alphas of every call made with one must     *)
(* come from an SVD, whatever functionals earlier calls used: the          *)
(* _nontrivial_nullspace flag generateAlphas reads is never stale-false.  *)
FactorizationMatchesNullspace ==
  kernel = "CopyBack" /\ cfg.poly \in SamplingNontrivialNullspace =>
    \A t \in Targets : alpha[t].f = "SVD"

(* Once generateAlphas has returned with a data functional other than a  *)
(* point sample, every target has its prestencil weights.                *)
PrestencilPopulated ==
  kernel = "Idle" /\ call > 0 /\ cfg.data # PointSample =>
    \A t \in Targets : pre[t].n = 1

=============================================================================
