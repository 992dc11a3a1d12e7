------------------------------- MODULE MCGMLS -------------------------------
(* Configurations of the GMLS orchestrator for TLC.                      *)
EXTENDS ScratchLayout

CONSTANTS t1, t2

MCTargets == {t1, t2}

(* One target, for the thread-level model of a team: teams share no      *)
(* buffer, so the threads of one team show every order that matters.      *)
MCOneTarget == {t1}

Cfg(solver, poly, data, order) ==
  [solver |-> solver, poly |-> poly, data |-> data, order |-> order]

(* Manifold problems: a point-sampled basis with edge-integral data, the  *)
(* manifold gradient (rank deficient), and the manifold vector sample;    *)
(* a flat QR problem with point data.                                     *)
CorrectConfigs ==
  { Cfg("MANIFOLD", PointSample, StaggeredEdgeIntegralSample, 2),
    Cfg("MANIFOLD", ManifoldGradientVectorSample, ManifoldGradientVectorSample, 1),
    Cfg("MANIFOLD", ManifoldVectorSample, ManifoldVectorSample, 2),
    Cfg("QR", PointSample, PointSample, 2) }

(* The flat staggered divergence problem (spec scenario 5).               *)
FlatStaggeredConfigs ==
  { Cfg("QR", StaggeredEdgeAnalyticGradientIntegralSample,
        StaggeredEdgeAnalyticGradientIntegralSample, 1) }

(* A flat problem with the LU solver.                                    *)
LUConfigs == { Cfg("LU", PointSample, PointSample, 2) }

AllConfigs == CorrectConfigs \cup FlatStaggeredConfigs \cup LUConfigs
=============================================================================
