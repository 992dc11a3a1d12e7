---------------------------- MODULE GMLSRefinement ----------------------------
(***************************************************************************)
(* The orchestrator of GMLS.tla implements GMLSAbstract: under the mapping *)
(* below every step of generateAlphas is a Begin, a Finish or a stutter of *)
(* the abstract specification, and the abstract liveness holds.            *)
(***************************************************************************)
EXTENDS MCGMLS

(* What the host alphas of target t are, seen by the caller: the solution *)
(* of call c at order p when they come from a factorization that can      *)
(* solve call c's problem (SVD whenever the sampling functional call c    *)
(* was made with has a nullspace) applied with this call's geometry;      *)
(* anything else is corrupt.                                               *)
Solvable(t) ==
  LET c == hostAlpha[t].c
  IN  /\ c \in 1 .. Len(usedPoly)
      /\ IF usedPoly[c] \in SamplingNontrivialNullspace THEN hostAlpha[t].f = "SVD"
         ELSE hostAlpha[t].f \in {"QR", "SVD"}

(* A value no state of GMLSAbstract gives a target's alphas.             *)
Corrupt == [c |-> 0, p |-> -1]

PublishedOf(t) ==
  IF hostAlpha[t].c = 0 THEN [c |-> 0, p |-> 0]
  ELSE IF Solvable(t) /\ hostAlpha[t].g = hostAlpha[t].c
       THEN [c |-> hostAlpha[t].c, p |-> hostAlpha[t].p]
       ELSE Corrupt

(* The call whose complete, current-geometry prestencil weights the host *)
(* holds for target t, or 0.                                              *)
WeightsOf(t) ==
  IF hostPre[t].n = 1 /\ hostPre[t].g = hostPre[t].c THEN hostPre[t].c ELSE 0

Abs == INSTANCE GMLSAbstract WITH
  busy <- kernel # "Idle",
  order <- BumpedOrder(cfg.order),
  needsWeights <- cfg.data # PointSample,
  published <- [t \in Targets |-> PublishedOf(t)],
  weights <- [t \in Targets |-> WeightsOf(t)]

(* generateAlphas, as the caller sees it, behaves as GMLSAbstract: the   *)
(* host results change only when a call returns, and then hold this       *)
(* call's solution and prestencil weights for every target; every call    *)
(* that begins returns.                                                   *)
AbsSpec == Abs!Spec

=============================================================================
