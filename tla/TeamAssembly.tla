---------------------------- MODULE TeamAssembly ----------------------------
(***************************************************************************)
(* The AssembleManifoldPsqrtW functor (GMLS.cpp:488-644, views 449-467) run by the       *)
(* threads of each team, composed with the orchestrator of GMLS.tla in    *)
(* place of that module's one-step AssembleManifoldPsqrtW(t).             *)
(*                                                                         *)
(* The body of the functor is a program of team steps in source order:    *)
(*   "coll"    a call of a team routine (GMLS_Basis, GMLS_LinearAlgebra,  *)
(*             GMLS_Targets, not under src/) that every thread enters;    *)
(*             its effect is read off its argument list, and it returns   *)
(*             after a team barrier, as the in-tree routines of           *)
(*             Compadre_Targets.hpp do (lines 48, 960);                   *)
(*   "range"   a parallel_for or the body of a parallel_reduce over a     *)
(*             TeamThreadRange: every thread works on its own indices;    *)
(*   "single"  a Kokkos::single(PerTeam): thread 0 runs it, the others    *)
(*             go on to the next barrier;                                  *)
(*   "each"    code every thread runs on its own copy of a local          *)
(*             (grad_xi1, grad_xi2);                                       *)
(*   "barrier" a team_barrier, or the synchronisation that ends a         *)
(*             parallel_reduce and hands its result to every thread.      *)
(* A buffer is a view of the target's shard or of team scratch; the       *)
(* manifold_gradient scratch is split into its entries, one per neighbor  *)
(* and tangent direction.  Every barrier of the functor is reached by     *)
(* every thread: the loops run over getNNeighbors and _dimensions-1, the  *)
(* same in all threads of a team.                                         *)
(***************************************************************************)
EXTENDS MCGMLS

LOCAL INSTANCE SequencesExt

VARIABLES
  tpc,    \* per target and thread: the next step of the program
  lw,     \* per target and buffer: the last step that wrote it, and by whom
  taint   \* per target: some access read or overwrote a buffer out of order

teamVars == <<tpc, lw, taint>>
gmlsVars == vars
allVars == <<vars, tpc, lw, taint>>

(* threads_per_team (GMLS.cpp:180-185): 32 or 64 on a CUDA build, 1      *)
(* otherwise; two threads stand for a GPU team, enough for every order    *)
(* of two threads' steps.  HostMirrorAliases is TRUE on a host build.     *)
ThreadsPerTeam == IF HostMirrorAliases THEN 1 ELSE 2

Team == 0 .. ThreadsPerTeam - 1

(* One neighbor-loop iteration per neighbor, and the tangent directions  *)
(* of a 2D manifold in 3D.                                                *)
TeamNeighbors == 2
TeamTangents == 2

Buf(n) == <<n, -1, -1>>
MG(i, k) == <<"manifold_gradient", i, k>>

Step(kind, r, w) == [kind |-> kind, r |-> r, w |-> w]
Barrier == <<Step("barrier", {}, {})>>
Coll(r, w) == <<Step("coll", r, w)>> \o Barrier
ThreadRange(r, w) == <<Step("range", r, w)>>
Reduce(r) == <<Step("range", r, {})>> \o Barrier
Single(r, w) == <<Step("single", r, w)>>
Each(r) == <<Step("each", r, {})>>

PsqrtW == Buf("PsqrtW")
Q == Buf("Q")
W == Buf("w")
T1 == Buf("t1")
T2 == Buf("t2")
V == Buf("V")
T == Buf("T")
G == Buf("G")
GInv == Buf("G_inv")
PTargetRow == Buf("P_target_row")
Coeffs == Buf("manifold_coeffs")
GradCoeffs == Buf("manifold_gradient_coeffs")

(* Mutant: the barrier after the stores of manifold_gradient dropped.    *)
NeighborIterationUnfenced(i) ==
  FlattenSeq([k \in 1 .. TeamTangents |->
                Reduce({PTargetRow, Q}) \o Single({}, {MG(i, k - 1)})])
  \o Each({MG(i, k) : k \in 0 .. TeamTangents - 1} \cup {V})
  \o Single({Q, Coeffs}, {Coeffs})

(* One neighbor i of the curvature loop (GMLS.cpp:509-536): per tangent  *)
(* direction k a reduce of P_target_row against Q and a single storing    *)
(* it in manifold_gradient(i*(d-1)+k); a barrier; every thread adds the   *)
(* entries times the normal coordinate to its grad_xi; a single adds Q's  *)
(* row to manifold_coeffs.                                                *)
NeighborIteration(i) ==
  FlattenSeq([k \in 1 .. TeamTangents |->
                Reduce({PTargetRow, Q}) \o Single({}, {MG(i, k - 1)})])
  \o Barrier
  \o Each({MG(i, k) : k \in 0 .. TeamTangents - 1} \cup {V})
  \o Single({Q, Coeffs}, {Coeffs})

(* The tail of the functor (GMLS.cpp:538-644): T and G_inv in a single,  *)
(* a barrier, the refined sqrt(W)P, zeroing rows of PsqrtW, the layout   *)
(* conversion on builds other than CUDA, sqrt(W) I into Q, a barrier.     *)
(* Mutant: the barrier after the single that builds T dropped.           *)
RefinementTailUnfenced ==
  Single({V}, {GradCoeffs, T, G, GInv})
  \o Coll({V, T}, {PsqrtW, W}) \o Barrier
  \o ThreadRange({}, {PsqrtW})
  \o (IF HostMirrorAliases THEN Coll({PsqrtW}, {PsqrtW, T1, T2}) ELSE <<>>)
  \o ThreadRange({W}, {Q})
  \o Barrier

RefinementTail ==
  Single({V}, {GradCoeffs, T, G, GInv}) \o Barrier
  \o Coll({V, T}, {PsqrtW, W}) \o Barrier
  \o ThreadRange({}, {PsqrtW})
  \o (IF HostMirrorAliases THEN Coll({PsqrtW}, {PsqrtW, T1, T2}) ELSE <<>>)
  \o ThreadRange({W}, {Q})
  \o Barrier

(* The functor body (GMLS.cpp:488-644): the curvature fit in the frame V *)
(* (createWeightsAndPForCurvature, GivensQR, upperTriangularBackSolve,    *)
(* each team routine followed by the explicit barriers of the source),    *)
(* the target's curvature gradient row, manifold_coeffs zeroed, the       *)
(* neighbor loop, and the refined assembly.                               *)
Prog ==
  Coll({V}, {PsqrtW, W})
  \o Coll({PsqrtW}, {Q, PsqrtW, T1, T2}) \o Barrier
  \o Coll({Q, PsqrtW, W}, {Q, T1, T2}) \o Barrier
  \o Coll({V}, {PTargetRow, T1, T2})
  \o Single({}, {Coeffs})
  \o FlattenSeq([i \in 1 .. TeamNeighbors |-> NeighborIteration(i - 1)])
  \o RefinementTail

Done == Len(Prog) + 1

Buffers == UNION {Prog[s].r \cup Prog[s].w : s \in 1 .. Len(Prog)}

(* Whether thread th runs step s: a single runs on thread 0 only.        *)
Executes(th, s) ==
  \/ Prog[s].kind \in {"coll", "range", "each"}
  \/ Prog[s].kind = "single" /\ th = 0

(* The threads that run step s; step 0 is the kernels before this one.   *)
Runners(s) == IF s = 0 THEN Team ELSE {th \in Team : Executes(th, s)}

(* The step that wrote x last before step s in the source order.         *)
SeqWriter(s, x) ==
  LET ws == {j \in 1 .. s - 1 : x \in Prog[j].w}
  IN  IF ws = {} THEN 0 ELSE CHOOSE j \in ws : \A m \in ws : m <= j

(* An access of step s to x sees what a one-thread run would: x was last *)
(* written by this same step (a routine's or a range's own indices), or   *)
(* by the step before it in the source, by every thread that runs that    *)
(* step.                                                                   *)
InOrder(t, s, x) ==
  \/ lw[t][x].s = s
  \/ lw[t][x].s = SeqWriter(s, x) /\ lw[t][x].by = Runners(lw[t][x].s)

Wrote(e, s, th) == IF e.s = s THEN [e EXCEPT !.by = @ \cup {th}] ELSE [s |-> s, by |-> {th}]

InitialWriters == [x \in Buffers |-> [s |-> 0, by |-> Team]]

(***************************************************************************)
(* Thread th of target t's team takes its next step.  At a barrier it     *)
(* waits until every thread of the team has reached it.                   *)
(***************************************************************************)
ThreadStep(t, th) ==
  LET s == tpc[t][th]
  IN  /\ kernel = "AssembleManifoldPsqrtW"
      /\ t \notin done
      /\ s < Done
      /\ Prog[s].kind = "barrier" => \A u \in Team : tpc[t][u] >= s
      /\ tpc' = [tpc EXCEPT ![t][th] = s + 1]
      /\ IF Executes(th, s)
         THEN /\ taint' = [taint EXCEPT ![t] =
                             @ \/ \E x \in Prog[s].r \cup Prog[s].w : ~InOrder(t, s, x)]
              /\ lw' = [lw EXCEPT ![t] = [x \in Buffers |->
                          IF x \in Prog[s].w THEN Wrote(lw[t][x], s, th) ELSE lw[t][x]]]
         ELSE UNCHANGED <<taint, lw>>
      /\ UNCHANGED gmlsVars

(* When the last thread has left the functor the team is finished: V, T, *)
(* G_inv and the refined sqrt(W)P are as in GMLS.tla's one-step action.   *)
(* After an out-of-order access the result is whatever the race left:     *)
(* the correct one, or one built from no call's frame.                    *)
TeamExits(t) ==
  /\ \A th \in Team : tpc[t][th] = Done
  /\ TeamStarts(t, "AssembleManifoldPsqrtW")
  /\ \E ok \in IF taint[t] THEN BOOLEAN ELSE {TRUE} :
       /\ geo' = IF ok THEN RefinedFrame(t) ELSE [geo EXCEPT ![t].t = 0]
       /\ ls' = IF ok THEN RefinedAssembly(t) ELSE [RefinedAssembly(t) EXCEPT ![t].g = 0]
  /\ tpc' = [tpc EXCEPT ![t] = [th \in Team |-> 1]]
  /\ lw' = [lw EXCEPT ![t] = InitialWriters]
  /\ taint' = [taint EXCEPT ![t] = FALSE]
  /\ UNCHANGED <<cfg, polyOrder, nullspace, call, kernel, alpha, pre, hostAlpha, hostPre,
                 usedOrder, usedPoly>>

(* The team steps of every other kernel, one step per target.            *)
OtherTeamStep(t) ==
  /\ \/ ComputeCoarseTangentPlane(t)
     \/ AssembleStandardPsqrtW(t)
     \/ Factorize(t)
     \/ ApplyStandardTargets(t)
     \/ ApplyManifoldTargets(t)
     \/ ComputePrestencilWeights(t)
  /\ UNCHANGED teamVars

TeamInit ==
  /\ Init
  /\ tpc = [t \in Targets |-> [th \in Team |-> 1]]
  /\ lw = [t \in Targets |-> InitialWriters]
  /\ taint = [t \in Targets |-> FALSE]

TeamNext ==
  \/ StartGenerateAlphas /\ UNCHANGED teamVars
  \/ \E t \in Targets : OtherTeamStep(t)
  \/ \E t \in Targets, th \in Team : ThreadStep(t, th)
  \/ \E t \in Targets : TeamExits(t)
  \/ NextKernel /\ UNCHANGED teamVars
  \/ CopyBack /\ UNCHANGED teamVars
  \/ SetPolynomialSamplingFunctional /\ UNCHANGED teamVars

(* Kokkos runs every thread of every team of a launched kernel, and the  *)
(* host resumes when the kernel is complete.                              *)
TeamFairness ==
  /\ \A t \in Targets : WF_allVars(OtherTeamStep(t)) /\ WF_allVars(TeamExits(t))
  /\ \A t \in Targets, th \in Team : WF_allVars(ThreadStep(t, th))
  /\ WF_allVars(NextKernel /\ UNCHANGED teamVars)
  /\ WF_allVars(CopyBack /\ UNCHANGED teamVars)

TeamSpec == TeamInit /\ [][TeamNext]_allVars /\ TeamFairness

-----------------------------------------------------------------------------
(* No two threads of a team can be at steps that touch the same buffer,  *)
(* one of them writing it, with no barrier between them: the functor has  *)
(* no data race between its parallel loops, singles and team routines.    *)
NoTeamRace ==
  \A t \in Targets : \A a, b \in Team :
    LET s1 == tpc[t][a]
        s2 == tpc[t][b]
    IN  a # b /\ s1 # s2 /\ s1 < Done /\ s2 < Done /\ Executes(a, s1) /\ Executes(b, s2)
          => /\ Prog[s1].w \cap (Prog[s2].r \cup Prog[s2].w) = {}
             /\ Prog[s2].w \cap (Prog[s1].r \cup Prog[s1].w) = {}

Atomic == INSTANCE GMLS

(* Run by its threads, AssembleManifoldPsqrtW does what GMLS.tla's       *)
(* one-step action does: the composed orchestrator implements GMLS.tla,   *)
(* its fairness included, so every team leaves the functor and every      *)
(* target gets this call's refined frame and assembly.                    *)
AtomicAssembly == Atomic!Spec

=============================================================================
