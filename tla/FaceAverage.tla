----------------------------- MODULE FaceAverage -----------------------------
(***************************************************************************)
(* The ScalarFaceAverageEvaluation branch of the target functionals        *)
(* (Compadre_Targets.hpp): one entry P_target_row(offset, k) of the row is *)
(* the average of monomial k over a polygonal cell.  The cell is split     *)
(* into one sub-triangle per edge (midpoint, v, v+1); a reference          *)
(* triangle quadrature is mapped onto each, and the row entry sums the     *)
(* contributions, the first one assigned and the others added.             *)
(*                                                                         *)
(* The geometry is abstracted to what the sum depends on: for every        *)
(* sub-triangle v the norm of the cross product of its two edges           *)
(* (getAreaFromVectors, twice its area), for every quadrature point its    *)
(* weight, and for every pair the value of the scaled monomial at the      *)
(* mapped point.  Values are exact rationals [num, den].                   *)
(***************************************************************************)
EXTENDS Integers, Folds

CONSTANTS
  NumVertices,    \* vertices of the cell, one sub-triangle each
  NumQuadrature,  \* _qm.getNumberOfQuadraturePoints()
  Branches,       \* TRUE: computeTargetFunctionalsOnManifold; FALSE: computeTargetFunctionals
  Norms,          \* values getAreaFromVectors may return
  WeightNums,     \* numerators of quadrature weights
  MonomialValues  \* values of a scaled monomial at a quadrature point

ASSUME NumVertices \in Nat \ {0} /\ NumQuadrature \in Nat \ {0}
ASSUME Branches \subseteq BOOLEAN
ASSUME Norms \subseteq Nat \ {0} /\ WeightNums \subseteq Nat \ {0}
ASSUME MonomialValues \subseteq Int

Vertices == 0 .. NumVertices - 1
QPoints == 0 .. NumQuadrature - 1

VARIABLES
  onManifold, \* which of the two branches runs
  norm,   \* norm[v]: getAreaFromVectors of sub-triangle v
  wn,     \* wn[q]: numerator of the weight of quadrature point q
  mono,   \* mono[v, q]: the monomial at quadrature point q of sub-triangle v
  v,      \* the loop index over sub-triangles
  q,      \* the loop index over quadrature points
  row     \* P_target_row(offset, k)

vars == <<onManifold, norm, wn, mono, v, q, row>>

SumOver(S, f(_)) == MapThenFoldSet(+, 0, f, LAMBDA s : CHOOSE x \in s : TRUE, S)

RECURSIVE Gcd(_, _)
Gcd(a, b) == IF b = 0 THEN a ELSE Gcd(b, a % b)

AbsVal(n) == IF n < 0 THEN -n ELSE n

(* The rational n / d (d > 0) in lowest terms.                             *)
Frac(n, d) ==
  LET g == Gcd(AbsVal(n), d)
  IN  IF n = 0 THEN [num |-> 0, den |-> 1] ELSE [num |-> n \div g, den |-> d \div g]
AddFrac(a, b) == Frac(a.num * b.den + b.num * a.den, a.den * b.den)
SameValue(a, b) == a.num * b.den = b.num * a.den

(* A reference triangle rule: its weights sum to the reference area 1/2. *)
Weight(qq) == Frac(wn[qq], 2 * SumOver(QPoints, LAMBDA x : wn[x]))

(* entire_cell_area: the sum of 0.5 * getAreaFromVectors over the         *)
(* sub-triangles (Compadre_Targets.hpp:1656-1667).                         *)
EntireCellArea == Frac(SumOver(Vertices, LAMBDA x : norm[x]), 2)

(* val_to_sum of the flat branch (Targets.hpp:185-217): area_scaling *    *)
(* weight * monomial / (0.5 * area_scaling).                               *)
FlatValue(vv, qq) ==
  Frac(norm[vv] * Weight(qq).num * mono[vv, qq] * 2, Weight(qq).den * norm[vv])

(* Mutant: the contribution not divided by the cell area.                  *)
ManifoldValueUnnormalized(vv, qq) ==
  Frac(norm[vv] * Weight(qq).num * mono[vv, qq], Weight(qq).den)

(* val_to_sum of the manifold branch (Targets.hpp:1686-1711):             *)
(* sub_cell_area / reference_cell_area * weight * monomial /              *)
(* entire_cell_area.                                                      *)
ManifoldValue(vv, qq) ==
  Frac(norm[vv] * Weight(qq).num * mono[vv, qq] * EntireCellArea.den,
       Weight(qq).den * EntireCellArea.num)

(* The first contribution assigned, the rest added: the flat branch tests *)
(* quadrature==0 (Targets.hpp:219), the manifold branch quadrature==0 &&  *)
(* v==0 (Targets.hpp:1714).                                                *)
FlatFirst == q = 0

(* Mutant: the manifold branch resetting the sum on every sub-triangle.   *)
ManifoldFirstPerTriangle == q = 0

ManifoldFirst == q = 0 /\ v = 0

(* One iteration of the loops over v and quadrature in one branch.         *)
Accumulate(first, val) ==
  /\ v < NumVertices
  /\ row' = IF first THEN val ELSE AddFrac(row, val)
  /\ q' = (q + 1) % NumQuadrature
  /\ v' = IF q = NumQuadrature - 1 THEN v + 1 ELSE v
  /\ UNCHANGED <<onManifold, norm, wn, mono>>

FlatQuadraturePoint ==
  /\ ~onManifold
  /\ Accumulate(FlatFirst, FlatValue(v, q))

ManifoldQuadraturePoint ==
  /\ onManifold
  /\ Accumulate(ManifoldFirst, ManifoldValue(v, q))

(* Any cell geometry, quadrature rule and monomial; the row entry starts  *)
(* zeroed, as the P_target_row scratch is.                                *)
Init ==
  /\ onManifold \in Branches
  /\ norm \in [Vertices -> Norms]
  /\ wn \in [QPoints -> WeightNums]
  /\ mono \in [Vertices \X QPoints -> MonomialValues]
  /\ v = 0
  /\ q = 0
  /\ row = Frac(0, 1)

Next == FlatQuadraturePoint \/ ManifoldQuadraturePoint

Spec == Init /\ [][Next]_vars

-----------------------------------------------------------------------------
Finished == v = NumVertices

(* The exact face average: the quadrature integral of the monomial over  *)
(* each sub-triangle (area / reference area * sum of weight * value),     *)
(* summed over the cell and divided by the cell's area.                   *)
ReferenceAverage ==
  Frac(SumOver(Vertices \X QPoints,
               LAMBDA p : norm[p[1]] * wn[p[2]] * mono[p]),
       SumOver(Vertices, LAMBDA x : norm[x]) * SumOver(QPoints, LAMBDA x : wn[x]))

(* When the loops end, the row entry is the average of the monomial over *)
(* the whole cell, for every cell shape and quadrature rule.              *)
FaceAverageExact == Finished => SameValue(row, ReferenceAverage)

(* The manifold branch (Targets.hpp:1630-1720) computes the exact face   *)
(* average for every cell shape and quadrature rule.                      *)
ManifoldFaceAverageExact == onManifold => FaceAverageExact

(* A constant (the k = 0 monomial, equal to 1 at every point) has face   *)
(* average 1: the polynomial reproduction the unit tests exercise.       *)
ConstantReproduced ==
  Finished /\ (\A p \in Vertices \X QPoints : mono[p] = 1) => SameValue(row, Frac(1, 1))

=============================================================================
