----------------------------- MODULE GMLSAbstract -----------------------------
(***************************************************************************)
(* What GMLS::generateAlphas promises its caller, with no kernels, teams   *)
(* or buffers: a call begins, and when it returns the host holds, for      *)
(* every target, the solution of this call's least-squares problem at the *)
(* problem's polynomial order, and, when the data functional needs them,   *)
(* this call's prestencil weights.  Nothing the host holds changes while   *)
(* a call is running.                                                      *)
(***************************************************************************)
EXTENDS Naturals

CONSTANTS
  Targets,   \* the target sites
  MaxCalls   \* bound on the number of calls

VARIABLES
  call,          \* number of calls begun
  busy,          \* a call is running
  order,         \* the polynomial order of the problem the user set up
  needsWeights,  \* the data functional has prestencil weights
  published,     \* per target: what the host alphas are the solution of
  weights        \* per target: the call whose prestencil weights the host holds

avars == <<call, busy, order, needsWeights, published, weights>>

(* The host alphas before any call returned: the solution of no call.   *)
None == [c |-> 0, p |-> 0]

Init ==
  /\ call = 0
  /\ busy = FALSE
  /\ order \in Nat
  /\ needsWeights \in BOOLEAN
  /\ published = [t \in Targets |-> None]
  /\ weights = [t \in Targets |-> 0]

Begin ==
  /\ ~busy
  /\ call < MaxCalls
  /\ call' = call + 1
  /\ busy' = TRUE
  /\ UNCHANGED <<order, needsWeights, published, weights>>

(* The call returns with every target solved at the problem's order.     *)
Finish ==
  /\ busy
  /\ busy' = FALSE
  /\ published' = [t \in Targets |-> [c |-> call, p |-> order]]
  /\ weights' = IF needsWeights THEN [t \in Targets |-> call] ELSE weights
  /\ UNCHANGED <<call, order, needsWeights>>

(* Between calls the user may set up another problem of the same kind:    *)
(* its order may differ, and what the host holds stays the solution of    *)
(* the calls that computed it.                                            *)
Configure ==
  /\ ~busy
  /\ order' \in Nat
  /\ UNCHANGED <<call, busy, needsWeights, published, weights>>

Next == Begin \/ Finish \/ Configure

(* A call that has begun returns.                                        *)
Spec == Init /\ [][Next]_avars /\ WF_avars(Finish)

=============================================================================
