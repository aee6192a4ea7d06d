------------------------ MODULE BranchApprovalChain ------------------------
(***************************************************************************)
(* The approval chain of one branch and one workflow type: the row of      *)
(* branch_approval_chains that BranchApprovalChainService edits and that   *)
(* the approval engine reads again at every decision.                      *)
(*                                                                         *)
(* A chain is a function from step numbers to step definitions; the        *)
(* numbers need not be contiguous nor start at 1, which is all that the    *)
(* service validates.  The chain with no step stands for "none configured".*)
(***************************************************************************)
EXTENDS Integers, FiniteSets

CONSTANTS
  Users,    \* active users of the tenant with access to the branch
  Steps     \* step numbers that administrators use

ASSUME StepsAssumption == Steps \subseteq Nat \ {0} /\ IsFiniteSet(Steps)

VARIABLE chainRow    \* [active, steps]: the row of branch_approval_chains

\* pool: who may act on the step, the one named approver or the holders of
\* the role the step asks for.
StepDefs == [named : BOOLEAN, pool : SUBSET Users]

ChainsOver(S) == [S -> StepDefs]
AllChains     == UNION {ChainsOver(S) : S \in SUBSET Steps}
NoChain       == [s \in {} |-> [named |-> FALSE, pool |-> {}]]

ChainTypeOK == chainRow \in [active : BOOLEAN, steps : AllChains]

(***************************************************************************)
(* validateChain: every step has somebody to act on it, and no user is     *)
(* named on two steps.                                                     *)
(***************************************************************************)
ValidChain(c) ==
  /\ \A s \in DOMAIN c : c[s].pool # {}
  /\ \A s \in DOMAIN c : c[s].named => Cardinality(c[s].pool) = 1
  /\ \A s, t \in DOMAIN c :
       (c[s].named /\ c[t].named /\ c[s].pool = c[t].pool) => s = t

\* resolveChain: only an active row is ever returned.
ResolvedChain == IF chainRow.active THEN chainRow.steps ELSE NoChain

\* computeAdvance looks the current step up in the sorted steps (index -1 when
\* it is missing) and takes the entry after it.
StepsAfter(c, step) ==
  IF step \in DOMAIN c THEN {t \in DOMAIN c : t > step} ELSE DOMAIN c

LeastOf(S) == CHOOSE m \in S : \A t \in S : m <= t

NoNextStep == 0    \* step numbers are positive

\* Mutants of computeAdvance: it adds one to the step number; it takes the first
\* other entry because the steps were not sorted.
NextStepPlusOne(c, step) ==
  IF StepsAfter(c, step) = {} THEN NoNextStep ELSE step + 1
NextStepUnsorted(c, step) ==
  IF DOMAIN c \ {step} = {} \/ step = 0 THEN NoNextStep ELSE LeastOf(DOMAIN c \ {step})

NextStep(c, step) ==
  IF StepsAfter(c, step) = {} THEN NoNextStep ELSE LeastOf(StepsAfter(c, step))

-----------------------------------------------------------------------------

UpsertChain(c, isActive) ==
  /\ ValidChain(c)
  /\ chainRow' = [active |-> isActive, steps |-> c]

DeactivateChain == chainRow' = [chainRow EXCEPT !.active = FALSE]
ActivateChain   == chainRow' = [chainRow EXCEPT !.active = TRUE]

=============================================================================
