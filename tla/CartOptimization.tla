-------------------------- MODULE CartOptimization --------------------------
(* The optimizer over candidate plans that are handed to it                  *)
(* (cart_optimization/service.py) and the records it works on: which         *)
(* requests it refuses, which plans may be chosen, their order, the outcome. *)
(* Pure operators.  A logical item stands for the pair of its item and its   *)
(* canonical variant, an evaluation for what the optimizer reads of it.      *)
EXTENDS CostIntelligence, FiniteSets

ASSUME NoneAssumption == None \notin {"unsupported", "unresolved"}

Feasibility == {"feasible", "infeasible", "unresolved", "invalid"}

\* CandidateItemAllocation: semantics is the quantity status it carries, or None:
\* "resolved", "unresolved", "unsupported".  It comes with the request.
Allocation(item, quantity, retailer, group, semantics) ==
    [item |-> item, quantity |-> quantity, retailer |-> retailer, group |-> group,
     semantics |-> semantics]
\* _identity_key.
IdentityKey(a) == [a EXCEPT !.semantics = None]
\* The checkout groups of the allocations of a plan, one per retailer and group.
GroupsOf(allocations) == {<<a.retailer, a.group>> : a \in ToSet(allocations)}

------------------------------------------------------------------------------
(* Requests: cart (item -> quantity), plans and evaluations (sequences) and  *)
(* the declared coverage.  A plan: id, penalty, priority, allocations,       *)
(* groups, evaluation (the id it refers to), feasibility, unknowns.          *)

\* What the types of plans and requests say.  A plan id is a place in the order
\* of ids, and a quantity any number.
IsPlan(plan) ==
    /\ plan.id \in Nat /\ plan.penalty \in Int /\ plan.priority \in Int
    /\ plan.allocations \in Seq(ToSet(plan.allocations)) /\ IsFiniteSet(plan.groups)
    /\ \A a \in ToSet(plan.allocations) :
          /\ a.quantity \in Int
          /\ a.semantics \in {None, "resolved", "unresolved", "unsupported"}
    /\ plan.feasibility \in Feasibility
IsRequest(request) ==
    /\ DOMAIN request = {"cart", "coverage", "plans", "evaluations"}
    /\ request.plans \in Seq(ToSet(request.plans)) /\ \A plan \in ToSet(request.plans) : IsPlan(plan)
    /\ request.evaluations \in Seq(ToSet(request.evaluations))
    /\ \A e \in ToSet(request.evaluations) : e.cost \in Amount

\* _validate_plan_fulfillment: what it refuses, and what it answers.
Malformed(cart, plan) ==
    LET as == plan.allocations IN
    \/ {a.group : a \in ToSet(as)} # {g[2] : g \in plan.groups}
    \/ /\ DOMAIN cart # {}
       /\ \/ \E i, j \in DOMAIN as : i # j /\ IdentityKey(as[i]) = IdentityKey(as[j])
          \/ \E i \in DOMAIN as : as[i].item \notin DOMAIN cart \/ as[i].quantity <= 0

\* The units of an item that are allocated, and how many: Malformed excludes
\* quantities that are not positive.
Units(allocations, item) ==
    UNION {{i} \X (1..allocations[i].quantity) :
              i \in {j \in DOMAIN allocations : allocations[j].item = item}}
Allocated(allocations, item) == Cardinality(Units(allocations, item))
\* Mutant: more than what was asked for will do.
Fulfills_AtLeast(cart, plan) ==
    \/ plan.allocations = <<>> /\ plan.feasibility # "feasible"
    \/ \A item \in DOMAIN cart : Allocated(plan.allocations, item) >= cart[item]
Fulfills(cart, plan) ==
    \/ DOMAIN cart = {}
    \/ plan.allocations = <<>> /\ plan.feasibility # "feasible"
    \/ /\ plan.allocations # <<>>
       /\ \A item \in DOMAIN cart : Allocated(plan.allocations, item) = cart[item]

EffectiveFeasibility(cart, plan) ==
    LET statuses == {a.semantics : a \in ToSet(plan.allocations)} IN
    IF ~Fulfills(cart, plan) \/ "unsupported" \in statuses THEN "infeasible"
    ELSE IF "unresolved" \in statuses THEN "unresolved" ELSE plan.feasibility

EvaluationOf(request, plan) ==
    LET found == {e \in ToSet(request.evaluations) : e.id = plan.evaluation} IN
    IF found = {} THEN None ELSE CHOOSE e \in found : TRUE

\* _validate_request and _resolve_linked_evaluations: all end in a ValueError.
Distinct(records) == \A i, j \in DOMAIN records : records[i].id = records[j].id => i = j
CostsKnown(request, plan) ==
    LET e == EvaluationOf(request, plan) IN e # None /\ e.cost # None /\ e.unknowns = {}
Refuses(request) ==
    \/ ~Distinct(request.plans) \/ ~Distinct(request.evaluations)
    \/ \E linked \in {{EvaluationOf(request, plan) : plan \in ToSet(request.plans)}} :
          \/ None \in linked
          \/ Cardinality({e.cost.currency : e \in {f \in linked : f.cost # None}}) > 1
    \/ \E plan \in ToSet(request.plans) :
          \/ plan.feasibility = "invalid" \/ Malformed(request.cart, plan)
          \/ /\ EffectiveFeasibility(request.cart, plan) = "feasible"
             /\ ~CostsKnown(request, plan)

------------------------------------------------------------------------------
(* Ranking and outcome.                                                      *)

\* Mutant: fewer checkouts are preferred to a lower cost.
RankingKey_GroupsFirst(request, plan) ==
    <<Cardinality(plan.groups), EvaluationOf(request, plan).cost.units, plan.penalty,
      -plan.priority, plan.id>>
RankingKey(request, plan) ==
    <<EvaluationOf(request, plan).cost.units, Cardinality(plan.groups), plan.penalty,
      -plan.priority, plan.id>>
Before(k, l) == \E i \in DOMAIN k : k[i] < l[i] /\ \A j \in 1..(i - 1) : k[j] = l[j]

PlansThatAre(request, feasibility) ==
    {plan \in ToSet(request.plans) : EffectiveFeasibility(request.cart, plan) = feasibility}
Best(request) ==
    CHOOSE plan \in PlansThatAre(request, "feasible") :
        \A other \in PlansThatAre(request, "feasible") :
            other = plan \/ Before(RankingKey(request, plan), RankingKey(request, other))

Outcome(request) ==
    IF request.coverage # "complete" \/ PlansThatAre(request, "unresolved") # {} THEN "unresolved"
    ELSE IF PlansThatAre(request, "feasible") # {} THEN "selected" ELSE "infeasible"

\* optimize, of a request that is not refused: the chosen plan.
Chosen(request) == IF Outcome(request) = "selected" THEN Best(request).id ELSE None

\* CandidatePlanConstructionInput and attach_to_request: the plans that come
\* each with its evaluation; equal evaluations are handed over once.
Attachable(inputs) ==
    /\ Distinct([i \in DOMAIN inputs |-> inputs[i].plan])
    /\ \A i \in DOMAIN inputs : inputs[i].plan.feasibility # "invalid"
    /\ \A i, j \in DOMAIN inputs :
          inputs[i].evaluation.id = inputs[j].evaluation.id
              => inputs[i].evaluation = inputs[j].evaluation
Attached(cart, inputs) ==
    [cart |-> cart, coverage |-> "complete",
     plans |-> [i \in DOMAIN inputs |-> inputs[i].plan],
     evaluations |-> SetToSeq({input.evaluation : input \in ToSet(inputs)})]
=============================================================================
