----------------------------- MODULE CartPlanning -----------------------------
(* Planning a cart: automatic planning (POST /cart/optimize and the planner  *)
(* of POST /optimizations), planning with supplied plans (POST /cart/plan),  *)
(* and capturing a checkout for a plan (POST /cart/checkout-capture), by     *)
(* threads that share one directory of checkout captures.  The directory is  *)
(* looked at, then written, with no lock; it outlives the process.           *)
EXTENDS CartOptimization

CONSTANTS
    Thread,       \* threads that serve requests
    Request,      \* request ids
    Item,         \* logical items of the cart
    Listing,      \* persisted listings that are associated with a variant
    ItemOf,       \* [Listing -> Item]: the item its association is for
    Checkout,     \* what a checkout may show: observations
    World,        \* configurations of the server, see WorldType
    OwnId,        \* plan ids that callers make up
    Supplied,     \* what callers of POST /cart/plan supply, see IsSupplied
    Submitted,    \* requests to optimize plans of the caller's, with an observation
    MaxCaptures   \* bound: checkouts that are captured

ASSUME PlanningAssumption ==
    /\ ItemOf \in [Listing -> Item]
    /\ MaxCaptures \in Nat
    /\ OwnId \subseteq Nat

Cart == [item \in Item |-> 1]

\* What discovery and the configured providers know: the listings with a
\* usable price, the retailer of a listing and the checkout group of an item
\* at a retailer (None when not configured), the policy (or None), and whether
\* checkouts are read from the directory or the provider is unavailable.
\* context: the retailer and the group of a listing when a caller names them.
PolicyType == [penalty : Int, priority : Int, feasibility : Feasibility]
WorldType ==
    [ready : SUBSET Listing, retailer : [Listing -> STRING \union {None}],
     group : [Item \X STRING -> STRING \union {None}],
     context : [Listing -> [retailer : STRING, group : STRING]],
     policy : {None} \union PolicyType,
     registry : BOOLEAN]

\* CandidatePlanConstructionService.enumerate_allocations: a listing for
\* every item.
Combination == {c \in [Item -> Listing] : \A item \in Item : ItemOf[c[item]] = item}
Combinations == SetToSeq(Combination)

\* Plan ids.  DeterministicPlanIdProvider makes the id of an automatic plan a
\* digest of its place and its allocations, the same for every request: the
\* place.  A caller may send any text, such a digest too.
Name == DOMAIN Combinations \union OwnId

\* SuppliedPlan: its combination, and, each possibly None, an evaluation that
\* comes with it and the id of the evaluation it refers to.
PlanOfChoice(c) == [choice |-> c, given |-> None, reference |-> None]
Automatic == [n \in DOMAIN Combinations |-> PlanOfChoice(Combinations[n])]

\* CartPlanningRequest: the plans by their ids (attach_to_request refuses an id
\* that is used twice); the checkouts shown, by plan id; whether the groups of
\* the plans are declared; feasibility.
IsSupplied(s) ==
    /\ DOMAIN s.plans \subseteq Name /\ DOMAIN s.plans # {}
    /\ \A n \in DOMAIN s.plans : /\ s.plans[n].choice \in Combination
                                 /\ s.plans[n].given # None => s.plans[n].given.cost \in Amount
    /\ \A n \in DOMAIN s.shown : s.shown[n] \in Observation
    /\ s.declared \in BOOLEAN /\ s.feasibility \in Feasibility

\* A cart and its candidates are lists, and so are the combinations, which the
\* service counts; what comes from outside is what the types say.
FiniteAssumption == IsFiniteSet(Item) /\ IsFiniteSet(Combination)
ASSUME InputAssumption ==
    /\ FiniteAssumption
    /\ \A w \in World : w.policy \in {None} \union PolicyType
    /\ Checkout \subseteq Observation /\ \A s \in Supplied : IsSupplied(s)
    /\ \A s \in Submitted : s.observation \in Observation /\ IsRequest(s.request)

VARIABLES
    world,     \* the configuration
    captures,  \* the directory: request, plan id -> a correlation or None
    captured,  \* how many checkouts were captured
    pc,        \* [Thread -> "idle" | the next step of the request it serves]
    job,       \* [Thread -> the request it serves]
    answer     \* [Thread -> what its last request chose, or None]

vars == <<world, captures, captured, pc, job, answer>>

Artifact == [request : Request, plan : Name, of : Checkout]
Step == {"idle", "discover", "capture", "look", "write", "evaluate", "optimize"}
\* kind of request; plans: id -> plan; todo: ids still to be planned; inputs:
\* what was planned; artifact: the checkout being registered; policy of the
\* plans.  shown: checkouts that the caller supplied, declared: whether it
\* declared the groups of its plans.
NoJob == [kind |-> None, request |-> None, plans |-> <<>>, todo |-> {}, inputs |-> <<>>,
          artifact |-> None, policy |-> None, shown |-> <<>>, declared |-> TRUE]

Init ==
    /\ world \in World
    /\ captures = [key \in Request \X Name |-> None]
    /\ captured = 0
    /\ pc = [t \in Thread |-> "idle"]
    /\ job = [t \in Thread |-> NoJob]
    /\ answer = [t \in Thread |-> None]

------------------------------------------------------------------------------
(* Helpers.                                                                  *)

\* The plan a thread is at: they are taken in a fixed order.
Current(t) == CHOOSE n \in job[t].todo : TRUE
Key(t) == <<job[t].request, Current(t)>>

Items == SetToSeq(Item)
\* The allocations of a combination, in a world w.
AllocationsOf(w, kind, c) ==
    [i \in DOMAIN Items |->
        LET item == Items[i]
            l == c[item]
        IN  IF kind = "automatic"
            THEN Allocation(item, Cart[item], w.retailer[l],
                            w.group[item, w.retailer[l]], None)
            ELSE Allocation(item, Cart[item], w.context[l].retailer,
                            w.context[l].group, None)]

\* The evaluation of a checkout, its id a digest of what was observed; and plan n
\* of a job with its evaluation e: of the checkout, or the one that came with the
\* plan (checkout = None).
Evaluated(checkout) ==
    LET e == Evaluate(checkout.of) IN
    [id |-> checkout.of, cost |-> e.cost, unknowns |-> e.unknowns]
Input(t, n, checkout, e, as) ==
    LET p == job[t].policy IN
    [combination |-> job[t].plans[n].choice, checkout |-> checkout, evaluation |-> e,
     plan |-> [id |-> n, penalty |-> p.penalty, priority |-> p.priority,
               allocations |-> as, groups |-> IF job[t].declared THEN GroupsOf(as) ELSE {},
               evaluation |-> e.id, feasibility |-> p.feasibility, unknowns |-> {}]]

\* The request ends with a plan that is chosen, or None.  whole: it is a ready
\* answer of automatic planning, which is kept with what was planned.
Answer(t, chosen) ==
    LET whole == job[t].kind = "automatic" IN
    /\ answer' = [answer EXCEPT ![t] =
                     IF chosen = None THEN None
                     ELSE [chosen |-> chosen, request |-> None, whole |-> whole,
                           inputs |-> IF whole THEN job[t].inputs ELSE <<>>]]
    /\ pc' = [pc EXCEPT ![t] = "idle"]
    /\ job' = [job EXCEPT ![t] = NoJob]
\* Nothing planned, whatever the answer calls it: "unresolved" (a ValueError of
\* automatic planning), "unavailable", an error of the adapter, or a refusal.
Fail(t) == Answer(t, None)
Accept(t, kind, step) ==
    /\ job' = [job EXCEPT ![t] = kind]
    /\ pc' = [pc EXCEPT ![t] = step]
    /\ answer' = [answer EXCEPT ![t] = None]
GoTo(t, step) == pc' = [pc EXCEPT ![t] = step] /\ UNCHANGED answer
Shared == <<world, captures, captured>>

------------------------------------------------------------------------------
(* Automatic planning.                                                       *)

\* A request for automatic planning; AutomaticCartPlanningService.plan up to
\* its loop: every item needs candidates, then every candidate must be ready
\* and have a retailer, and the first that is not ends the request.
Plan(t, r) ==
    /\ pc[t] = "idle"
    /\ Accept(t, [NoJob EXCEPT !.kind = "automatic", !.request = r, !.plans = Automatic,
                               !.todo = DOMAIN Automatic, !.policy = world.policy], "discover")
    /\ UNCHANGED Shared
Discover(t) ==
    LET unoffered == Item = {} \/ \E item \in Item : \A l \in Listing : ItemOf[l] # item
        unready == world.ready # Listing
        nameless == None \in {world.retailer[l] : l \in Listing}
    IN  /\ pc[t] = "discover"
        /\ IF unoffered \/ unready \/ nameless THEN Fail(t) ELSE UNCHANGED job /\ GoTo(t, "capture")
        /\ UNCHANGED Shared

\* The loop up to the registration of the checkout: the groups and the policy
\* of the plan, then the adapter (CheckoutCaptureService.capture).  It may
\* be unavailable, fail, or return an artifact: a new one, which may belong to
\* another request or plan, and may not be readable.
Configured(t) ==
    /\ world.policy # None
    /\ \A item \in Item :
          world.group[item, world.retailer[job[t].plans[Current(t)].choice[item]]] # None
\* Mutant: the artifact is taken for what was asked for, whatever it is of.
Capture_Trusting(t) ==
    /\ pc[t] = "capture"
    /\ job[t].kind = "automatic" => Configured(t)
    /\ captured < MaxCaptures
    /\ captured' = captured + 1
    /\ \E r \in Request, n \in Name, o \in Checkout :
          /\ job' = [job EXCEPT ![t].artifact =
                         [request |-> r, plan |-> n, of |-> o]]
          /\ GoTo(t, "look")
    /\ UNCHANGED <<world, captures>>
Capture(t) ==
    /\ pc[t] = "capture"
    /\ job[t].kind = "automatic" => Configured(t)
    /\ captured < MaxCaptures
    /\ captured' = captured + 1
    /\ \E r \in Request, n \in Name, o \in Checkout :
          IF n = Current(t) /\ r = job[t].request /\ Registrable(o)
          THEN /\ job' = [job EXCEPT ![t].artifact =
                             [request |-> r, plan |-> n, of |-> o]]
               /\ GoTo(t, "look")
          ELSE Fail(t)
    /\ UNCHANGED <<world, captures>>
CaptureFails(t) ==
    /\ pc[t] = "capture"
    /\ Fail(t)
    /\ UNCHANGED Shared

\* FilesystemCheckoutObservationCorrelationStore.register: look whether there
\* is a correlation, and refuse another one; then write it.  (The one at hand
\* is never equal to a stored one: its observation has the time of its capture.)
Look(t) ==
    /\ pc[t] = "look"
    /\ IF captures[Key(t)] # None THEN Fail(t)
       ELSE UNCHANGED job /\ GoTo(t, "write")
    /\ UNCHANGED Shared

Write(t) ==
    /\ pc[t] = "write"
    /\ captures' = [captures EXCEPT ![Key(t)] = job[t].artifact]
    /\ IF job[t].kind = "capture" THEN Answer(t, None)
       ELSE UNCHANGED job /\ GoTo(t, "evaluate")
    /\ UNCHANGED <<world, captured>>

\* The rest of the loop.  A plan is costed on the checkout that the caller showed
\* under its id, or by the evaluation that came with it, or else on the checkout
\* the directory holds under its id.
CheckoutOf(t) ==
    IF Current(t) \in DOMAIN job[t].shown THEN job[t].shown[Current(t)]
    ELSE IF world.registry /\ job[t].plans[Current(t)].given = None THEN captures[Key(t)] ELSE None
\* _ece_result and _ece_reference: no evaluation, two of them, none that can be
\* made, or one that is not the one the plan refers to.
Unusable(plan, checkout, e) ==
    \/ checkout = None /\ (plan.given = None \/ plan.reference = None)
    \/ checkout # None /\ (plan.given # None \/ ~checkout.of.evidenced)
    \/ plan.reference \notin {None, e.id}
\* Mutant: the optimizer runs as soon as one plan is costed.
EvaluateCheckout_Forgets(t) ==
    /\ pc[t] = "evaluate"
    /\ \E n \in {Current(t)}, checkout \in {CheckoutOf(t)} :
       \E plan \in {job[t].plans[n]} :
       \E e \in {IF checkout # None THEN Evaluated(checkout) ELSE plan.given} :
          IF Unusable(plan, checkout, e) \/ job[t].todo = {n} THEN Fail(t)
          ELSE /\ job' = [job EXCEPT ![t].inputs = Append(@, Input(t, n, checkout, e,
                                         AllocationsOf(world, job[t].kind, plan.choice))),
                                     ![t].todo = @ \ {n}]
               /\ GoTo(t, "optimize")
    /\ UNCHANGED Shared
EvaluateCheckout(t) ==
    /\ pc[t] = "evaluate"
    /\ \E n \in {Current(t)}, checkout \in {CheckoutOf(t)} :
       \E plan \in {job[t].plans[n]} :
       \E e \in {IF checkout # None THEN Evaluated(checkout) ELSE plan.given},
          as \in {AllocationsOf(world, job[t].kind, plan.choice)} :
          IF Unusable(plan, checkout, e) THEN Fail(t)
          ELSE /\ job' = [job EXCEPT ![t].inputs = Append(@, Input(t, n, checkout, e, as)),
                                     ![t].todo = @ \ {n}, ![t].artifact = None]
               /\ GoTo(t, IF job[t].todo = {n} THEN "optimize"
                          ELSE IF job[t].kind = "automatic" THEN "capture" ELSE "evaluate")
    /\ UNCHANGED Shared

\* attach_to_request and the optimizer.
Optimize(t) ==
    /\ pc[t] = "optimize"
    /\ \E request \in {Attached(Cart, job[t].inputs)} :
          IF ~Attachable(job[t].inputs) \/ Refuses(request) THEN Fail(t)
          ELSE \E chosen \in {Chosen(request)} : Answer(t, chosen)
    /\ UNCHANGED Shared

------------------------------------------------------------------------------
(* The other requests, and crashes.                                          *)

\* CartPlanningService.plan: the caller names the context of every candidate,
\* gives its plans any ids, chooses a combination for each, declares whether they
\* are feasible, and may show checkouts for their ids, no others
\* (_validate_observation_keys), or send evaluations of its own.
PlanSupplied(t, r) ==
    /\ pc[t] = "idle" /\ world.ready = Listing
    /\ \E s \in Supplied :
          /\ DOMAIN s.shown \subseteq DOMAIN s.plans
          /\ Accept(t, [NoJob EXCEPT
                !.kind = "supplied", !.request = r, !.plans = s.plans, !.todo = DOMAIN s.plans,
                !.declared = s.declared,
                !.shown = [n \in DOMAIN s.shown |-> [request |-> r, plan |-> n,
                                                     of |-> s.shown[n]]],
                !.policy = [penalty |-> 0, priority |-> 0, feasibility |-> s.feasibility]],
                "evaluate")
    /\ UNCHANGED Shared

\* POST /cart/checkout-capture, for any request and plan id the caller names.
CaptureOnly(t, r) ==
    /\ pc[t] = "idle"
    /\ \E n \in Name :
          Accept(t, [NoJob EXCEPT !.kind = "capture", !.request = r, !.todo = {n}], "capture")
    /\ UNCHANGED Shared

\* POST /cost-intelligence/evaluate: the observation is evaluated and added to
\* the evaluations that came with the plans (CartOptimizationRequestBuilder).
WithEffectiveCost(s) ==
    LET e == Evaluate(s.observation) IN
    [s.request EXCEPT !.evaluations =
        Append(@, [id |-> "observed", cost |-> e.cost, unknowns |-> e.unknowns])]
\* Bound: it has nothing in common with the other requests, and is asked for
\* before them.
EvaluateSubmitted(t) ==
    /\ pc[t] = "idle" /\ captured = 0 /\ \A u \in Thread : pc[u] = "idle" /\ answer[u] = None
    /\ \E s \in Submitted :
       \E request \in {WithEffectiveCost(s)} :
          LET refused == ~s.observation.evidenced \/ Refuses(request)
              chosen == IF refused THEN None ELSE Chosen(request)
          IN  answer' = [answer EXCEPT ![t] =
                 IF chosen = None THEN None
                 ELSE [chosen |-> chosen, request |-> request, whole |-> FALSE, inputs |-> <<>>]]
    /\ UNCHANGED <<world, captures, captured, pc, job>>

Crash ==
    /\ \E t \in Thread : pc[t] # "idle"
    /\ pc' = [t \in Thread |-> "idle"]
    /\ job' = [t \in Thread |-> NoJob]
    /\ UNCHANGED <<world, captures, captured, answer>>

Serve(t) ==
    \/ Discover(t) \/ Capture(t) \/ CaptureFails(t) \/ Look(t) \/ Write(t)
    \/ EvaluateCheckout(t) \/ Optimize(t)
Next ==
    \/ \E t \in Thread : Serve(t)
    \/ \E t \in Thread, r \in Request : Plan(t, r) \/ PlanSupplied(t, r) \/ CaptureOnly(t, r)
    \/ \E t \in Thread : EvaluateSubmitted(t)
    \/ Crash

Spec == Init /\ [][Next]_vars

------------------------------------------------------------------------------
(* Properties.                                                               *)

TypeOK ==
    /\ world \in World
    /\ captured \in 0..MaxCaptures
    /\ captures \in [Request \X Name -> Artifact \union {None}]
    /\ pc \in [Thread -> Step]
    /\ \A t \in Thread :
          /\ pc[t] # "idle" => /\ job[t].kind \in {"automatic", "supplied", "capture"}
                               /\ job[t].todo \subseteq Name
                               /\ pc[t] = "optimize" => job[t].todo = {}
                               /\ job[t].todo = {} => pc[t] \in {"optimize", "discover"}
          /\ job[t].artifact # None => job[t].artifact \in Artifact

\* Whoever else plans the same cart or captures for it, under whatever ids, and
\* whatever the adapter returns: a plan is costed on a checkout that was captured
\* (or shown) for this request under this plan's id, or by the evaluation that
\* came with it; and in automatic planning the id stands for these listings, and
\* every plan has a checkout.  (What a caller's id stands for is up to the caller.)
EvaluatedOnOwnCapture ==
    \A t \in Thread : \A i, j \in DOMAIN job[t].inputs :
        LET input == job[t].inputs[i] IN
        /\ input.checkout # None => /\ input.checkout.request = job[t].request
                                    /\ input.checkout.plan = input.plan.id
        /\ job[t].kind = "automatic" => /\ input.checkout # None
                                        /\ input.checkout.plan \in DOMAIN Combinations
                                        /\ Combinations[input.checkout.plan] = input.combination
        /\ i # j => input.plan.id # job[t].inputs[j].plan.id

\* A ready answer of automatic planning costed every choice of listings for
\* the cart, on a checkout it understood completely, and none of them costs
\* less, or as much with fewer checkouts, than the chosen one.
EveryChoice == {c \in [Item -> Listing] : \A item \in Item : ItemOf[c[item]] = item}
Checkouts(w, c) == Cardinality(GroupsOf(AllocationsOf(w, "automatic", c)))
CheapestOfAll(w, inputs, chosen) ==
    \A c \in EveryChoice : \E this, best \in ToSet(inputs) :
        LET cost == EffectiveCost(this.checkout.of)
            paid == EffectiveCost(best.checkout.of)
        IN  /\ this.combination = c
            /\ best.plan.id = chosen
            /\ cost # None /\ paid # None /\ paid.currency = cost.currency
            /\ \/ paid.units < cost.units
               \/ /\ paid.units = cost.units
                  /\ Checkouts(w, best.combination) <= Checkouts(w, c)
ReadyIsCheapest ==
    \A t \in Thread : (answer[t] # None /\ answer[t].whole) =>
        CheapestOfAll(world, answer[t].inputs, answer[t].chosen)

\* A plan that was chosen among the caller's brings every item in exactly the
\* quantity asked for, and nothing else, in packs that are understood; nothing
\* that was left open about another plan that brings something could have made
\* that one the better.
Brought(plan, item) ==
    MapThenSumSet(LAMBDA i : plan.allocations[i].quantity,
                  {i \in DOMAIN plan.allocations : plan.allocations[i].item = item})
BringsTheCart(request, plan) ==
    /\ \A item \in DOMAIN request.cart : Brought(plan, item) = request.cart[item]
    /\ \A a \in ToSet(plan.allocations) : DOMAIN request.cart # {} =>
          a.item \in DOMAIN request.cart /\ a.quantity > 0 /\ a.semantics \in {None, "resolved"}
NotBetter(request, p, plan) ==
    \/ DOMAIN request.cart # {} /\ p.allocations = <<>>
    \/ \E a \in ToSet(p.allocations) : a.semantics = "unsupported"
    \/ \E item \in DOMAIN request.cart : Brought(p, item) # request.cart[item]
    \/ p.feasibility = "infeasible"
    \/ EvaluationOf(request, p).cost.units >= EvaluationOf(request, plan).cost.units
ChosenFulfills ==
    \A t \in Thread : (answer[t] # None /\ answer[t].request # None /\ answer[t].chosen # None) =>
        LET request == answer[t].request
            plan == CHOOSE p \in ToSet(request.plans) : p.id = answer[t].chosen
        IN  BringsTheCart(request, plan)
            /\ \A p \in ToSet(request.plans) : NotBetter(request, p, plan)
==============================================================================
