-------------------------- MODULE ProductOrchestrator --------------------------
(* The orchestrator of product intelligence: it matches a listing, then asks *)
(* for a review or asserts the canonical product and variant.  Its review    *)
(* queue and assertion manager are objects in memory; here they are a value  *)
(* that an execution maps to the next one.                                   *)
EXTENDS ProductMatching, Sequences

------------------------------------------------------------------------------
(* The review queue: a function from the cases that were queued to their     *)
(* status.                                                                   *)

ReviewStatus == {"queued", "in_review", "approved", "rejected", "needs_more_evidence", "superseded"}

\* Mutant: an approved case can be superseded after all.
Transitions_Reopened ==
    [s \in ReviewStatus |->
        CASE s = "queued"              -> ReviewStatus \ {"queued"}
          [] s = "in_review"           -> ReviewStatus \ {"queued", "in_review"}
          [] s = "needs_more_evidence" -> {"in_review", "superseded"}
          [] s = "approved"            -> {"superseded"}
          [] OTHER                     -> {}]
Transitions ==
    [s \in ReviewStatus |->
        CASE s = "queued"              -> ReviewStatus \ {"queued"}
          [] s = "in_review"           -> ReviewStatus \ {"queued", "in_review"}
          [] s = "needs_more_evidence" -> {"in_review", "superseded"}
          [] OTHER                     -> {}]

\* A case is a digest of the listing, its observation and evidence, the
\* candidates and the outcome that asks for review.
Case(o, candidates, outcome) ==
    [observation |-> o.id, outcome |-> outcome,
     products |-> {p.id : p \in candidates.products}, variants |-> {v.id : v \in candidates.variants}]

Enqueue(reviews, c) ==
    [d \in DOMAIN reviews \union {c} |-> IF d \in DOMAIN reviews THEN reviews[d] ELSE "queued"]

\* resolve, skipped when the case has the wanted status already: the queue
\* after it, or none when the transition is refused.
Resolve(reviews, c, status) ==
    IF reviews[c] = status THEN {reviews}
    ELSE IF status \in Transitions[reviews[c]] THEN {[reviews EXCEPT ![c] = status]}
    ELSE {}

------------------------------------------------------------------------------
(* Assertions: for every product and variant the revisions in order, the     *)
(* current one last.  References are merged and sorted, so evidence is a set; *)
(* the decisions are always these three: the review case, if any, and the    *)
(* two matches.                                                              *)

Revision(evidence, decisions) == [evidence |-> evidence, decisions |-> decisions]

\* Planning and committing: an equal revision is no revision.
Commit(states, id, revision) ==
    LET revisions == IF id \in DOMAIN states THEN states[id] ELSE <<>>
        next == IF revisions # <<>> /\ revisions[Len(revisions)] = revision THEN revisions
                ELSE Append(revisions, revision)
    IN  [i \in DOMAIN states \union {id} |-> IF i = id THEN next ELSE states[i]]

\* apply: nothing is committed unless all of the request is valid.  variant:
\* one or none.  The managers after it, or none when it raises.
Apply(m, p, variant, evidence, decisions) ==
    LET revision == Revision(evidence, decisions)
    IN  IF evidence = {} \/ \E v \in variant : v.product # p.id THEN {}
        ELSE {[m EXCEPT !.products = Commit(@, p.id, revision),
                        !.variants = IF variant = {} THEN @
                                     ELSE Commit(@, (CHOOSE v \in variant : TRUE).id, revision)]}

------------------------------------------------------------------------------
(* One execution.                                                            *)

NoManagers == [reviews |-> <<>>, products |-> <<>>, variants |-> <<>>]

Raised(m) == [outcome |-> "raised", managers |-> m]

RequiresReview(outcome) == outcome # "mapped"
ReviewOutcome(product, variant) ==
    IF RequiresReview(product.outcome) THEN product.outcome ELSE variant.outcome

\* The assertion after an approval is of the product alone when the variant was
\* not mapped, and there is none without a selected product.
AssertReviewed(m, o, product, variant, c) ==
    LET p == CHOOSE p \in product.selected : TRUE
        done == Apply(m, p, variant.selected, {o.artifact},
                      [cases |-> {c}, product |-> p.id, variant |-> variant.outcome])
    IN  IF product.selected = {} THEN [outcome |-> "completed_without_assertion", managers |-> m]
        ELSE IF done = {} THEN Raised(m)
        ELSE [outcome |-> "asserted", managers |-> CHOOSE n \in done : TRUE]

AssertMatched(m, o, product, variant) ==
    LET p == CHOOSE p \in product.selected : TRUE
        v == CHOOSE v \in variant.selected : TRUE
        done == Apply(m, p, variant.selected, {o.artifact},
                      [cases |-> {}, product |-> p.id, variant |-> v.id])
    IN  IF done = {} THEN Raised(m)
        ELSE [outcome |-> "asserted", managers |-> CHOOSE n \in done : TRUE]

\* The case is queued, resolved when the request brings a resolution, and only
\* an approved one is asserted.
Review(m, o, product, variant, c, resolution) ==
    LET queued == [m EXCEPT !.reviews = Enqueue(@, c)]
        resolved == Resolve(queued.reviews, c, resolution)
        after == [queued EXCEPT !.reviews = CHOOSE r \in resolved : TRUE]
    IN  IF resolution = None THEN [outcome |-> "review_queued", managers |-> queued]
        ELSE IF resolved = {} THEN Raised(queued)
        ELSE IF resolution = "approved" THEN AssertReviewed(after, o, product, variant, c)
        ELSE [outcome |-> "completed_without_assertion", managers |-> after]

\* execute, once the evidence is assembled.  resolution: the status the request
\* asks for, or None; "queued" cannot be asked for, and nothing can be when no
\* review is needed.
Execute(m, o, snapshot, g, resolution) ==
    LET candidates == Candidates(o, snapshot)
        product == MatchProduct(o, candidates.products)
        variant == MatchVariant(o, product.selected, candidates.variants, g)
        outcome == ReviewOutcome(product, variant)
        c == Case(o, candidates, outcome)
    IN  IF resolution = "queued" THEN Raised(m)
        ELSE IF RequiresReview(outcome) THEN Review(m, o, product, variant, c, resolution)
        ELSE IF resolution # None THEN Raised(m)
        ELSE AssertMatched(m, o, product, variant)

=============================================================================
