CONSTANTS
    None = None
    INR = INR
    Other = Other
    E = E
    Currency = {INR, Other}
    i1 = i1
    i2 = i2
    l1 = l1
    l2 = l2
    l3 = l3
    Thread = {t1, t2}
    Request = {r1}
    Item = {i1, i2}
    Listing = {l1, l2, l3}
    ItemOf <- MCItemOf
    Checkout <- MCCheckout
    World <- MCWorld
    OwnId = {7}
    Supplied <- MCSupplied
    Submitted <- MCSubmitted
    MaxCaptures = 3
SPECIFICATION Spec
SYMMETRY MCSymmetry
INVARIANTS TypeOK EvaluatedOnOwnCapture ReadyIsCheapest ChosenFulfills
