CONSTANTS
    w1 = w1
    w2 = w2
    butter = butter
    cheese = cheese
    other = other
    dairy = dairy
    small = small
    large = large
    block = block
    tAmul = tAmul
    tButter = tButter
    tCheese = tCheese
    tSalted = tSalted
    tDairy = tDairy
    t100g = t100g
    tWord = tWord
    Token <- MCToken
    QuantityToken = {t100g}
    Key = {butter, cheese, other, dairy}
    PackValue = {small, large, block}
    Worker = {w1, w2}
    Operator = op
    Batch <- MCBatch
    Manifest <- MCManifest
    Curated <- MCCurated
    Hooks <- MCHooks
    MaxImports = 2
    MaxExecutions = 3
SPECIFICATION Spec
INVARIANTS TypeOK AssociationsResolve FoundCanBeCarted ResolvedIsRecorded AssertionsAreJustified
CHECK_DEADLOCK FALSE
