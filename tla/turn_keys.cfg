CONSTANTS
    Keys = {1, 2, 3}
    ProviderOf <- ThreeKeys
    Models <- TwoModels
    DefaultModel <- Defaults
    ProjectModel <- Flash
    Fallback = TRUE
    t1 = t1
    t2 = t2
    Turns = {t1, t2}
    NoKey = NoKey
    NoModel = NoModel
    NoSession = NoSession
SYMMETRY Interchangeable
VIEW StateThatMatters
SPECIFICATION Spec
INVARIANTS
    KeyFitsModel
    OrderOfKeys
