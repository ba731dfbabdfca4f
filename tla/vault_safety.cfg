SPECIFICATION Spec
CONSTANTS
    Keys = {k1, k2}
    Materials = {m1}
    Labels = {l1, l2}
    Requests = {r1, r2}
    Backends = {"infisical"}
    VerifyOnWrite = TRUE
    NoRow = NoRow
    NoMaterial = NoMaterial
    NoKey = NoKey
    NoLabel = NoLabel
SYMMETRY Interchangeable
VIEW WithoutOverlaps
INVARIANTS OneDefault RowHasSecret DeadlockIsAboutDefault
CHECK_DEADLOCK FALSE
