SPECIFICATION FairSpec
CONSTANTS
    Keys = {k1}
    Materials = {m1, m2}
    Labels = {l1}
    Requests = {r1, r2}
    Backends = {"infisical"}
    VerifyOnWrite = TRUE
    NoRow = NoRow
    NoMaterial = NoMaterial
    NoKey = NoKey
    NoLabel = NoLabel
VIEW WithoutAnswers
INVARIANT PageIsTrue
 
CHECK_DEADLOCK FALSE
