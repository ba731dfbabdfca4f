CONSTANTS
    k1 = k1
    d1 = d1
    Keys = {k1}
    Details = {d1}
    NoKey = NoKey
    NoPlan = NoPlan
    MAX_TOOL_CALLS_PER_TURN = 2
    MAX_STAGE1_RETRIES = 2
    MAX_STAGE2_RETRIES = 2
    MAX_STAGE2_TOOL_LOOPS = 2
SPECIFICATION FairSpec
INVARIANTS
    TurnIsBounded
PROPERTIES
    TurnEnds
