CONSTANTS
    k1 = k1
    k2 = k2
    d1 = d1
    d2 = d2
    Keys = {k1, k2}
    Details = {d1, d2}
    NoKey = NoKey
    NoPlan = NoPlan
    MAX_TOOL_CALLS_PER_TURN = 2
    MAX_STAGE1_RETRIES = 2
    MAX_STAGE2_RETRIES = 2
    MAX_STAGE2_TOOL_LOOPS = 4
SPECIFICATION Spec
INVARIANT PassClaimNeedsEvaluation
