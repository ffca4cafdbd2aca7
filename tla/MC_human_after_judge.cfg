\* An answer sent before the gate, as SendHumanInput allows it.
CONSTANTS
    ApprovalModes = {"hybrid"}
    MaxSignals = 1
    MaxDisturbances = 0
    MaxExecutions = 1
    QueryMayFail = FALSE
    ForeignSignals = {}
SPECIFICATION Spec
INVARIANT HumanAfterJudge
CHECK_DEADLOCK FALSE
