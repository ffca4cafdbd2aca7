\* The human gate after the judge, as seen by SendHumanInput.
CONSTANTS
    ApprovalModes = {"hybrid"}
    MaxSignals = 1
    MaxDisturbances = 0
    MaxExecutions = 1
    QueryMayFail = FALSE
    ForeignSignals = {"cancel", "approval-decision"}
SPECIFICATION Spec
INVARIANT GateAnswerable
CHECK_DEADLOCK FALSE
