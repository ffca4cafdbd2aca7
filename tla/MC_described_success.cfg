\* The fallback to DescribeWorkflowExecution, for a run that failed without an error.
CONSTANTS
    ApprovalModes = {"hitl"}
    MaxSignals = 1
    MaxDisturbances = 0
    MaxExecutions = 1
    QueryMayFail = TRUE
    ForeignSignals = {"cancel", "approval-decision"}
SPECIFICATION Spec
INVARIANT SucceededIsApproved
CHECK_DEADLOCK FALSE
