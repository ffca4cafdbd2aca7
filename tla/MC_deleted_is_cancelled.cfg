\* Deleting a run whose workflow id is not recorded yet.
CONSTANTS
    ApprovalModes = {"none"}
    MaxSignals = 1
    MaxDisturbances = 0
    MaxExecutions = 1
    QueryMayFail = FALSE
    ForeignSignals = {"cancel", "approval-decision"}
SPECIFICATION Spec
INVARIANT DeletedIsCancelled
CHECK_DEADLOCK FALSE
