\* The pull request is opened after the phase has become terminal.
CONSTANTS
    ApprovalModes = {"none"}
    MaxSignals = 1
    MaxDisturbances = 0
    MaxExecutions = 1
    QueryMayFail = FALSE
    ForeignSignals = {"cancel", "approval-decision"}
SPECIFICATION Spec
INVARIANT PRUrlRecorded
CHECK_DEADLOCK FALSE
