\* Cancelling a run that waits at the human gate.
CONSTANTS
    ApprovalModes = {"hitl"}
    MaxConsecutiveStatusErrors = 2
    MaxSignals = 1
SPECIFICATION FairWorkflowSpec
PROPERTY CancelCloses
CHECK_DEADLOCK FALSE
