\* docs/architecture/overview.md on the teardown, against an activity whose reply is lost.
CONSTANTS
    ApprovalModes = {"none"}
    MaxConsecutiveStatusErrors = 2
    MaxSignals = 1
SPECIFICATION WorkflowSpec
INVARIANT NoLeak
CHECK_DEADLOCK FALSE
