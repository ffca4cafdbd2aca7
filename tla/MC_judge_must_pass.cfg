\* The judge's verdict as a condition of the push.
CONSTANTS
    ApprovalModes = {"llm-judge", "hybrid"}
    MaxConsecutiveStatusErrors = 2
    MaxSignals = 1
SPECIFICATION WorkflowSpec
INVARIANT JudgeMustPass
CHECK_DEADLOCK FALSE
