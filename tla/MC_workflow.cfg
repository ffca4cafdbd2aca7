\* One run in every approval mode, under the fairness Temporal gives.
CONSTANTS
    ApprovalModes = {"none", "llm-judge", "hitl", "hybrid"}
    MaxConsecutiveStatusErrors = 2
    MaxSignals = 1
SPECIFICATION FairWorkflowSpec
INVARIANTS WorkflowTypeOK PushRequiresGate RejectionIsFinal TeardownComplete
PROPERTIES FailedIsFinal ImplementsContract Closes DecisionResolvesGate
CHECK_DEADLOCK FALSE
