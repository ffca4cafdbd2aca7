\* The resource follows the workflow to its end, with conflicts, crashes and failing queries.
CONSTANTS
    ApprovalModes = {"none", "llm-judge", "hitl", "hybrid"}
    MaxSignals = 1
    MaxDisturbances = 2
    MaxExecutions = 2
    QueryMayFail = TRUE
    ForeignSignals = {"cancel", "approval-decision"}
SPECIFICATION FairSpec
INVARIANTS TypeOK DeliveryIsApproved EndsTerminal TerminalAgrees QueriedSuccessIsApproved CompletedHasStart
PROPERTIES TerminalIsFinal SyncCompletes DeletionCompletes GateTakesInput
CHECK_DEADLOCK FALSE
