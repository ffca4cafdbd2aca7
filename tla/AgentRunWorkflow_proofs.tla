---------------------- MODULE AgentRunWorkflow_proofs ----------------------
(***************************************************************************)
(* Proofs about the detailed workflow, for every set of approval modes,    *)
(* every limit on status errors and any number of queued signals.          *)
(***************************************************************************)
EXTENDS AgentRunWorkflow, SequenceTheorems, TLAPS

Ended == Teardown \cup {"closed"}

\* The workflow counts status errors only up to the one that ends it.
ErrsInv == pc \notin Ended => errs < MaxConsecutiveStatusErrors

\* What holds at each point: after the gate it has passed, at the human gate of
\* a hybrid run the judge has let it through, and before delivery nothing has
\* left the pod.
GateInv ==
    /\ pc \in {"enrich", "push", "createPR"} => GatePassed
    /\ pc = "approval" /\ input.mode \in JudgeModes => verdict \in {"approve", "error"}
    /\ pc \notin Ended \cup {"enrich", "push", "createPR"} => ~pushed /\ ~prOpen

\* The inductive invariant behind PushRequiresGate and RejectionIsFinal.
SafetyInv == GateInv /\ PushRequiresGate /\ RejectionIsFinal

(***************************************************************************)
(* Type correctness.                                                       *)
(***************************************************************************)
\* Values that are not flags keep their types.
LEMMA NextValuesOK == ValuesOK /\ ErrsInv /\ [WorkflowNext]_wfVars => ValuesOK'
  <1> SUFFICES ASSUME ValuesOK, ErrsInv, [WorkflowNext]_wfVars PROVE ValuesOK'
    OBVIOUS
  <1> USE BoundsAssumption
      DEF ValuesOK, ErrsInv, Ended, Locations, Phases, Teardown, Return, CleanupEntry,
              ActivityError, control, signals, keyVars, podVars, agentVars, gateVars, gitVars,
              downVars
  <1>1. CASE StartWorkflow
    BY <1>1 DEF StartWorkflow
  <1>2. CASE ProvisionLLMKey
    BY <1>2 DEF ProvisionLLMKey
  <1>3. CASE CreateAgentDeployment
    BY <1>3 DEF CreateAgentDeployment
  <1>4. CASE CheckPodStatus
    BY <1>4 DEF CheckPodStatus
  <1>5. CASE WaitForHydration
    BY <1>5 DEF WaitForHydration
  <1>6. CASE HydrateContext
    BY <1>6 DEF HydrateContext
  <1>7. CASE StartAgent
    BY <1>7 DEF StartAgent
  <1>8. CASE SelectCancel
    BY <1>8 DEF SelectCancel
  <1>9. CASE SelectHumanInput
    BY <1>9 DEF SelectHumanInput
  <1>10. CASE SelectTTL
    BY <1>10 DEF SelectTTL
  <1>11. CASE SelectPoll
    BY <1>11 DEF SelectPoll
  <1>12. CASE StopAgent
    BY <1>12 DEF StopAgent
  <1>13. CASE ForwardHumanInput
    BY <1>13 DEF ForwardHumanInput
  <1>14. CASE GetAgentStatus
    BY <1>14 DEF GetAgentStatus, EnterGate
  <1>15. CASE LLMJudgeChanges
    BY <1>15 DEF LLMJudgeChanges, Verdicts
  <1>16. CASE HumanApproval
    <2>0. /\ approvalCh # <<>> => Tail(approvalCh) \in Seq([approved : BOOLEAN, atGate : BOOLEAN])
          /\ humanInputCh # <<>> => Tail(humanInputCh) \in Seq(HumanInputSignal)
      BY HeadTailProperties
    <2>1. /\ approvalCh' \in Seq([approved : BOOLEAN, atGate : BOOLEAN])
          /\ humanInputCh' \in Seq(HumanInputSignal)
      BY <1>16, <2>0, Zenon DEF HumanApproval
    <2>2. ASSUME NEW approved, NEW atGate, Decide(approved, atGate)
          PROVE  /\ pc' \in Locations /\ phase' \in Phases /\ ret' \in {"nil", "err", "canceled"}
                 /\ decision' \in {"none", "approve", "reject"}
      BY <2>2 DEF Decide
    <2>3. /\ pc' \in Locations /\ phase' \in Phases /\ ret' \in {"nil", "err", "canceled"}
          /\ decision' \in {"none", "approve", "reject"}
      BY <1>16, <2>2, Zenon DEF HumanApproval
    <2> QED
      BY <1>16, <2>1, <2>3 DEF HumanApproval
  <1>17. CASE EnrichRunTags
    BY <1>17 DEF EnrichRunTags
  <1>18. CASE PushChanges
    BY <1>18 DEF PushChanges
  <1>19. CASE CreatePR
    BY <1>19 DEF CreatePR
  <1>20. CASE PersistRunData
    BY <1>20 DEF PersistRunData
  <1>21. CASE RevokeLLMKey
    <2>1. cleanupFailed' \subseteq {"revoke", "scale", "archive"}
      BY <1>21 DEF RevokeLLMKey
    <2>2. pc' \in Locations
      BY <1>21 DEF RevokeLLMKey
    <2> QED
      BY <1>21, <2>1, <2>2 DEF RevokeLLMKey
  <1>22. CASE CollectAgentLogs
    BY <1>22 DEF CollectAgentLogs
  <1>23. CASE ScaleDownDeployment
    <2>1. cleanupFailed' \subseteq {"revoke", "scale", "archive"}
      BY <1>23 DEF ScaleDownDeployment
    <2>2. pc' \in Locations /\ dep' \in {"absent", "up", "down"}
      BY <1>23 DEF ScaleDownDeployment
    <2> QED
      BY <1>23, <2>1, <2>2 DEF ScaleDownDeployment
  <1>24. CASE RetentionElapses
    BY <1>24 DEF RetentionElapses
  <1>25. CASE ArchiveAndCleanup
    <2>1. cleanupFailed' \subseteq {"revoke", "scale", "archive"}
      BY <1>25 DEF ArchiveAndCleanup
    <2>2. pc' \in Locations /\ dep' \in {"absent", "up", "down"}
      BY <1>25 DEF ArchiveAndCleanup
    <2> QED
      BY <1>25, <2>1, <2>2 DEF ArchiveAndCleanup
  <1>26. CASE AgentAsks
    BY <1>26 DEF AgentAsks
  <1>27. CASE AgentExits
    BY <1>27 DEF AgentExits
  <1>28. CASE TTLFires
    BY <1>28 DEF TTLFires
  <1>29. CASE CancelWorkflow
    BY <1>29 DEF CancelWorkflow
  <1>30. CASE SignalCancel
    BY <1>30 DEF SignalCancel, Queued
  <1>31. ASSUME NEW t \in Texts, SignalHumanInput(t) PROVE ValuesOK'
    BY <1>31 DEF SignalHumanInput, HumanInputSignal
  <1>32. ASSUME NEW b \in BOOLEAN, SignalApprovalDecision(b) PROVE ValuesOK'
    BY <1>32 DEF SignalApprovalDecision
  <1>33. CASE UNCHANGED wfVars
    BY <1>33 DEF wfVars
  <1> QED
    BY <1>1, <1>2, <1>3, <1>4, <1>5, <1>6, <1>7, <1>8, <1>9, <1>10, <1>11,
       <1>12, <1>13, <1>14, <1>15, <1>16, <1>17, <1>18, <1>19, <1>20, <1>21,
       <1>22, <1>23, <1>24, <1>25, <1>26, <1>27, <1>28, <1>29, <1>30, <1>31,
       <1>32, <1>33
       DEF WorkflowNext, WorkflowStep, Setup, PollLoop, Gate, Deliver, Cleanup,
           AgentStep, Client

\* The flags stay Boolean.
LEMMA NextFlagsOK == ValuesOK /\ FlagsOK /\ [WorkflowNext]_wfVars => FlagsOK'
  <1> SUFFICES ASSUME ValuesOK, FlagsOK, [WorkflowNext]_wfVars PROVE FlagsOK'
    OBVIOUS
  <1> USE DEF FlagsOK, control, signals, keyVars, podVars, agentVars, gateVars, gitVars,
              downVars
  <1>1. CASE StartWorkflow
    BY <1>1 DEF StartWorkflow
  <1>2. CASE ProvisionLLMKey
    BY <1>2 DEF ProvisionLLMKey, KeyLive
  <1>3. CASE CreateAgentDeployment
    BY <1>3 DEF CreateAgentDeployment, VolumeLeft
  <1>4. CASE CheckPodStatus
    BY <1>4 DEF CheckPodStatus
  <1>5. CASE WaitForHydration
    BY <1>5 DEF WaitForHydration
  <1>6. CASE HydrateContext
    BY <1>6 DEF HydrateContext
  <1>7. CASE StartAgent
    BY <1>7 DEF StartAgent
  <1>8. CASE SelectCancel
    BY <1>8 DEF SelectCancel
  <1>9. CASE SelectHumanInput
    BY <1>9 DEF SelectHumanInput
  <1>10. CASE SelectTTL
    BY <1>10 DEF SelectTTL
  <1>11. CASE SelectPoll
    BY <1>11 DEF SelectPoll
  <1>12. CASE StopAgent
    BY <1>12 DEF StopAgent
  <1>13. CASE ForwardHumanInput
    BY <1>13 DEF ForwardHumanInput
  <1>14. CASE GetAgentStatus
    BY <1>14 DEF GetAgentStatus
  <1>15. CASE LLMJudgeChanges
    BY <1>15 DEF LLMJudgeChanges
  <1>16. CASE HumanApproval
    <2>1. /\ approvalCh # <<>> => Head(approvalCh) \in [approved : BOOLEAN, atGate : BOOLEAN]
          /\ humanInputCh # <<>> => Head(humanInputCh) \in HumanInputSignal
      BY HeadTailProperties DEF ValuesOK
    <2>2. /\ approvalCh # <<>> => Head(approvalCh).atGate \in BOOLEAN
          /\ humanInputCh # <<>> => Head(humanInputCh).atGate \in BOOLEAN
      BY <2>1 DEF HumanInputSignal
    <2>3. timely' \in BOOLEAN
      BY <1>16, <2>2, Zenon DEF HumanApproval, Decide
    <2> QED
      BY <1>16, <2>3, Zenon DEF HumanApproval
  <1>17. CASE EnrichRunTags
    BY <1>17 DEF EnrichRunTags
  <1>18. CASE PushChanges
    BY <1>18 DEF PushChanges, PushOutcomes
  <1>19. CASE CreatePR
    BY <1>19 DEF CreatePR
  <1>20. CASE PersistRunData
    BY <1>20 DEF PersistRunData
  <1>21. CASE RevokeLLMKey
    BY <1>21 DEF RevokeLLMKey
  <1>22. CASE CollectAgentLogs
    BY <1>22 DEF CollectAgentLogs
  <1>23. CASE ScaleDownDeployment
    BY <1>23 DEF ScaleDownDeployment
  <1>24. CASE RetentionElapses
    BY <1>24 DEF RetentionElapses
  <1>25. CASE ArchiveAndCleanup
    BY <1>25 DEF ArchiveAndCleanup
  <1>26. CASE AgentAsks
    BY <1>26 DEF AgentAsks
  <1>27. CASE AgentExits
    BY <1>27 DEF AgentExits
  <1>28. CASE TTLFires
    BY <1>28 DEF TTLFires
  <1>29. CASE CancelWorkflow
    BY <1>29 DEF CancelWorkflow
  <1>30. CASE SignalCancel
    BY <1>30 DEF SignalCancel
  <1>31. ASSUME NEW t \in Texts, SignalHumanInput(t) PROVE FlagsOK'
    BY <1>31 DEF SignalHumanInput
  <1>32. ASSUME NEW b \in BOOLEAN, SignalApprovalDecision(b) PROVE FlagsOK'
    BY <1>32 DEF SignalApprovalDecision
  <1>33. CASE UNCHANGED wfVars
    BY <1>33 DEF wfVars
  <1> QED
    BY <1>1, <1>2, <1>3, <1>4, <1>5, <1>6, <1>7, <1>8, <1>9, <1>10, <1>11,
       <1>12, <1>13, <1>14, <1>15, <1>16, <1>17, <1>18, <1>19, <1>20, <1>21,
       <1>22, <1>23, <1>24, <1>25, <1>26, <1>27, <1>28, <1>29, <1>30, <1>31,
       <1>32, <1>33
       DEF WorkflowNext, WorkflowStep, Setup, PollLoop, Gate, Deliver, Cleanup,
           AgentStep, Client

\* The counter of status errors stays below its limit while the workflow runs.
LEMMA NextErrsInv == ValuesOK /\ ErrsInv /\ [WorkflowNext]_wfVars => ErrsInv'
  <1> SUFFICES ASSUME ValuesOK, ErrsInv, [WorkflowNext]_wfVars PROVE ErrsInv'
    OBVIOUS
  <1> USE BoundsAssumption
      DEF ValuesOK, ErrsInv, Ended, Teardown, Return, CleanupEntry, ActivityError,
              control, signals, keyVars, podVars, agentVars, gateVars, gitVars,
              downVars
  <1>1. CASE StartWorkflow
    BY <1>1 DEF StartWorkflow
  <1>2. CASE ProvisionLLMKey
    BY <1>2 DEF ProvisionLLMKey
  <1>3. CASE CreateAgentDeployment
    BY <1>3 DEF CreateAgentDeployment
  <1>4. CASE CheckPodStatus
    BY <1>4 DEF CheckPodStatus
  <1>5. CASE WaitForHydration
    BY <1>5 DEF WaitForHydration
  <1>6. CASE HydrateContext
    BY <1>6 DEF HydrateContext
  <1>7. CASE StartAgent
    BY <1>7 DEF StartAgent
  <1>8. CASE SelectCancel
    BY <1>8 DEF SelectCancel
  <1>9. CASE SelectHumanInput
    BY <1>9 DEF SelectHumanInput
  <1>10. CASE SelectTTL
    BY <1>10 DEF SelectTTL
  <1>11. CASE SelectPoll
    BY <1>11 DEF SelectPoll
  <1>12. CASE StopAgent
    BY <1>12 DEF StopAgent
  <1>13. CASE ForwardHumanInput
    BY <1>13 DEF ForwardHumanInput
  <1>14. CASE GetAgentStatus
    BY <1>14 DEF GetAgentStatus, EnterGate
  <1>15. CASE LLMJudgeChanges
    BY <1>15 DEF LLMJudgeChanges, Verdicts
  <1>16. CASE HumanApproval
    BY <1>16 DEF HumanApproval, Decide
  <1>17. CASE EnrichRunTags
    BY <1>17 DEF EnrichRunTags
  <1>18. CASE PushChanges
    BY <1>18 DEF PushChanges
  <1>19. CASE CreatePR
    BY <1>19 DEF CreatePR
  <1>20. CASE PersistRunData
    BY <1>20 DEF PersistRunData
  <1>21. CASE RevokeLLMKey
    BY <1>21 DEF RevokeLLMKey
  <1>22. CASE CollectAgentLogs
    BY <1>22 DEF CollectAgentLogs
  <1>23. CASE ScaleDownDeployment
    BY <1>23 DEF ScaleDownDeployment
  <1>24. CASE RetentionElapses
    BY <1>24 DEF RetentionElapses
  <1>25. CASE ArchiveAndCleanup
    BY <1>25 DEF ArchiveAndCleanup
  <1>26. CASE AgentAsks
    BY <1>26 DEF AgentAsks
  <1>27. CASE AgentExits
    BY <1>27 DEF AgentExits
  <1>28. CASE TTLFires
    BY <1>28 DEF TTLFires
  <1>29. CASE CancelWorkflow
    BY <1>29 DEF CancelWorkflow
  <1>30. CASE SignalCancel
    BY <1>30 DEF SignalCancel
  <1>31. ASSUME NEW t \in Texts, SignalHumanInput(t) PROVE ErrsInv'
    BY <1>31 DEF SignalHumanInput
  <1>32. ASSUME NEW b \in BOOLEAN, SignalApprovalDecision(b) PROVE ErrsInv'
    BY <1>32 DEF SignalApprovalDecision
  <1>33. CASE UNCHANGED wfVars
    BY <1>33 DEF wfVars
  <1> QED
    BY <1>1, <1>2, <1>3, <1>4, <1>5, <1>6, <1>7, <1>8, <1>9, <1>10, <1>11,
       <1>12, <1>13, <1>14, <1>15, <1>16, <1>17, <1>18, <1>19, <1>20, <1>21,
       <1>22, <1>23, <1>24, <1>25, <1>26, <1>27, <1>28, <1>29, <1>30, <1>31,
       <1>32, <1>33
       DEF WorkflowNext, WorkflowStep, Setup, PollLoop, Gate, Deliver, Cleanup,
           AgentStep, Client

\* Every initial state is well typed.
LEMMA InitTypeOK == WorkflowInit => WorkflowTypeOK /\ ErrsInv
  <1>1. /\ <<>> \in Seq(HumanInputSignal)
        /\ <<>> \in Seq([approved : BOOLEAN, atGate : BOOLEAN])
    BY EmptySeq
  <1>2. 0 \in 0..MaxConsecutiveStatusErrors /\ 0 \in 0..MaxSignals /\ 0 < MaxConsecutiveStatusErrors
    BY BoundsAssumption
  <1>3. WorkflowInit => ValuesOK
    BY <1>1, <1>2, Zenon DEF WorkflowInit, ValuesOK, Locations, Phases
  <1>4. WorkflowInit => FlagsOK
    BY Zenon DEF WorkflowInit, FlagsOK
  <1>5. WorkflowInit => ErrsInv
    BY <1>2 DEF WorkflowInit, ErrsInv
  <1> QED
    BY <1>3, <1>4, <1>5 DEF WorkflowTypeOK

\* The workflow, its channels and the resources of its activities keep their
\* types; in particular consecutiveErrors never exceeds its limit.
THEOREM TypeCorrect == WorkflowSpec => []WorkflowTypeOK
  <1>1. WorkflowTypeOK /\ ErrsInv /\ [WorkflowNext]_wfVars => (WorkflowTypeOK /\ ErrsInv)'
    BY NextValuesOK, NextFlagsOK, NextErrsInv DEF WorkflowTypeOK
  <1> QED
    BY <1>1, InitTypeOK, PTL DEF WorkflowSpec

(***************************************************************************)
(* The gate and the rejection.                                             *)
(***************************************************************************)
\* Every step keeps the invariant: the gate is the only way from the poll loop
\* to the push, and a rejection enters the teardown, which keeps phase and error.
LEMMA NextSafetyInv == WorkflowTypeOK /\ SafetyInv /\ [WorkflowNext]_wfVars => SafetyInv'
  <1> SUFFICES ASSUME WorkflowTypeOK, SafetyInv, [WorkflowNext]_wfVars PROVE SafetyInv'
    OBVIOUS
  <1> USE DEF SafetyInv, GateInv, PushRequiresGate, RejectionIsFinal, GatePassed, Ended,
              Teardown, Return, CleanupEntry, ActivityError, control, signals, keyVars, podVars, agentVars, gateVars, gitVars,
              downVars
  <1>1. CASE StartWorkflow
    BY <1>1 DEF StartWorkflow
  <1>2. CASE ProvisionLLMKey
    BY <1>2 DEF ProvisionLLMKey
  <1>3. CASE CreateAgentDeployment
    BY <1>3 DEF CreateAgentDeployment
  <1>4. CASE CheckPodStatus
    BY <1>4 DEF CheckPodStatus
  <1>5. CASE WaitForHydration
    BY <1>5 DEF WaitForHydration
  <1>6. CASE HydrateContext
    BY <1>6 DEF HydrateContext
  <1>7. CASE StartAgent
    BY <1>7 DEF StartAgent
  <1>8. CASE SelectCancel
    BY <1>8 DEF SelectCancel
  <1>9. CASE SelectHumanInput
    BY <1>9 DEF SelectHumanInput
  <1>10. CASE SelectTTL
    BY <1>10 DEF SelectTTL
  <1>11. CASE SelectPoll
    BY <1>11 DEF SelectPoll
  <1>12. CASE StopAgent
    BY <1>12 DEF StopAgent
  <1>13. CASE ForwardHumanInput
    BY <1>13 DEF ForwardHumanInput
  <1>14. CASE GetAgentStatus
    BY <1>14 DEF GetAgentStatus, EnterGate
  <1>15. CASE LLMJudgeChanges
    BY <1>15 DEF LLMJudgeChanges, Verdicts
  <1>16. CASE HumanApproval
    BY <1>16 DEF HumanApproval, Decide
  <1>17. CASE EnrichRunTags
    BY <1>17 DEF EnrichRunTags
  <1>18. CASE PushChanges
    BY <1>18 DEF PushChanges
  <1>19. CASE CreatePR
    BY <1>19 DEF CreatePR
  <1>20. CASE PersistRunData
    BY <1>20 DEF PersistRunData
  <1>21. CASE RevokeLLMKey
    BY <1>21 DEF RevokeLLMKey
  <1>22. CASE CollectAgentLogs
    BY <1>22 DEF CollectAgentLogs
  <1>23. CASE ScaleDownDeployment
    BY <1>23 DEF ScaleDownDeployment
  <1>24. CASE RetentionElapses
    BY <1>24 DEF RetentionElapses
  <1>25. CASE ArchiveAndCleanup
    BY <1>25 DEF ArchiveAndCleanup
  <1>26. CASE AgentAsks
    BY <1>26 DEF AgentAsks
  <1>27. CASE AgentExits
    BY <1>27 DEF AgentExits
  <1>28. CASE TTLFires
    BY <1>28 DEF TTLFires
  <1>29. CASE CancelWorkflow
    BY <1>29 DEF CancelWorkflow
  <1>30. CASE SignalCancel
    BY <1>30 DEF SignalCancel
  <1>31. ASSUME NEW t \in Texts, SignalHumanInput(t) PROVE SafetyInv'
    BY <1>31 DEF SignalHumanInput
  <1>32. ASSUME NEW b \in BOOLEAN, SignalApprovalDecision(b) PROVE SafetyInv'
    BY <1>32 DEF SignalApprovalDecision
  <1>33. CASE UNCHANGED wfVars
    BY <1>33 DEF wfVars
  <1> QED
    BY <1>1, <1>2, <1>3, <1>4, <1>5, <1>6, <1>7, <1>8, <1>9, <1>10, <1>11,
       <1>12, <1>13, <1>14, <1>15, <1>16, <1>17, <1>18, <1>19, <1>20, <1>21,
       <1>22, <1>23, <1>24, <1>25, <1>26, <1>27, <1>28, <1>29, <1>30, <1>31,
       <1>32, <1>33
       DEF WorkflowNext, WorkflowStep, Setup, PollLoop, Gate, Deliver, Cleanup,
           AgentStep, Client

\* The invariant holds in every execution of the workflow.
LEMMA SafetyInvariant == WorkflowSpec => []SafetyInv
  <1>1. WorkflowInit => SafetyInv
    BY DEF WorkflowInit, SafetyInv, GateInv, PushRequiresGate, RejectionIsFinal
  <1> QED
    BY <1>1, NextSafetyInv, TypeCorrect, PTL DEF WorkflowSpec

\* A branch is pushed or a pull request opened only after runApprovalGate has
\* let the run through: approved by the judge, or skipped by it on an error, and
\* approved by the human where the mode asks for one.
THEOREM GateFirst == WorkflowSpec => []PushRequiresGate
  BY SafetyInvariant, PTL DEF SafetyInv

\* A run the judge or the human rejected stays Failed with an error and only
\* tears down.
THEOREM RejectionFinal == WorkflowSpec => []RejectionIsFinal
  BY SafetyInvariant, PTL DEF SafetyInv
=============================================================================
