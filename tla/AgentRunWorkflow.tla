-------------------------- MODULE AgentRunWorkflow --------------------------
(***************************************************************************)
(* AgentRunWorkflow of internal/temporal/workflow.go in single mode: the   *)
(* Temporal workflow that owns one agent run, the resources its activities *)
(* create (LLM key, deployment, volume, agent process, branch, pull        *)
(* request) and the deferred teardown.                                     *)
(*                                                                         *)
(* pc is the point the workflow blocks at: an activity future, a selector  *)
(* or the retention sleep.  The workflow computes atomically between two   *)
(* such points, and a get-state query sees the state only at one of them.  *)
(*                                                                         *)
(* CancelWorkflow cancels the workflow context.  From then on an activity  *)
(* of that context resolves at once with a cancelled error, although the   *)
(* activity may have taken effect; timers resolve as well; a selector over *)
(* signal channels alone does not notice.  The deferred teardown runs on a *)
(* disconnected context and is not affected.                               *)
(***************************************************************************)
EXTENDS Naturals, Sequences

CONSTANTS
    ApprovalModes,               \* the approval modes runs are created with
    MaxConsecutiveStatusErrors,  \* maxConsecutiveStatusErrors (5)
    MaxSignals                   \* bound: signals queued at a time

ASSUME ModesAssumption ==
    ApprovalModes \subseteq {"none", "llm-judge", "hitl", "hybrid"}
ASSUME BoundsAssumption ==
    MaxConsecutiveStatusErrors \in Nat \ {0} /\ MaxSignals \in Nat

VARIABLES
    input,           \* WorkflowInput: approval mode; autoPush or autoPR
    pc, phase, ret,  \* blocking point, state.Phase, kind of the returned error
    errs,            \* consecutiveErrors
    ttl,             \* the TTL timer has fired
    ctxCancelled,    \* the workflow context is cancelled
    cancelCh, humanInputCh, approvalCh,   \* signal channels
    llmKey, keyLive,           \* the key the workflow holds; a virtual key exists
    deploymentName, dep, pvc,  \* the name is known; deployment; volume
    podIP,                     \* the sidecar address is known
    agent, live,     \* state the sidecar reports; the agent process is alive
    verdict, decision, timely, \* judge, human; the decision was sent at the gate
    pushed, prOpen, prUrl,     \* branch pushed; PR exists; state.PRUrl is set
    logOutput,       \* status.logOutput of the AgentRun has been patched
    cleanupFailed    \* teardown activities that ran out of attempts

control  == <<pc, phase, ret, errs>>
signals  == <<ctxCancelled, cancelCh, humanInputCh, approvalCh>>
keyVars  == <<llmKey, keyLive>>
podVars  == <<deploymentName, dep, pvc, podIP>>
agentVars == <<agent, live>>
gateVars == <<verdict, decision, timely>>
gitVars  == <<pushed, prOpen, prUrl>>
downVars == <<logOutput, cleanupFailed>>
wfVars   == <<input, control, ttl, signals, keyVars, podVars, agentVars,
              gateVars, gitVars, downVars>>

JudgeModes == {"llm-judge", "hybrid"}
HumanModes == {"hitl", "hybrid"}
Teardown == {"persist", "revoke", "collect", "scale", "retain", "archive"}
Locations == {"unstarted", "provision", "deploy", "checkPod", "hydration",
              "hydrateContext", "startAgent", "poll", "forward", "stopCancel",
              "stopTTL", "getStatus", "judge", "approval", "enrich", "push",
              "createPR", "closed"} \cup Teardown
Phases == {"Pending", "Creating", "Hydrating", "Running", "WaitingForInput",
           "Cancelling", "Succeeded", "Failed", "Cancelled"}
Texts == {"reject", "other"}   \* has a reject/deny/no prefix, or not
HumanInputSignal == [text : Texts, atGate : BOOLEAN]

\* A signal or a cancellation that arrives once the teardown has begun is
\* accepted by Temporal and never read: the model leaves it out.
Open == pc \notin Teardown \cup {"unstarted", "closed"}

(***************************************************************************)
(* Initial state and start.                                                *)
(***************************************************************************)
WorkflowInput == [mode : ApprovalModes, git : {"none", "autoPush", "autoPR"}]

WorkflowInit ==
    /\ input \in WorkflowInput
    /\ pc = "unstarted" /\ phase = "Pending" /\ ret = "nil" /\ errs = 0
    /\ ttl = FALSE
    /\ ctxCancelled = FALSE /\ cancelCh = 0
    /\ humanInputCh = <<>> /\ approvalCh = <<>>
    /\ llmKey = "none" /\ keyLive = FALSE
    /\ deploymentName = FALSE /\ dep = "absent" /\ pvc = FALSE /\ podIP = FALSE
    /\ agent = "UNSPECIFIED" /\ live = FALSE
    /\ verdict = "none" /\ decision = "none" /\ timely = FALSE
    /\ pushed = FALSE /\ prOpen = FALSE /\ prUrl = FALSE
    /\ logOutput = FALSE /\ cleanupFailed = {}

\* The first workflow task registers the query handler and runs up to the
\* first activity, so phase Pending is never visible to a query.
StartWorkflow ==
    /\ pc = "unstarted"
    /\ pc' = "provision" /\ phase' = "Creating"
    /\ UNCHANGED <<input, ret, errs, ttl, signals, keyVars, podVars, agentVars,
                   gateVars, gitVars, downVars>>

(***************************************************************************)
(* Returning: the deferred function enters its first teardown step.        *)
(***************************************************************************)
\* Mutant: without a deployment the deferred function does nothing.
CleanupEntryNeedsDeployment == IF deploymentName THEN "persist" ELSE "closed"

CleanupEntry ==
    IF deploymentName THEN "persist"
    ELSE IF llmKey # "none" THEN "revoke" ELSE "closed"

Return(err) == pc' = CleanupEntry /\ ret' = err

\* An activity whose error ends the run: the phase and the returned error
\* tell a cancelled context from a failure.
ActivityError ==
    /\ phase' = IF ctxCancelled THEN "Cancelled" ELSE "Failed"
    /\ Return(IF ctxCancelled THEN "canceled" ELSE "err")

(***************************************************************************)
(* Steps 1 to 4: key, deployment, hydration, agent start.                  *)
(***************************************************************************)
\* Whether a virtual key exists when the activity returned this one: GenerateKey
\* failing falls back to the master key, and only its reply may have been lost;
\* without a LiteLLM client there is no key.
KeyLive(key) ==
    CASE key = "none" -> {FALSE} [] key = "virtual" -> {TRUE} [] key = "master" -> BOOLEAN

ProvisionLLMKey ==
    /\ pc = "provision"
    /\ \/ /\ ~ctxCancelled
          /\ llmKey' \in {"none", "virtual", "master"} /\ keyLive' \in KeyLive(llmKey')
          /\ pc' = "deploy" /\ UNCHANGED <<phase, ret>>
       \/ /\ keyLive' \in BOOLEAN
          /\ ActivityError /\ UNCHANGED llmKey
    /\ UNCHANGED <<input, errs, ttl, signals, podVars, agentVars, gateVars,
                   gitVars, downVars>>

\* The volume is created before the deployment: an error may leave the first.
VolumeLeft(d) == {TRUE, d = "up"}

CreateAgentDeployment ==
    /\ pc = "deploy"
    /\ \/ /\ ~ctxCancelled
          /\ deploymentName' = TRUE /\ dep' = "up" /\ pvc' = TRUE
          /\ pc' = "checkPod" /\ UNCHANGED <<phase, ret>>
       \/ /\ dep' \in {"absent", "up"} /\ pvc' \in VolumeLeft(dep')
          /\ ActivityError /\ UNCHANGED deploymentName
    /\ UNCHANGED <<input, errs, ttl, podIP, signals, keyVars, agentVars, gateVars,
                   gitVars, downVars>>

\* An error of CheckPodStatus is only logged.
CheckPodStatus ==
    /\ pc = "checkPod"
    /\ \/ pc' = "hydration" /\ phase' = "Hydrating" /\ UNCHANGED ret
       \/ ~ctxCancelled /\ phase' = "Failed" /\ Return("err")   \* evicted
    /\ UNCHANGED <<input, errs, ttl, signals, keyVars, podVars, agentVars,
                   gateVars, gitVars, downVars>>

\* The activity polls the pod and returns once every init container is done
\* and the sidecar answers.
HydrationMaySucceed == ~ctxCancelled /\ dep = "up"

WaitForHydration ==
    /\ pc = "hydration"
    /\ \/ /\ HydrationMaySucceed
          /\ podIP' = TRUE /\ pc' = "hydrateContext" /\ UNCHANGED <<phase, ret>>
       \/ ActivityError /\ UNCHANGED podIP
    /\ UNCHANGED <<input, errs, ttl, signals, keyVars, deploymentName, dep, pvc,
                   agentVars, gateVars, gitVars, downVars>>

\* Degrades gracefully: every outcome continues.
HydrateContext ==
    /\ pc = "hydrateContext"
    /\ pc' = "startAgent" /\ phase' = "Running"
    /\ UNCHANGED <<input, ret, errs, ttl, signals, keyVars, podVars, agentVars,
                   gateVars, gitVars, downVars>>

\* The agent may run although the activity reports an error.
StartAgent ==
    /\ pc = "startAgent"
    /\ \/ /\ ~ctxCancelled /\ dep = "up"
          /\ agent' = "RUNNING" /\ live' = TRUE
          /\ pc' = "poll" /\ UNCHANGED <<phase, ret>>
       \/ /\ ActivityError
          /\ \/ UNCHANGED agentVars
             \/ dep = "up" /\ agent' = "RUNNING" /\ live' = TRUE
    /\ UNCHANGED <<input, errs, ttl, signals, keyVars, podVars, gateVars,
                   gitVars, downVars>>

(***************************************************************************)
(* Step 5: the poll loop.  The selector takes the first ready case in the  *)
(* order cancel signal, human input, TTL timer, poll timer.                *)
(***************************************************************************)
\* Mutant: the TTL timer is not a case of the selector.
TTLReadyOnCancelOnly == ctxCancelled

TTLReady == ttl \/ ctxCancelled

\* Mutant: the cancel callback does not receive the signal.
SelectCancelWithoutReceive ==
    /\ pc = "poll" /\ cancelCh > 0
    /\ phase' = "Cancelling" /\ pc' = "stopCancel"
    /\ UNCHANGED <<input, ret, errs, ttl, signals, keyVars, podVars, agentVars,
                   gateVars, gitVars, downVars>>

SelectCancel ==
    /\ pc = "poll" /\ cancelCh > 0
    /\ cancelCh' = cancelCh - 1
    /\ phase' = "Cancelling" /\ pc' = "stopCancel"
    /\ UNCHANGED <<input, ret, errs, ttl, ctxCancelled, humanInputCh, approvalCh,
                   keyVars, podVars, agentVars, gateVars, gitVars, downVars>>

SelectHumanInput ==
    /\ pc = "poll" /\ cancelCh = 0 /\ humanInputCh # <<>>
    /\ humanInputCh' = Tail(humanInputCh)
    /\ pc' = "forward"
    /\ UNCHANGED <<input, phase, ret, errs, ttl, ctxCancelled, cancelCh,
                   approvalCh, keyVars, podVars, agentVars, gateVars, gitVars,
                   downVars>>

SelectTTL ==
    /\ pc = "poll" /\ cancelCh = 0 /\ humanInputCh = <<>> /\ TTLReady
    /\ phase' = "Failed" /\ pc' = "stopTTL"
    /\ UNCHANGED <<input, ret, errs, ttl, signals, keyVars, podVars, agentVars,
                   gateVars, gitVars, downVars>>

SelectPoll ==
    /\ pc = "poll" /\ cancelCh = 0 /\ humanInputCh = <<>> /\ ~TTLReady
    /\ pc' = "getStatus"
    /\ UNCHANGED <<input, phase, ret, errs, ttl, signals, keyVars, podVars,
                   agentVars, gateVars, gitVars, downVars>>

\* Mutant: both stops end as cancelled.
StopAgentAsCancelled ==
    /\ pc \in {"stopCancel", "stopTTL"} /\ phase' = "Cancelled"
    /\ Return("nil")
    /\ UNCHANGED <<input, errs, ttl, signals, keyVars, podVars, agentVars,
                   gateVars, gitVars, downVars>>

\* StopAgent only interrupts the process, and its error is only logged: the
\* process exits by AgentExits or when the deployment is scaled down.
StopAgent ==
    /\ \/ pc = "stopCancel" /\ phase' = "Cancelled"
       \/ pc = "stopTTL" /\ UNCHANGED phase
    /\ Return("nil")
    /\ UNCHANGED <<input, errs, ttl, signals, keyVars, podVars, agentVars,
                   gateVars, gitVars, downVars>>

\* SendInput of the sidecar sets RUNNING whatever the process does; an error
\* of the activity is only logged.
ForwardHumanInput ==
    /\ pc = "forward"
    /\ \/ dep = "up" /\ agent' = "RUNNING"
       \/ UNCHANGED agent
    /\ phase' = "Running" /\ pc' = "poll"
    /\ UNCHANGED <<input, ret, errs, ttl, signals, keyVars, podVars, live,
                   gateVars, gitVars, downVars>>

\* What runApprovalGate does before it blocks for the first time.  Entering
\* the judge leaves state.Phase at the Succeeded the poll has just set.
EnterGate ==
    IF input.mode \in JudgeModes
    THEN pc' = "judge" /\ phase' = "Succeeded"
    ELSE IF input.mode \in HumanModes
    THEN pc' = "approval" /\ phase' = "WaitingForInput"
    ELSE pc' = "enrich" /\ phase' = "Succeeded"

\* Mutant: one more consecutive error is tolerated.
GetAgentStatusOffByOne ==
    /\ pc = "getStatus"
    /\ errs' = errs + 1
    /\ IF errs' > MaxConsecutiveStatusErrors
       THEN phase' = "Failed" /\ Return("nil")
       ELSE pc' = "poll" /\ UNCHANGED <<phase, ret>>
    /\ UNCHANGED <<input, ttl, signals, keyVars, podVars, agentVars, gateVars,
                   gitVars, downVars>>

GetAgentStatus ==
    /\ pc = "getStatus"
    /\ \/ /\ ~ctxCancelled /\ dep = "up"
          /\ errs' = 0
          /\ \/ agent = "COMPLETED" /\ EnterGate /\ UNCHANGED ret
             \/ agent = "FAILED" /\ phase' = "Failed" /\ Return("nil")
             \/ /\ agent = "WAITING_FOR_INPUT"
                /\ phase' = "WaitingForInput" /\ pc' = "poll" /\ UNCHANGED ret
             \/ agent = "RUNNING" /\ pc' = "poll" /\ UNCHANGED <<phase, ret>>
       \/ /\ errs' = errs + 1
          /\ IF errs' >= MaxConsecutiveStatusErrors
             THEN phase' = "Failed" /\ Return("nil")
             ELSE pc' = "poll" /\ UNCHANGED <<phase, ret>>
    /\ UNCHANGED <<input, ttl, signals, keyVars, podVars, agentVars, gateVars,
                   gitVars, downVars>>

(***************************************************************************)
(* runApprovalGate.                                                        *)
(***************************************************************************)
\* Mutant: an approving judge replaces the human of the hybrid mode.
LLMJudgeReplacesHuman ==
    /\ pc = "judge" /\ verdict' = "approve" /\ pc' = "enrich"
    /\ UNCHANGED <<input, phase, ret, errs, ttl, signals, keyVars, podVars, agentVars,
                   decision, timely, gitVars, downVars>>

\* The diff is read through the sidecar and put to the model.
Verdicts == IF ctxCancelled THEN {"error"} ELSE {"approve", "reject", "error"}

\* A judge error, a cancelled context included, counts as a pass.
LLMJudgeChanges ==
    /\ pc = "judge"
    /\ \E v \in Verdicts :
          /\ verdict' = v
          /\ IF v = "reject"
             THEN phase' = "Failed" /\ Return("err")
             ELSE /\ IF input.mode \in HumanModes
                     THEN phase' = "WaitingForInput" /\ pc' = "approval"
                     ELSE pc' = "enrich" /\ UNCHANGED phase
                  /\ UNCHANGED ret
    /\ UNCHANGED <<input, errs, ttl, signals, keyVars, podVars, agentVars,
                   decision, timely, gitVars, downVars>>

\* Mutant: a rejection fails the run and returns no error.
DecideWithoutError(approved, atGate) ==
    /\ timely' = atGate
    /\ IF approved
       THEN decision' = "approve" /\ phase' = "Succeeded" /\ pc' = "enrich" /\ UNCHANGED ret
       ELSE decision' = "reject" /\ phase' = "Failed" /\ Return("nil")

Decide(approved, atGate) ==
    /\ timely' = atGate
    /\ IF approved
       THEN decision' = "approve" /\ phase' = "Succeeded" /\ pc' = "enrich" /\ UNCHANGED ret
       ELSE decision' = "reject" /\ phase' = "Failed" /\ Return("err")

\* Mutant: the gate listens to the approval-decision channel alone.
HumanApprovalBySignalOnly ==
    /\ pc = "approval" /\ approvalCh # <<>>
    /\ Decide(Head(approvalCh).approved, Head(approvalCh).atGate)
    /\ approvalCh' = Tail(approvalCh)
    /\ UNCHANGED <<input, errs, ttl, ctxCancelled, cancelCh, humanInputCh, keyVars,
                   podVars, agentVars, verdict, gitVars, downVars>>

\* The selector prefers the approval-decision channel; a human input counts
\* as approval unless it starts with reject, deny or no.
HumanApproval ==
    /\ pc = "approval"
    /\ \/ /\ approvalCh # <<>>
          /\ Decide(Head(approvalCh).approved, Head(approvalCh).atGate)
          /\ approvalCh' = Tail(approvalCh) /\ UNCHANGED humanInputCh
       \/ /\ approvalCh = <<>> /\ humanInputCh # <<>>
          /\ Decide(Head(humanInputCh).text # "reject", Head(humanInputCh).atGate)
          /\ humanInputCh' = Tail(humanInputCh) /\ UNCHANGED approvalCh
    /\ UNCHANGED <<input, errs, ttl, ctxCancelled, cancelCh, keyVars, podVars,
                   agentVars, verdict, gitVars, downVars>>

(***************************************************************************)
(* After the gate: tags, push, pull request.  All errors are only logged.  *)
(***************************************************************************)
EnrichRunTags ==
    /\ pc = "enrich"
    /\ IF input.git # "none"
       THEN pc' = "push" /\ UNCHANGED ret ELSE Return("nil")
    /\ UNCHANGED <<input, phase, errs, ttl, signals, keyVars, podVars, agentVars,
                   gateVars, gitVars, downVars>>

\* Whether the branch gets pushed: not without changes or a repository.
PushOutcomes == {FALSE, dep = "up"}

\* A pull request follows a reported push, if the owner can be parsed.
PushChanges ==
    /\ pc = "push" /\ pushed' \in PushOutcomes
    /\ \/ pushed' /\ ~ctxCancelled /\ input.git = "autoPR" /\ pc' = "createPR" /\ UNCHANGED ret
       \/ Return("nil")
    /\ UNCHANGED <<input, phase, errs, ttl, signals, keyVars, podVars, agentVars,
                   gateVars, prOpen, prUrl, downVars>>

CreatePR ==
    /\ pc = "createPR"
    /\ \/ ~ctxCancelled /\ prOpen' = TRUE /\ prUrl' = TRUE
       \/ prOpen' \in BOOLEAN /\ UNCHANGED prUrl
    /\ Return("nil")
    /\ UNCHANGED <<input, phase, errs, ttl, signals, keyVars, podVars, agentVars,
                   gateVars, pushed, downVars>>

(***************************************************************************)
(* The deferred teardown, on a disconnected context.  Each step proceeds   *)
(* whatever its activity returns.                                          *)
(***************************************************************************)
\* PersistRunData, then EmbedRunData: the knowledge store is not modelled.
PersistRunData ==
    /\ pc = "persist"
    /\ pc' = IF llmKey # "none" THEN "revoke" ELSE "collect"
    /\ UNCHANGED <<input, phase, ret, errs, ttl, signals, keyVars, podVars,
                   agentVars, gateVars, gitVars, downVars>>

\* RevokeLLMKey deletes a virtual key and skips the master key.
RevokeLLMKey ==
    /\ pc = "revoke"
    /\ \/ /\ keyLive' = (keyLive /\ llmKey = "master")
          /\ UNCHANGED cleanupFailed
       \/ /\ cleanupFailed' = cleanupFailed \cup {"revoke"}
          /\ UNCHANGED keyLive
    /\ pc' = IF deploymentName THEN "collect" ELSE "closed"
    /\ UNCHANGED <<input, phase, ret, errs, ttl, signals, llmKey, podVars,
                   agentVars, gateVars, gitVars, logOutput>>

CollectAgentLogs ==
    /\ pc = "collect"
    /\ \/ podIP /\ dep = "up" /\ logOutput' = TRUE
       \/ UNCHANGED logOutput
    /\ pc' = "scale"
    /\ UNCHANGED <<input, phase, ret, errs, ttl, signals, keyVars, podVars,
                   agentVars, gateVars, gitVars, cleanupFailed>>

\* Zero replicas: the pod and the agent in it go away.
ScaleDownDeployment ==
    /\ pc = "scale"
    /\ \/ /\ dep' = IF dep = "up" THEN "down" ELSE dep
          /\ live' = FALSE /\ UNCHANGED cleanupFailed
       \/ /\ cleanupFailed' = cleanupFailed \cup {"scale"}
          /\ UNCHANGED <<dep, live>>
    /\ pc' = "retain"
    /\ UNCHANGED <<input, phase, ret, errs, ttl, signals, keyVars, deploymentName,
                   pvc, podIP, agent, gateVars, gitVars, logOutput>>

RetentionElapses ==
    /\ pc = "retain" /\ pc' = "archive"
    /\ UNCHANGED <<input, phase, ret, errs, ttl, signals, keyVars, podVars,
                   agentVars, gateVars, gitVars, downVars>>

\* The deployment is deleted before the volume; an error may separate them.
ArchiveAndCleanup ==
    /\ pc = "archive"
    /\ \/ dep' = "absent" /\ pvc' = FALSE /\ live' = FALSE /\ UNCHANGED cleanupFailed
       \/ /\ cleanupFailed' = cleanupFailed \cup {"archive"} /\ UNCHANGED pvc
          /\ \/ UNCHANGED <<dep, live>>
             \/ dep' = "absent" /\ live' = FALSE
    /\ pc' = "closed"
    /\ UNCHANGED <<input, phase, ret, errs, ttl, signals, keyVars, deploymentName,
                   podIP, agent, gateVars, gitVars, logOutput>>

(***************************************************************************)
(* Environment: the TTL timer, the agent process, cancel and signals.      *)
(***************************************************************************)
TTLFires ==
    /\ pc \in {"poll", "forward", "getStatus"} /\ ~ttl
    /\ ttl' = TRUE
    /\ UNCHANGED <<input, control, signals, keyVars, podVars, agentVars, gateVars,
                   gitVars, downVars>>

\* ask_user notifies the sidecar, which then reports WAITING_FOR_INPUT.
AgentAsks ==
    /\ live /\ agent = "RUNNING" /\ agent' = "WAITING_FOR_INPUT"
    /\ UNCHANGED <<input, control, ttl, signals, keyVars, podVars, live, gateVars,
                   gitVars, downVars>>

AgentExits ==
    /\ live /\ live' = FALSE
    /\ agent' \in {"COMPLETED", "FAILED"}
    /\ UNCHANGED <<input, control, ttl, signals, keyVars, podVars, gateVars,
                   gitVars, downVars>>

CancelWorkflow ==
    /\ Open /\ ~ctxCancelled /\ ctxCancelled' = TRUE
    /\ UNCHANGED <<input, control, ttl, cancelCh, humanInputCh, approvalCh, keyVars,
                   podVars, agentVars, gateVars, gitVars, downVars>>

Queued == cancelCh + Len(humanInputCh) + Len(approvalCh)

SignalCancel ==
    /\ Open /\ Queued < MaxSignals /\ cancelCh' = cancelCh + 1
    /\ UNCHANGED <<input, control, ttl, ctxCancelled, humanInputCh, approvalCh,
                   keyVars, podVars, agentVars, gateVars, gitVars, downVars>>

SignalHumanInput(text) ==
    /\ Open /\ Queued < MaxSignals
    /\ humanInputCh' = Append(humanInputCh, [text |-> text, atGate |-> pc = "approval"])
    /\ UNCHANGED <<input, control, ttl, ctxCancelled, cancelCh, approvalCh, keyVars,
                   podVars, agentVars, gateVars, gitVars, downVars>>

SignalApprovalDecision(approved) ==
    /\ Open /\ Queued < MaxSignals
    /\ approvalCh' = Append(approvalCh, [approved |-> approved, atGate |-> pc = "approval"])
    /\ UNCHANGED <<input, control, ttl, ctxCancelled, cancelCh, humanInputCh,
                   keyVars, podVars, agentVars, gateVars, gitVars, downVars>>

(***************************************************************************)
(* The specification.                                                      *)
(***************************************************************************)
Setup == \/ ProvisionLLMKey \/ CreateAgentDeployment \/ CheckPodStatus
         \/ WaitForHydration \/ HydrateContext \/ StartAgent
PollLoop == \/ SelectCancel \/ SelectHumanInput \/ SelectTTL \/ SelectPoll
            \/ StopAgent \/ ForwardHumanInput \/ GetAgentStatus
Gate == LLMJudgeChanges \/ HumanApproval
Deliver == EnrichRunTags \/ PushChanges \/ CreatePR
Cleanup == \/ PersistRunData \/ RevokeLLMKey \/ CollectAgentLogs
           \/ ScaleDownDeployment \/ RetentionElapses \/ ArchiveAndCleanup

WorkflowStep == Setup \/ PollLoop \/ Gate \/ Deliver \/ Cleanup
AgentStep == AgentAsks \/ AgentExits

\* Signals any Temporal client may send.
Client == \/ StartWorkflow \/ CancelWorkflow \/ SignalCancel
          \/ \E t \in Texts : SignalHumanInput(t)
          \/ \E b \in BOOLEAN : SignalApprovalDecision(b)

WorkflowNext == WorkflowStep \/ AgentStep \/ TTLFires \/ Client
WorkflowSpec == WorkflowInit /\ [][WorkflowNext]_wfVars

\* Temporal runs every ready workflow task, gives every activity an outcome
\* and fires every timer.  Nothing makes an agent stop or a human answer.
WorkflowFairness == WF_wfVars(WorkflowStep) /\ WF_wfVars(TTLFires)
FairWorkflowSpec == WorkflowSpec /\ WorkflowFairness

(***************************************************************************)
(* Properties.                                                             *)
(***************************************************************************)
ValuesOK ==
    /\ input \in WorkflowInput
    /\ pc \in Locations /\ phase \in Phases /\ ret \in {"nil", "err", "canceled"}
    /\ errs \in 0..MaxConsecutiveStatusErrors /\ cancelCh \in 0..MaxSignals
    /\ humanInputCh \in Seq(HumanInputSignal)
    /\ approvalCh \in Seq([approved : BOOLEAN, atGate : BOOLEAN])
    /\ llmKey \in {"none", "virtual", "master"} /\ dep \in {"absent", "up", "down"}
    /\ agent \in {"UNSPECIFIED", "RUNNING", "WAITING_FOR_INPUT", "COMPLETED", "FAILED"}
    /\ verdict \in {"none", "approve", "reject", "error"}
    /\ decision \in {"none", "approve", "reject"}
    /\ cleanupFailed \subseteq {"revoke", "scale", "archive"}

FlagsOK ==
    /\ ttl \in BOOLEAN /\ ctxCancelled \in BOOLEAN /\ keyLive \in BOOLEAN
    /\ deploymentName \in BOOLEAN /\ pvc \in BOOLEAN /\ podIP \in BOOLEAN
    /\ live \in BOOLEAN /\ timely \in BOOLEAN /\ pushed \in BOOLEAN
    /\ prOpen \in BOOLEAN /\ prUrl \in BOOLEAN /\ logOutput \in BOOLEAN

\* Type invariant of the workflow and of what its activities act on; the
\* counter of status errors stays within maxConsecutiveStatusErrors.
WorkflowTypeOK == ValuesOK /\ FlagsOK

\* What runApprovalGate requires in the run's mode.  A judge that errs is
\* skipped, which the documentation does not say: see JudgeMustPass.
GatePassed ==
    /\ input.mode \in JudgeModes => verdict \in {"approve", "error"}
    /\ input.mode \in HumanModes => decision = "approve"

\* Nothing leaves the pod before the gate: a branch is pushed or a pull
\* request opened only after runApprovalGate, as it is coded, returned nil.
PushRequiresGate == pushed \/ prOpen => GatePassed

\* A run the judge or the human rejected stays Failed, and its execution
\* closes as failed, never as completed.
RejectionIsFinal ==
    verdict = "reject" \/ decision = "reject" =>
        /\ phase = "Failed"
        /\ ret = "err"
        /\ pc \in Teardown \cup {"closed"}

\* The deferred teardown, on every exit path: a closed workflow has revoked
\* the virtual key it holds, stopped the agent and deleted the deployment and
\* the volume it knows of, except what an activity that ran out of attempts
\* left behind.
TeardownComplete ==
    pc = "closed" =>
        /\ llmKey = "virtual" => ~keyLive \/ "revoke" \in cleanupFailed
        /\ deploymentName => (dep = "absent" /\ ~pvc) \/ "archive" \in cleanupFailed
        /\ deploymentName /\ live => {"scale", "archive"} \subseteq cleanupFailed

\* A run that failed or was cancelled never changes phase again: no late
\* status, input or approval revives it.
FailedIsFinal ==
    [][(phase \in {"Failed", "Cancelled"}) => phase' = phase]_wfVars

\* A workflow with no human gate closes: the TTL ends an agent that never
\* finishes, unless human inputs keep arriving (they precede the TTL timer in
\* the selector).
Closes ==
    (<>[](humanInputCh = <<>>)) =>
        (pc = "provision" /\ input.mode \notin HumanModes ~> pc = "closed")

\* A run at the human gate goes on to its end once a decision is there.
DecisionResolvesGate ==
    pc = "approval" /\ (humanInputCh # <<>> \/ approvalCh # <<>>) ~> pc = "closed"

(***************************************************************************)
(* Refinement: the workflow keeps the promise of RunWorkflow.              *)
(***************************************************************************)
Stage ==
    CASE pc \in {"provision", "deploy", "checkPod", "hydration", "hydrateContext",
                 "startAgent"} -> "setup"
      [] pc \in {"poll", "forward", "getStatus", "stopCancel", "stopTTL"} -> "agent"
      [] pc \in {"enrich", "push", "createPR"} -> "deliver"
      [] pc \in Teardown -> "teardown"
      [] OTHER -> pc

Contract == INSTANCE RunWorkflow WITH mode <- input.mode, stage <- Stage

\* Every behaviour of the workflow, its activities, timers and teardown
\* included, is one RunWorkflow allows.
ImplementsContract == Contract!RunSpec

(***************************************************************************)
(* What the documentation says, and the code does not do.                  *)
(***************************************************************************)
\* "The teardown runs on every exit path ... This is what stops the platform
\* from leaking LLM keys and running pods."
NoLeak == pc = "closed" /\ cleanupFailed = {} => dep # "up" /\ ~keyLive

\* llm-judge and hybrid "require LLM-based review of completed work to pass":
\* the work of a run in these modes leaves the pod only with the judge's approval.
JudgeMustPass == pushed \/ prOpen => (input.mode \in JudgeModes => verdict = "approve")

\* CancelAgentRun "cancels the Temporal workflow".
CancelCloses ==
    (<>[](humanInputCh = <<>>)) => (ctxCancelled ~> pc = "closed")
=============================================================================
