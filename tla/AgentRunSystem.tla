--------------------------- MODULE AgentRunSystem ---------------------------
(***************************************************************************)
(* One AgentRun resource, the AgentRunReconciler that drives it, the API   *)
(* handlers that write to it or signal its workflow, the expiry sweep and  *)
(* the workflow, as RunWorkflow promises it.                               *)
(*                                                                         *)
(* controller-runtime runs one reconcile of a key at a time, and rpc is    *)
(* the call it is about to make.  The API server refuses an update         *)
(* whose resourceVersion is old: dirty says that somebody else has written *)
(* the resource since the reconcile read it.  A refused update, an API     *)
(* error or a controller crash ends the reconcile; the key is queued anew. *)
(***************************************************************************)
EXTENDS RunWorkflow

CONSTANTS
    MaxDisturbances,  \* bound: faults and archive requests in a behaviour
    MaxExecutions,    \* bound: executions of the workflow id
    QueryMayFail,     \* no worker may be there to answer a query
    ForeignSignals    \* the signals that other Temporal clients send

ASSUME SystemAssumption ==
    /\ MaxDisturbances \in Nat /\ MaxExecutions \in Nat \ {0}
    /\ QueryMayFail \in BOOLEAN /\ ForeignSignals \subseteq {"cancel", "approval-decision"}

VARIABLES
    crd,        \* the AgentRun resource
    rpc, dirty, \* next call of the reconcile; its copy is out of date
    seen,       \* what the query or the description returned
    disturbances, executions

sysVars == <<runVars, crd, rpc, dirty, seen, disturbances, executions>>

CRDPhases == {"", "Pending", "Running", "WaitingForInput", "Succeeded",
              "Failed", "Cancelled"}
\* described: phase and message are those of syncFromDescription.
CRD == [exists : BOOLEAN, deleting : BOOLEAN, finalizer : BOOLEAN,
        workflowID : BOOLEAN, phase : CRDPhases, archived : BOOLEAN,
        cleaned : BOOLEAN, prUrl : BOOLEAN, startedAt : BOOLEAN, completedAt : BOOLEAN,
        described : BOOLEAN]
Calls == {"idle", "cancel", "removeFinalizer", "addFinalizer", "archive",
          "start", "annotate", "setRunning", "query", "write"}
WorkflowState == [phase : CRDPhases, prUrl : BOOLEAN, queried : BOOLEAN]
Unread == [phase |-> "", prUrl |-> FALSE, queried |-> FALSE]

isTerminal(p) == p \in {"Succeeded", "Failed", "Cancelled"}

\* Mutant: the phase of the workflow is taken over as it is.
mapPhaseVerbatim(p) == p

\* Mutant: no case for the phase of the human gate.
mapPhaseWithoutWaiting(p) ==
    CASE p \in {"Running", "Succeeded", "Failed"} -> p
      [] p \in {"Cancelled", "Cancelling"} -> "Cancelled"
      [] OTHER -> "Pending"

mapPhase(p) ==
    CASE p \in {"Running", "WaitingForInput", "Succeeded", "Failed"} -> p
      [] p \in {"Cancelled", "Cancelling"} -> "Cancelled"
      [] OTHER -> "Pending"

\* CreateAgentRun; the status it fills in is not stored by a Create.
Init ==
    /\ RunInit
    /\ crd = [exists |-> TRUE, deleting |-> FALSE, finalizer |-> FALSE,
              workflowID |-> FALSE, phase |-> "", archived |-> FALSE,
              cleaned |-> FALSE, prUrl |-> FALSE,
              startedAt |-> FALSE, completedAt |-> FALSE, described |-> FALSE]
    /\ rpc = "idle" /\ dirty = FALSE
    /\ seen = Unread
    /\ disturbances = 0 /\ executions = 0

(***************************************************************************)
(* Reconcile: the ladder of early returns picks the call.                  *)
(***************************************************************************)
\* Mutant: terminal runs are synced as well.
NextCallSyncsTerminal ==
    IF crd.deleting THEN IF crd.finalizer THEN "cancel" ELSE "idle"
    ELSE IF ~crd.finalizer THEN "addFinalizer"
    ELSE IF crd.archived THEN IF crd.cleaned THEN "idle" ELSE "archive"
    ELSE IF ~crd.workflowID THEN "start" ELSE "query"

NextCall ==
    IF crd.deleting THEN IF crd.finalizer THEN "cancel" ELSE "idle"
    ELSE IF ~crd.finalizer THEN "addFinalizer"
    ELSE IF crd.archived THEN IF crd.cleaned THEN "idle" ELSE "archive"
    ELSE IF ~crd.workflowID THEN "start"
    ELSE IF isTerminal(crd.phase) THEN "idle" ELSE "query"

Reconcile ==
    /\ rpc = "idle" /\ crd.exists /\ NextCall # "idle"
    /\ rpc' = NextCall /\ dirty' = FALSE
    /\ UNCHANGED <<runVars, crd, seen, disturbances, executions>>

\* Update or Status().Update: applied to the copy read, or refused.
Update(new, next) ==
    /\ dirty' = FALSE
    /\ IF dirty THEN rpc' = "idle" /\ UNCHANGED crd ELSE rpc' = next /\ crd' = new

Disturb == disturbances < MaxDisturbances /\ disturbances' = disturbances + 1

\* A crash, or an error the reconcile returns before the call takes effect.
ReconcileAborts ==
    /\ rpc # "idle" /\ Disturb /\ rpc' = "idle" /\ dirty' = FALSE /\ seen' = Unread
    /\ UNCHANGED <<runVars, crd, executions>>

AddFinalizer ==
    /\ rpc = "addFinalizer"
    /\ Update([crd EXCEPT !.finalizer = TRUE], "idle")
    /\ UNCHANGED <<runVars, seen, disturbances, executions>>

\* Mutant: an execution that cannot be cancelled keeps the finalizer.
CancelOnDeletionOrRetry ==
    /\ rpc = "cancel"
    /\ IF Open THEN CancelWorkflow /\ rpc' = "removeFinalizer"
       ELSE rpc' = "idle" /\ UNCHANGED runVars
    /\ UNCHANGED <<crd, dirty, seen, disturbances, executions>>

\* cancelWorkflow: without the annotation nothing is cancelled, and an error
\* of CancelWorkflow is only logged.
CancelOnDeletion ==
    /\ rpc = "cancel" /\ rpc' = "removeFinalizer"
    /\ \/ crd.workflowID /\ CancelWorkflow /\ UNCHANGED disturbances
       \/ (crd.workflowID => ~Open \/ ctxCancelled) /\ UNCHANGED <<runVars, disturbances>>
       \/ Disturb /\ UNCHANGED runVars
    /\ UNCHANGED <<crd, dirty, seen, executions>>

RemoveFinalizer ==
    /\ rpc = "removeFinalizer"
    /\ Update([crd EXCEPT !.exists = FALSE], "idle")
    /\ UNCHANGED <<runVars, seen, disturbances, executions>>

\* Status.Archived: the deployment and the volume are deleted (an activity of
\* a run that is still open then fails, which RunWorkflow allows at any time),
\* and the resource is marked.
ArchiveResources ==
    /\ rpc = "archive"
    /\ Update([crd EXCEPT !.cleaned = TRUE], "idle")
    /\ UNCHANGED <<runVars, seen, disturbances, executions>>

(***************************************************************************)
(* startWorkflow.                                                          *)
(***************************************************************************)
\* The project of the run does not resolve yet, or the update with the resolved
\* fields is refused: the resource is queued again.
ProjectNotReady ==
    /\ rpc = "start" /\ rpc' = "idle" /\ dirty' = FALSE
    /\ UNCHANGED <<runVars, crd, seen, disturbances, executions>>

\* A new execution of a workflow id whose earlier execution has closed: the
\* workflow's variables are those of the new one.
Restart ==
    /\ stage = "closed" /\ executions < MaxExecutions
    /\ stage' = "setup" /\ phase' = "Creating" /\ ret' = "nil"
    /\ ctxCancelled' = FALSE /\ cancelCh' = 0
    /\ humanInputCh' = <<>> /\ approvalCh' = <<>>
    /\ verdict' = "none" /\ decision' = "none" /\ timely' = FALSE /\ prUrl' = FALSE
    /\ UNCHANGED mode

\* An id that is still running is taken as success.  Any other error requeues
\* the resource: at the bound on executions every start is such an error.
ExecuteWorkflow ==
    /\ rpc = "start"
    /\ \/ (StartWorkflow \/ Restart) /\ executions' = executions + 1 /\ rpc' = "annotate"
       \/ /\ stage \notin {"unstarted", "closed"} /\ rpc' = "annotate"
          /\ UNCHANGED <<runVars, executions>>
       \/ /\ stage = "closed" /\ executions = MaxExecutions /\ rpc' = "idle"
          /\ UNCHANGED <<runVars, executions>>
    /\ dirty' = (dirty /\ rpc' # "idle")
    /\ UNCHANGED <<crd, seen, disturbances>>

AnnotateWorkflowID ==
    /\ rpc = "annotate"
    /\ Update([crd EXCEPT !.workflowID = TRUE], "setRunning")
    /\ UNCHANGED <<runVars, seen, disturbances, executions>>

\* The resource is read again, from a cache that may lag behind the update
\* just made: the status update may be refused whoever wrote last.
SetRunning ==
    /\ rpc = "setRunning" /\ rpc' = "idle" /\ dirty' = FALSE
    /\ \/ crd.exists /\ crd' = [crd EXCEPT !.phase = "Running", !.startedAt = TRUE]
       \/ UNCHANGED crd
    /\ UNCHANGED <<runVars, seen, disturbances, executions>>

(***************************************************************************)
(* syncWorkflowState and syncFromDescription.                              *)
(***************************************************************************)
\* The phase of a closed execution by its status.  TERMINATED and TIMED_OUT,
\* which give Failed too, are left out: the code terminates no workflow and
\* starts them without a timeout.
DescribedPhase ==
    CASE ret = "nil" -> "Succeeded" [] ret = "err" -> "Failed" [] OTHER -> "Cancelled"

\* Mutant: a failed query is retried and never described.
QueryWorkflowOrRetry ==
    /\ rpc = "query"
    /\ \/ /\ seen' = [phase |-> mapPhase(phase), prUrl |-> prUrl, queried |-> TRUE]
          /\ rpc' = "write"
       \/ QueryMayFail /\ rpc' = "idle" /\ UNCHANGED seen
    /\ dirty' = (dirty /\ rpc' # "idle")
    /\ UNCHANGED <<runVars, crd, disturbances, executions>>

QueryWorkflow ==
    /\ rpc = "query"
    /\ \/ /\ seen' = [phase |-> mapPhase(phase), prUrl |-> prUrl, queried |-> TRUE]
          /\ rpc' = "write"
       \/ /\ QueryMayFail
          /\ IF stage = "closed"
             THEN seen' = [Unread EXCEPT !.phase = DescribedPhase] /\ rpc' = "write"
             ELSE rpc' = "idle" /\ UNCHANGED seen
    /\ dirty' = (dirty /\ rpc' # "idle")
    /\ UNCHANGED <<runVars, crd, disturbances, executions>>

\* Mutant: a start time that startWorkflow lost stays lost.
WriteStatusWithoutStart ==
    /\ rpc = "write" /\ seen' = Unread
    /\ Update([crd EXCEPT !.phase = seen.phase,
                          !.prUrl = @ \/ seen.prUrl,
                          !.completedAt = @ \/ isTerminal(seen.phase),
                          !.described = ~seen.queried], "idle")
    /\ UNCHANGED <<runVars, disturbances, executions>>

\* Only syncWorkflowState recovers a StartedAt that startWorkflow lost:
\* syncFromDescription sets CompletedAt alone.
WriteStatus ==
    /\ rpc = "write" /\ seen' = Unread
    /\ LET p == seen.phase IN
       Update([crd EXCEPT !.phase = p,
                          !.prUrl = @ \/ seen.prUrl,
                          !.startedAt = @ \/ (seen.queried /\ (p = "Running" \/ isTerminal(p))),
                          !.completedAt = @ \/ isTerminal(p),
                          !.described = ~seen.queried], "idle")
    /\ UNCHANGED <<runVars, disturbances, executions>>

(***************************************************************************)
(* The API handlers, the expiry sweep and the workflow.                    *)
(***************************************************************************)
\* Somebody other than the reconcile writes the resource.
Write(new) == crd' = new /\ dirty' = (rpc # "idle")

DeleteResource ==
    /\ crd.exists /\ ~crd.deleting
    /\ Write(IF crd.finalizer THEN [crd EXCEPT !.deleting = TRUE]
             ELSE [crd EXCEPT !.exists = FALSE])
    /\ UNCHANGED <<runVars, rpc, seen, disturbances, executions>>

\* handleArchive does not look at the phase.
Archive(archived) ==
    /\ crd.exists /\ crd.archived # archived /\ Disturb
    /\ Write([crd EXCEPT !.archived = archived])
    /\ UNCHANGED <<runVars, rpc, seen, executions>>

\* CancelAgentRun cancels the workflow context; it needs no annotation.
CancelAgentRun ==
    /\ crd.exists /\ CancelWorkflow
    /\ UNCHANGED <<crd, rpc, dirty, seen, disturbances, executions>>

SendHumanInput(text) ==
    /\ crd.exists /\ crd.phase = "WaitingForInput" /\ SignalHumanInput(text)
    /\ UNCHANGED <<crd, rpc, dirty, seen, disturbances, executions>>

\* The cancel and approval-decision signals have no sender among the handlers:
\* they come from other Temporal clients.
TemporalSignal ==
    /\ \/ "cancel" \in ForeignSignals /\ SignalCancel
       \/ "approval-decision" \in ForeignSignals /\ \E b \in BOOLEAN : SignalApprovalDecision(b)
    /\ UNCHANGED <<crd, rpc, dirty, seen, disturbances, executions>>

\* The retention period is a number of days.  By then every activity has
\* timed out and the teardown is over, but a human gate may still be open.
RetentionOver == stage \in {"closed", "approval"}

CleanupExpiredRun ==
    /\ crd.exists /\ isTerminal(crd.phase) /\ crd.completedAt
    /\ ~crd.archived /\ ~crd.cleaned /\ RetentionOver
    /\ Write([crd EXCEPT !.cleaned = TRUE])
    /\ UNCHANGED <<runVars, rpc, seen, disturbances, executions>>

\* EnrichRunTags and CollectAgentLogs patch the resource on their way.
WorkflowRuns ==
    /\ RunStep
    /\ dirty' \in {dirty, dirty \/ (rpc # "idle" /\ stage \in {"deliver", "teardown"})}
    /\ UNCHANGED <<crd, rpc, seen, disturbances, executions>>

Controller ==
    \/ Reconcile \/ AddFinalizer \/ CancelOnDeletion \/ RemoveFinalizer
    \/ ArchiveResources \/ ProjectNotReady \/ ExecuteWorkflow \/ AnnotateWorkflowID
    \/ SetRunning \/ QueryWorkflow \/ WriteStatus
User == \/ DeleteResource \/ CancelAgentRun
        \/ \E b \in BOOLEAN : Archive(b)
        \/ \E t \in Texts : SendHumanInput(t)
        \/ TemporalSignal

Next == Controller \/ ReconcileAborts \/ User \/ CleanupExpiredRun \/ WorkflowRuns
Spec == Init /\ [][Next]_sysVars

\* The controller works off its queue, and Temporal runs the workflow.
Fairness == WF_sysVars(Controller) /\ WF_sysVars(WorkflowRuns)
FairSpec == Spec /\ Fairness

(***************************************************************************)
(* Properties.                                                             *)
(***************************************************************************)
\* Type invariant of the resource, the reconcile and the workflow.
TypeOK ==
    /\ RunTypeOK
    /\ crd \in CRD /\ rpc \in Calls /\ dirty \in BOOLEAN /\ seen \in WorkflowState
    /\ disturbances \in 0..MaxDisturbances /\ executions \in 0..MaxExecutions

\* A resource that reports a terminal phase reports the phase the workflow ends
\* with: the sync never freezes a phase the workflow leaves.  There are two
\* exceptions, both Succeeded: the phase of the judge is Succeeded already, and
\* a closed execution is described by the error it returned alone.
TerminalAgrees ==
    isTerminal(crd.phase) =>
        \/ mapPhase(phase) = crd.phase
        \/ crd.phase = "Succeeded" /\ (crd.described \/ mode \in JudgeModes)

\* A run without a judge whose resource got Succeeded from a query has passed
\* its gate, although the poll loop sets state.Phase before the gate runs.
QueriedSuccessIsApproved ==
    crd.phase = "Succeeded" /\ ~crd.described /\ mode \notin JudgeModes => GatePassed

\* A run whose completion time comes from a query has a start time, although
\* the status update of startWorkflow may be lost.  It does not hold of a
\* completion time that syncFromDescription sets.
CompletedHasStart == crd.completedAt /\ ~crd.described => crd.startedAt

\* A terminal phase of the resource never changes, whatever restarts,
\* conflicts and late workflow states the reconcile meets.
TerminalIsFinal == [][isTerminal(crd.phase) => crd'.phase = crd.phase]_sysVars

Unsynced == crd.archived \/ crd.deleting \/ ~crd.exists

\* The resource of a closed workflow becomes terminal, unless it is archived
\* or deleted first.
SyncCompletes ==
    []<>(stage = "closed" /\ crd.workflowID => isTerminal(crd.phase) \/ Unsynced)

\* The finalizer never blocks a deletion for good.
DeletionCompletes == []<>(crd.deleting => ~crd.exists)

\* From some time on the project resolves and every query is answered.
CallsAnswered == <>[][(rpc \in {"start", "query"}) => rpc' # "idle"]_sysVars

\* SendHumanInput, which accepts an answer only in phase WaitingForInput of the
\* resource, comes to accept one for a run without a judge that waits at its human
\* gate, whatever crash, conflict or lost update delayed the sync.  A resource is
\* not synced while it is archived or deleted: then the gate may stay closed.
GateTakesInput ==
    CallsAnswered =>
        []<>(stage = "approval" /\ mode \notin JudgeModes =>
                crd.phase = "WaitingForInput" \/ Unsynced)

(***************************************************************************)
(* What the documentation says, and the code does not do.                  *)
(***************************************************************************)
\* "A run that waits for human approval sits in `WaitingForInput`": at least its
\* resource is not terminal, which the reconcile would never sync again.
GateAnswerable == stage = "approval" => ~isTerminal(crd.phase)

\* "`approvalMode` decides what a run needs before it reaches `Succeeded`."
SucceededIsApproved == crd.phase = "Succeeded" => GatePassed

\* "A deleted resource runs the ... finalizer, which cancels the workflow first."
DeletedIsCancelled == ~crd.exists /\ Open => ctxCancelled

\* "PRUrl is the URL of the GitHub PR created by the pipeline": a terminal
\* resource has the URL that the workflow ended with.
PRUrlRecorded ==
    stage = "closed" /\ prUrl /\ isTerminal(crd.phase) => crd.prUrl

\* "hybrid": "LLM judge must pass first, then human approves".
HumanAfterJudge == decision = "approve" => timely
=============================================================================
