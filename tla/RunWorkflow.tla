----------------------------- MODULE RunWorkflow -----------------------------
(***************************************************************************)
(* What a single-mode agent run promises to those who query and signal its *)
(* workflow: the phases a get-state query can see and in which order, the  *)
(* approval gate, the reaction to cancellation and signals, and how the    *)
(* execution closes.  The activities, the resources they create and the    *)
(* timers of AgentRunWorkflow are abstracted away; AgentRunWorkflow is     *)
(* shown to implement this module, and AgentRunSystem is composed with it. *)
(***************************************************************************)
EXTENDS Naturals, Sequences

CONSTANTS
    ApprovalModes,  \* the approval modes runs are created with
    MaxSignals      \* bound: signals queued at a time

ASSUME ModesAssumption ==
    ApprovalModes \subseteq {"none", "llm-judge", "hitl", "hybrid"}
ASSUME SignalsAssumption == MaxSignals \in Nat

VARIABLES
    mode,                      \* approval mode of the run
    stage, phase, ret,         \* part of the workflow, state.Phase, returned error
    ctxCancelled,              \* the workflow context is cancelled
    cancelCh, humanInputCh, approvalCh,   \* signal channels
    verdict, decision, timely, \* judge, human; the decision was sent at the gate
    prUrl                      \* state.PRUrl is set

signals  == <<ctxCancelled, cancelCh, humanInputCh, approvalCh>>
gateVars == <<verdict, decision, timely>>
runVars  == <<mode, stage, phase, ret, signals, gateVars, prUrl>>

JudgeModes == {"llm-judge", "hybrid"}
HumanModes == {"hitl", "hybrid"}
Stages == {"unstarted", "setup", "agent", "judge", "approval", "deliver",
           "teardown", "closed"}
Phases == {"Pending", "Creating", "Hydrating", "Running", "WaitingForInput",
           "Cancelling", "Succeeded", "Failed", "Cancelled"}
Texts == {"reject", "other"}   \* has a reject/deny/no prefix, or not

\* A signal or a cancellation that arrives once the teardown has begun is
\* accepted by Temporal and never read: the model leaves it out.
Open == stage \notin {"unstarted", "teardown", "closed"}

RunInit ==
    /\ mode \in ApprovalModes
    /\ stage = "unstarted" /\ phase = "Pending" /\ ret = "nil"
    /\ ctxCancelled = FALSE /\ cancelCh = 0
    /\ humanInputCh = <<>> /\ approvalCh = <<>>
    /\ verdict = "none" /\ decision = "none" /\ timely = FALSE /\ prUrl = FALSE

StartWorkflow ==
    /\ stage = "unstarted" /\ stage' = "setup" /\ phase' = "Creating"
    /\ UNCHANGED <<mode, ret, signals, gateVars, prUrl>>

\* The deferred teardown is empty when there is neither key nor deployment.
Return(err) == stage' \in {"teardown", "closed"} /\ ret' = err

\* Key, deployment, hydration and agent start, or the first error of them.
SetUp ==
    /\ stage = "setup"
    /\ \/ phase = "Creating" /\ phase' = "Hydrating" /\ UNCHANGED <<stage, ret>>
       \/ phase = "Hydrating" /\ phase' = "Running" /\ UNCHANGED <<stage, ret>>
       \/ phase = "Running" /\ stage' = "agent" /\ UNCHANGED <<phase, ret>>
       \/ ctxCancelled /\ phase' = "Cancelled" /\ Return("canceled")
       \/ ~ctxCancelled /\ phase' = "Failed" /\ Return("err")
    /\ UNCHANGED <<mode, signals, gateVars, prUrl>>

\* Mutant: the poll loop goes on after the phase has become Failed.
ActiveWhateverPhase == stage = "agent"

Active == stage = "agent" /\ phase \in {"Running", "WaitingForInput"}

\* The poll reports a waiting agent, or an input has been forwarded.
Report ==
    /\ Active /\ phase' \in {"Running", "WaitingForInput"}
    /\ UNCHANGED <<mode, stage, ret, signals, gateVars, prUrl>>

TakeHumanInput ==
    /\ Active /\ cancelCh = 0 /\ humanInputCh # <<>>
    /\ humanInputCh' = Tail(humanInputCh)
    /\ UNCHANGED <<mode, stage, phase, ret, ctxCancelled, cancelCh, approvalCh,
                   gateVars, prUrl>>

TakeCancel ==
    /\ Active /\ cancelCh > 0 /\ cancelCh' = cancelCh - 1
    /\ phase' = "Cancelling"
    /\ UNCHANGED <<mode, stage, ret, ctxCancelled, humanInputCh, approvalCh,
                   gateVars, prUrl>>

\* TTL: a cancelled context fires it too.  The agent is stopped afterwards.
ExceedTTL ==
    /\ Active /\ phase' = "Failed"
    /\ UNCHANGED <<mode, stage, ret, signals, gateVars, prUrl>>

AgentFails ==
    /\ stage = "agent" /\ Return("nil")
    /\ \/ phase \in {"Running", "WaitingForInput", "Failed"} /\ phase' = "Failed"
       \/ phase = "Cancelling" /\ phase' = "Cancelled"
    /\ UNCHANGED <<mode, signals, gateVars, prUrl>>

\* Mutant: the human gate keeps the phase Succeeded, as the judge does.
EnterGateAsSucceeded(m) ==
    /\ phase' = "Succeeded"
    /\ stage' = IF m \in JudgeModes THEN "judge"
                ELSE IF m \in HumanModes THEN "approval" ELSE "deliver"

\* Entering the judge leaves state.Phase at the Succeeded the poll has set.
EnterGate(m) ==
    IF m \in JudgeModes THEN stage' = "judge" /\ phase' = "Succeeded"
    ELSE IF m \in HumanModes THEN stage' = "approval" /\ phase' = "WaitingForInput"
    ELSE stage' = "deliver" /\ phase' = "Succeeded"

AgentCompletes ==
    /\ Active /\ ~ctxCancelled /\ EnterGate(mode)
    /\ UNCHANGED <<mode, ret, signals, gateVars, prUrl>>

Judge ==
    /\ stage = "judge"
    /\ \E v \in {"approve", "reject", "error"} :
          /\ ctxCancelled => v = "error"
          /\ verdict' = v
          /\ IF v = "reject" THEN phase' = "Failed" /\ Return("err")
             ELSE /\ IF mode \in HumanModes
                     THEN phase' = "WaitingForInput" /\ stage' = "approval"
                     ELSE stage' = "deliver" /\ UNCHANGED phase
                  /\ UNCHANGED ret
    /\ UNCHANGED <<mode, signals, decision, timely, prUrl>>

\* Mutant: a rejection of the human is logged, and the run delivered.
DecideWithoutReject(approved, atGate) ==
    /\ timely' = atGate /\ UNCHANGED ret /\ stage' = "deliver" /\ phase' = "Succeeded"
    /\ decision' = IF approved THEN "approve" ELSE "reject"

\* Mutant: the phase of a rejected run stays what it was.
DecideKeepsPhase(approved, atGate) ==
    /\ timely' = atGate
    /\ IF approved
       THEN decision' = "approve" /\ phase' = "Succeeded" /\ stage' = "deliver" /\ UNCHANGED ret
       ELSE decision' = "reject" /\ Return("err") /\ UNCHANGED phase

Decide(approved, atGate) ==
    /\ timely' = atGate
    /\ IF approved
       THEN decision' = "approve" /\ phase' = "Succeeded" /\ stage' = "deliver" /\ UNCHANGED ret
       ELSE decision' = "reject" /\ phase' = "Failed" /\ Return("err")

HumanApproval ==
    /\ stage = "approval"
    /\ \/ /\ approvalCh # <<>>
          /\ Decide(Head(approvalCh).approved, Head(approvalCh).atGate)
          /\ approvalCh' = Tail(approvalCh) /\ UNCHANGED humanInputCh
       \/ /\ approvalCh = <<>> /\ humanInputCh # <<>>
          /\ Decide(Head(humanInputCh).text # "reject", Head(humanInputCh).atGate)
          /\ humanInputCh' = Tail(humanInputCh) /\ UNCHANGED approvalCh
    /\ UNCHANGED <<mode, ctxCancelled, cancelCh, verdict, prUrl>>

\* Tags, push and pull request; their errors are only logged.
Deliver ==
    /\ stage = "deliver" /\ Return("nil")
    /\ prUrl' \in {FALSE, ~ctxCancelled}
    /\ UNCHANGED <<mode, phase, signals, gateVars>>

TearDown ==
    /\ stage = "teardown" /\ stage' = "closed"
    /\ UNCHANGED <<mode, phase, ret, signals, gateVars, prUrl>>

CancelWorkflow ==
    /\ Open /\ ~ctxCancelled /\ ctxCancelled' = TRUE
    /\ UNCHANGED <<mode, stage, phase, ret, cancelCh, humanInputCh, approvalCh,
                   gateVars, prUrl>>

Queued == cancelCh + Len(humanInputCh) + Len(approvalCh)

SignalCancel ==
    /\ Open /\ Queued < MaxSignals /\ cancelCh' = cancelCh + 1
    /\ UNCHANGED <<mode, stage, phase, ret, ctxCancelled, humanInputCh, approvalCh,
                   gateVars, prUrl>>

SignalHumanInput(text) ==
    /\ Open /\ Queued < MaxSignals
    /\ humanInputCh' = Append(humanInputCh, [text |-> text, atGate |-> stage = "approval"])
    /\ UNCHANGED <<mode, stage, phase, ret, ctxCancelled, cancelCh, approvalCh,
                   gateVars, prUrl>>

SignalApprovalDecision(approved) ==
    /\ Open /\ Queued < MaxSignals
    /\ approvalCh' = Append(approvalCh, [approved |-> approved, atGate |-> stage = "approval"])
    /\ UNCHANGED <<mode, stage, phase, ret, ctxCancelled, cancelCh, humanInputCh,
                   gateVars, prUrl>>

RunStep == \/ SetUp \/ Report \/ TakeHumanInput \/ TakeCancel \/ ExceedTTL
           \/ AgentFails \/ AgentCompletes \/ Judge \/ HumanApproval
           \/ Deliver \/ TearDown
RunNext == \/ StartWorkflow \/ RunStep \/ CancelWorkflow \/ SignalCancel
           \/ \E t \in Texts : SignalHumanInput(t)
           \/ \E b \in BOOLEAN : SignalApprovalDecision(b)
RunSpec == RunInit /\ [][RunNext]_runVars

\* Type invariant of the contract.
RunTypeOK ==
    /\ mode \in ApprovalModes /\ stage \in Stages /\ phase \in Phases
    /\ ret \in {"nil", "err", "canceled"}
    /\ ctxCancelled \in BOOLEAN /\ cancelCh \in Nat
    /\ humanInputCh \in Seq([text : Texts, atGate : BOOLEAN])
    /\ approvalCh \in Seq([approved : BOOLEAN, atGate : BOOLEAN])
    /\ verdict \in {"none", "approve", "reject", "error"}
    /\ decision \in {"none", "approve", "reject"}
    /\ timely \in BOOLEAN /\ prUrl \in BOOLEAN

\* What runApprovalGate requires in the run's mode.  A judge that errs is
\* skipped, which the documentation does not say: see JudgeMustPass in
\* AgentRunWorkflow.
GatePassed ==
    /\ mode \in JudgeModes => verdict \in {"approve", "error"}
    /\ mode \in HumanModes => decision = "approve"

\* Nothing is delivered, and no run closes as Succeeded, unless the gate of
\* its mode has passed.
DeliveryIsApproved ==
    stage = "deliver" \/ (stage \in {"teardown", "closed"} /\ phase = "Succeeded") => GatePassed

\* A run ends in a terminal phase, and one whose workflow returns an error
\* never ends as Succeeded.
EndsTerminal ==
    stage \in {"teardown", "closed"} =>
        /\ phase \in {"Succeeded", "Failed", "Cancelled"}
        /\ ret # "nil" => phase # "Succeeded"
=============================================================================
