# A TLA+ model of uncworks

uncworks runs coding agents in Kubernetes. A run is an `AgentRun` resource; a
controller starts one Temporal workflow for it, the workflow's activities create
an LLM key, a deployment and an agent process behind a sidecar, wait for the
agent, pass an approval gate, push the result and tear everything down. The
controller copies the workflow's state back to the resource, and the API server
cancels runs, forwards human answers and archives.

This directory holds the TLA+ modules for that core, the TLC configurations that
check them and the TLAPS proofs. `PROJECT.json` maps every definition to the Go
lines it models and lists the hazards, the runs and the findings.

## Inventory

| Part | Code | State | Operations | Talks to | What is hard | What must hold |
|---|---|---|---|---|---|---|
| Agent run workflow | `internal/temporal/workflow.go`, `activities*.go` | phase, held key, deployment name, signal channels, poll counters | nine setup and poll activities, signals, timers, gate, push, PR, teardown | sidecar, Kubernetes, LiteLLM, GitHub | activities that half-succeed, cancelled context against signals, selector order, deferred teardown | no push before the gate, rejection final, teardown on every path, closes |
| AgentRun controller | `internal/controller/agentrun_controller.go` | the resource, finalizer, workflow-id annotation, status | start, sync, describe, cancel, archive, expire | API server, Temporal | a crash between any two calls, conflicts, stale cache, terminal never re-read | resource agrees with the workflow, deletion completes |
| Run API | `internal/server/grpc.go`, `archive.go` | none of its own | create, cancel, input, archive, watch | resource, workflow, event bus | check then act, get then subscribe | answers reach the gate, limit respected, watcher sees the end |
| Spec-driven pipeline | `internal/temporal/workflow_spec_driven.go`, `activities_spec_driven.go` | stage, attempt, verdict, feedback | plan, execute, verify, retry, salvage | as the workflow | retries, fall-through after a failed stage | verified before pushed, retries bounded |
| Orchestration | `workflow.go` (`runManualOrchestration`, `runAutoOrchestration`, `SpawnJuniorWorkflow`) | children and their results | spawn, await | child workflows | children that fail without an error | parent succeeds only if its juniors did |
| Chains | `internal/controller/chain_controller.go`, `api/v1alpha1/chain_validation.go` | step states | reconcile over the step graph | AgentRun resources | crash between create and record | each step once, in order; chain ends |
| Schedules | `internal/controller/schedule_controller.go` | last tick, active list | tick, prune, replace | chain and agent runs | crash between create and record | a tick fires once, policy respected |
| Projects | `internal/controller/project_controller.go` | finalizer, config repository | scaffold, delete | soft-serve | partial scaffold | ready means complete |
| Event bus, watchers | `internal/eventbus/eventbus.go`, `server/sse.go` | subscriber channels | publish, subscribe, unsubscribe | controller, API streams | full channels, lost events | a watcher ends |
| Sidecar gateway | `internal/sidecar/gateway.go` | agent process, its state | start, input, notify, stop, wait, restart | agent process | goroutines of an earlier process | state belongs to the current process |
| CI autofix, webhook | `internal/server/ci_autofix.go`, `webhook.go` | debounce table, attempts | check event, create fix run | GitHub, resources | two events at once | attempts bounded |
| Rate limiters, BFF cache | `internal/server/ratelimit.go`, `internal/bff` | buckets, entries | allow, sweep, get, set | | boundary of a window | bound per window |
| Clients and pure code | `cmd/`, `gate`, `specutil`, `citelock`, `hydration`, `brain`, `litellm`, ... | files, databases, screens | | | | not protocol state; see `PROJECT.json` |

## Modules

* **`RunWorkflow`** is the contract of a run as others see it: the phases a
  `get-state` query can return, the gate, the reaction to cancellation and to the
  three signal channels, and how the execution closes. `stage` is the part of the
  workflow that runs; activities, resources and timers are abstracted away.
* **`AgentRunWorkflow`** is the workflow in single mode. `pc` is the point at
  which it blocks (an activity future, a selector, the retention sleep): a
  Temporal workflow computes atomically between two such points. Each action is
  what happens when that point resolves, up to the next one. The resources of the
  activities are variables (`keyLive`, `dep`, `pvc`, `live`, `pushed`, `prOpen`)
  beside what the workflow knows (`llmKey`, `deploymentName`, `podIP`), because an
  activity may take effect and still fail. `CancelWorkflow` cancels the context:
  activities and timers of that context resolve at once, a selector over signal
  channels does not notice, and the teardown runs on a disconnected context.
  `Stage` maps `pc` to a stage and `ImplementsContract` states that every
  behaviour is one of `RunWorkflow`.
* **`AgentRunSystem`** extends `RunWorkflow` with the resource (`crd`), the
  reconcile and the handlers. controller-runtime runs one reconcile of a key at a
  time; `rpc` is the call it makes next, so anybody else can act between two calls.
  `dirty` says that somebody has written the resource since the reconcile read it,
  so that its update will be refused. `ReconcileAborts` is an API error or a
  crash, and `ProjectNotReady` requeues a run whose project does not resolve.
  `crd.described` records that the status was last written by
  `syncFromDescription`. The `cancel` and `approval-decision` signals have no
  sender in the repository; `ForeignSignals` says which of them other Temporal
  clients send. The module is composed with the contract instead of `AgentRunWorkflow`: the
  refinement makes what is checked here valid for the detailed workflow, and the
  state space stays small.
* **`SidecarGateway`** is the process slot of the sidecar with its handlers and
  the `waitForProcess` goroutines. A process is a number in order of creation;
  `alive` and `exit` are the operating system's view, `state` is what `GetStatus`
  reports. `Fetch` reads the slot in a step of its own, because a later
  `StartAgent` may come first. `WaitForSingleProcess` (the return of `cmd.Wait`),
  `DrainReaders` and `Classify` are apart, because two goroutines that wait for one
  process share `proc.exitError`; a second `cmd.Wait` returns an error. `llmError` is
  what the reader found in the output. `Spawn` and `Install` are apart, because a
  restarted agent runs before it is in the slot; `StopPrevious` keeps `g.mu`. The
  other handlers read the slot and act on what they read later, so that they may
  write to a process that has left it (`Held`).
* **`RunWorkflow_proofs`** and **`AgentRunWorkflow_proofs`** hold the proofs.
  `MCAgentRunWorkflow`, `MCAgentRunSystem` and `MCSidecarGateway` only extend the
  modules for TLC.

Operators named with `Mutant:` in their comment are wrong variants of the
definition that follows; they are used by no specification, and show that each
property can fail.

## Runs

Passing:

| Run | Bounds | Shows |
|---|---|---|
| `workflow` | all four approval modes, 3 git settings, 2 consecutive status errors, 1 queued signal | types, `PushRequiresGate`, `RejectionIsFinal`, `TeardownComplete`, `FailedIsFinal`, `ImplementsContract`; liveness `Closes`, `DecisionResolvesGate` |
| `system` | all modes, 1 queued signal, 2 disturbances, 2 executions, queries may fail | `DeliveryIsApproved`, `EndsTerminal`, `TerminalAgrees`, `QueriedSuccessIsApproved`, `CompletedHasStart`, `TerminalIsFinal`; liveness `SyncCompletes`, `DeletionCompletes`, `GateTakesInput` |
| `sidecar` | 2 starts, 1 retry and the fallback, 2 model errors, 4 processes | `FinishedHasExited`, `CompletedHasNoError`, `RestartsBounded`; liveness `StartAgentReturns`, `WaitersEnd` |

Violated, each one sentence of the documentation or of a comment against what
the code does (details under `findings` in `PROJECT.json`):

| Run | Property | What happens |
|---|---|---|
| `gate_answerable` | `GateAnswerable` | a hybrid run synced during the judge is recorded as Succeeded; at the human gate nobody can answer it any more |
| `judge_must_pass` | `JudgeMustPass` | a judge that fails is skipped, and the run is pushed without its approval |
| `described_success` | `SucceededIsApproved` | a run that failed with a nil error is recorded as Succeeded when the query fails and the execution is described |
| `deleted_is_cancelled` | `DeletedIsCancelled` | deleted before the annotation: the workflow is not cancelled |
| `pr_url` | `PRUrlRecorded` | the pull request is opened after the resource became terminal |
| `human_after_judge` | `HumanAfterJudge` | an answer queued for the agent approves the run (without any foreign signal) |
| `no_leak` | `NoLeak` | an activity that took effect and failed leaves a key or a pod |
| `one_agent` | `OneAgent` | an agent that waits for input, or is restarted after its backoff, runs beside the next one |
| `cancel_closes` | `CancelCloses` | a cancelled run stays at the human gate |

What the passing properties leave out, because it is false in the code:

* `PushRequiresGate`, `DeliveryIsApproved` and the theorems about them are about
  the gate as it is coded: a judge that errs counts as passed (`workflow.go`
  1151-1154). The documented gate is `JudgeMustPass`.
* `TerminalAgrees` and `QueriedSuccessIsApproved` except a Succeeded that
  `syncFromDescription` derived from a nil error (`described_success`), and the judge
  modes, in which a query during the judge sees Succeeded (`gate_answerable`).
* `CompletedHasStart` is about a status that comes from a query.
  `syncFromDescription` sets `CompletedAt` and never `StartedAt`: after a lost
  status update of `startWorkflow` and a failed query a run has the one without the
  other.
* `GateTakesInput` is about the modes without a judge, and excepts runs that are
  archived or deleted: Reconcile does not sync them, so `SendHumanInput` refuses
  every answer, and the gate does not notice a cancelled context (`cancel_closes`).
  It assumes that the project resolves and that queries are answered from some time
  on (`CallsAnswered`): while no worker answers, nobody can tell that the gate is
  open. `GateAnswerable`, the property of `gate_answerable`, only says that the
  resource is not terminal.
* `CompletedHasNoError` is about LLM errors that the reader found. `cmd.Wait` closes
  the pipe as soon as the process has exited and a line over 256 KB ends the scan,
  so that a message may be missed; a process that then exits with code 0 is
  COMPLETED, in the model as in the code.

`CHECK_DEADLOCK FALSE` is set because a closed workflow, a run at a gate nobody
answers and a deleted resource are states in which the system may stop.

Bounds. One queued signal is enough for each selector case to be ready while the
others are not. Two status errors tell the first from the last. One run and one
resource suffice because the reconcile of a key, the workflow of an id and the
resources they name are separate per run. `MaxDisturbances` bounds faults and
archive requests together; two make a crash followed by a conflict possible, or an
archived run that is restored. At `MaxExecutions` a further start is the error path
of `startWorkflow`, which requeues. A signal that arrives when the teardown has
begun is left out: it is never read. In `sidecar` two starts make every race
between an old goroutine and a new agent possible. Four processes are one more
than a single start can lead to, so that `RestartsBounded` does not hold by the
bound; a start beyond the bound is one that fails. Two model errors give a retry
that fails again, or a fallback after a retry.

Fairness. `WF(WorkflowStep)` and `WF(TTLFires)`: Temporal runs ready workflow
tasks, gives each activity an outcome (they have timeouts and a bounded number of
attempts) and fires timers. Nothing makes an agent finish, a human answer or an
API client act. `WF(Controller)`: controller-runtime works its queue off and
requeues after an error; it is no fairness for a project that resolves or a query
that is answered, which `GateTakesInput` has as its premise; `WF(WorkflowRuns)` as
above. `Closes` assumes that human
inputs stop arriving, because the human-input channel precedes the TTL timer in
the selector. In the sidecar `WF(GoroutineStep(w))` stands for the Go scheduler and
the 24 h timer, which kills an agent that hangs, and `WF(StopPrevious)` for the
deadline of the polling loop; nothing makes an agent exit by itself.

## Proofs

`RunWorkflow_proofs` proves, for every subset of the approval modes and with no
bound on signals beyond `MaxSignals \in Nat`:

* `TypeCorrect`: `RunSpec => []RunTypeOK`;
* `Approved`: `RunSpec => []DeliveryIsApproved` (the gate as it is coded);
* `Ends`: `RunSpec => []EndsTerminal`.

`DeliveryIsApproved` is not inductive. `StageInv` adds what the gate's steps rely
on: no error before the workflow returns; at the human gate of a hybrid run the
judge has let it through; the judge and the delivery run in phase `Succeeded`. The
assumptions are `ModesAssumption` and `SignalsAssumption`.

`AgentRunWorkflow_proofs` proves, for every subset of the approval modes and of
the git settings and every bound (`ModesAssumption`, `BoundsAssumption`):

* `TypeCorrect`: `WorkflowSpec => []WorkflowTypeOK`, which includes that
  `consecutiveErrors` stays within its limit;
* `GateFirst`: `WorkflowSpec => []PushRequiresGate` (the gate as it is coded);
* `RejectionFinal`: `WorkflowSpec => []RejectionIsFinal`.

The type invariant is split into `ValuesOK` and `FlagsOK` because the provers for
arithmetic and for Boolean-valued variables differ. `PushRequiresGate` is made
inductive by `GateInv` (at a gate nothing is pushed yet, and behind the gate it
has been passed), `WorkflowTypeOK` by `ErrsInv` (the counter is below its limit
wherever a poll may follow).

Only model-checked: `TeardownComplete`, `FailedIsFinal` and the refinement of the
contract for `AgentRunWorkflow`, everything about `AgentRunSystem` and
`SidecarGateway`, and all liveness, which is outside the prover's reach.

## Plan

1. Spec-driven pipeline (`SpecDrivenPipeline`): stages, attempts, salvage; shares
   `RunWorkflow`'s gate. Verified before pushed; retries bounded; closes.
2. Orchestration (`Orchestration`): a parent over juniors that follow the
   contract; a parent succeeds only if its juniors did.
3. Chains (`ChainRun`): a step graph with crashes between create and record;
   `ValidateChainDAG` against a reference definition of acyclicity.
4. Schedules (`Schedule`): ticks, concurrency policies, active list.
5. Sidecar gateway: output streams and the token budget; an abstract process that
   starts, waits and ends once, for clients that never overlap; proofs of
   `FinishedHasExited` and `CompletedHasNoError`.
6. Event bus and watchers (`Watch`): bounded channels, get then subscribe.
7. Admission (`Admission`): `CreateAgentRun`'s limit and CI autofix's attempts
   under concurrent requests; projects.
8. Proofs: `TeardownComplete` and `FailedIsFinal` for `AgentRunWorkflow`, then
   its refinement of `RunWorkflow`; `TerminalAgrees` for `AgentRunSystem`; the once-per-step and
   once-per-tick invariants of chains and schedules.

## Not modelled

The wording of messages and prompts, conditions, metrics, traces and tags; the
knowledge store, whose outcome the workflow ignores; the read-only handlers; the
clients under `cmd/`; hydration and git commands, of which only the outcome
matters; pure text processing (`gate`, `specutil`). Executions that are
TERMINATED or TIMED_OUT, which `syncFromDescription` records as Failed, are left
out: nothing in the repository terminates a workflow, and they are started without
a timeout, but an operator can terminate one from outside; `SyncCompletes` says
nothing of it. What `ResolveProjectDefaults` puts into the resource is left out, only
its failure is there. The time of timers is abstracted to "may fire", and the retention period to the fact that it outlasts
every activity.
