--------------------------- MODULE SidecarGateway ---------------------------
(***************************************************************************)
(* The sidecar's gateway to the agent process (internal/sidecar/           *)
(* gateway.go): one process slot (g.process) behind g.mu, the RPC handlers *)
(* that read or replace it, and one waitForProcess goroutine per           *)
(* StartAgent, which waits for the process, restarts it after a rate limit *)
(* or with the fallback model, and reports how it ended.                   *)
(*                                                                         *)
(* StartAgent keeps g.mu while it waits for the previous agent, so it is   *)
(* two steps.  The other handlers take g.mu to read the slot and use what  *)
(* they read after they gave it back.  An interrupt only asks: the agent   *)
(* may exit at any time anyway.  Debug mode, which launches no process,    *)
(* and output streams are left out.                                        *)
(***************************************************************************)
EXTENDS Naturals, FiniteSets

CONSTANTS
    MaxRateLimitRetries,  \* maxRateLimitRetries
    Fallback,             \* AGENT_FALLBACK_MODEL is set
    MaxStarts,            \* bound: StartAgent calls that launch an agent
    MaxModelErrors,       \* bound: agents in whose output an LLM error is found
    MaxProcs              \* bound: processes; a start beyond it fails

ASSUME GatewayAssumption ==
    /\ MaxRateLimitRetries \in Nat /\ MaxStarts \in Nat /\ MaxProcs \in Nat
    /\ MaxModelErrors \in Nat /\ Fallback \in BOOLEAN

VARIABLES
    mu,          \* "StartAgent" while a StartAgent holds it across its polling
    process,     \* g.process
    created,     \* processes started so far; they are numbered in that order
    alive,       \* the process runs
    exit,        \* the result of its exit: code 0 also after an LLM error
    llmError,    \* proc.llmError: the error the reader has found in the output
    exitError,   \* the kinds of error that the text of proc.exitError names
    state,       \* proc.state
    reaped,      \* processes whose cmd.Wait has returned to somebody
    waiter,      \* the waitForProcess goroutines
    starts,      \* how many of them there are
    stopCh       \* the gateway has been stopped

errVars == <<llmError, exitError>>
procVars == <<created, alive, exit, state, errVars>>
gatewayVars == <<mu, process, procVars, reaped, waiter, starts, stopCh>>

Nil == 0
Procs == 1..MaxProcs
Waiters == 1..MaxStarts
ModelErrors == {"rate", "overloaded"}
Exits == {"ok", "error"}
Finished == {"COMPLETED", "FAILED"}
States == {"RUNNING", "WAITING_FOR_INPUT"} \cup Finished

\* One goroutine: proc is its local variable, next the process it has started
\* and not yet put into the slot, fell that the fallback has been tried.
Goroutine == [pc : {"none", "fetch", "wait", "drain", "classify", "backoff",
                    "fallback", "install", "finish", "done"},
              proc : {Nil} \cup Procs, next : {Nil} \cup Procs,
              attempt : Nat, fell : BOOLEAN,
              err : {"none"} \cup Exits \cup ModelErrors]
\* Its locals before it runs and after it has returned.
Idle(pc) == [pc |-> pc, proc |-> Nil, next |-> Nil, attempt |-> 0, fell |-> FALSE,
             err |-> "none"]

GatewayInit ==
    /\ mu = "free" /\ process = Nil /\ created = 0
    /\ alive = [p \in Procs |-> FALSE] /\ exit = [p \in Procs |-> "none"]
    /\ llmError = [p \in Procs |-> "none"] /\ exitError = [p \in Procs |-> {}]
    /\ state = [p \in Procs |-> "RUNNING"]
    /\ reaped = {}
    /\ waiter = [w \in Waiters |-> Idle("none")]
    /\ starts = 0 /\ stopCh = FALSE

Killed(al, p) == [al EXCEPT ![p] = FALSE]
KilledExit(p) == IF alive[p] THEN [exit EXCEPT ![p] = "error"] ELSE exit

\* StartAgent runs only while the server is up and nobody holds g.mu.
Serving == mu = "free" /\ ~stopCh

(***************************************************************************)
(* StartAgent.                                                             *)
(***************************************************************************)
\* startAgentProcess and the rest of StartAgent: `previous` is what the slot
\* holds if the process cannot be started.
Launch(al, previous) ==
    /\ mu' = "free"
    /\ \/ /\ process' = previous /\ alive' = al
          /\ UNCHANGED <<created, state, waiter, starts>>
       \/ /\ created < MaxProcs
          /\ created' = created + 1 /\ process' = created'
          /\ alive' = [al EXCEPT ![created'] = TRUE]
          /\ state' = [state EXCEPT ![created'] = "RUNNING"]
          /\ starts' = starts + 1
          /\ waiter' = [waiter EXCEPT ![starts'].pc = "fetch"]
    /\ UNCHANGED <<errVars, reaped, stopCh>>

\* Only an agent in state RUNNING is stopped first.  A call refused for its
\* token budget changes nothing.
StartAgent ==
    /\ Serving /\ starts < MaxStarts
    /\ \/ /\ process # Nil /\ state[process] = "RUNNING"
          /\ mu' = "StartAgent"
          /\ UNCHANGED <<process, procVars, reaped, waiter, starts, stopCh>>
       \/ /\ process # Nil => state[process] # "RUNNING"
          /\ Launch(alive, process) /\ UNCHANGED exit

\* Mutant: it waits for the previous agent without a deadline.
StopPreviousPatiently ==
    /\ mu = "StartAgent" /\ state[process] # "RUNNING"
    /\ Launch(alive, Nil) /\ UNCHANGED exit

\* The previous agent has left RUNNING, or the 3 s are over and it is killed.
StopPrevious ==
    /\ mu = "StartAgent"
    /\ \/ state[process] # "RUNNING" /\ Launch(alive, Nil) /\ UNCHANGED exit
       \/ /\ state[process] = "RUNNING"
          /\ exit' = KilledExit(process) /\ Launch(Killed(alive, process), Nil)

(***************************************************************************)
(* waitForProcess.                                                         *)
(***************************************************************************)
\* Mutant: the slot is used without a check for nil.
FetchUnchecked(w) ==
    /\ waiter[w].pc = "fetch" /\ mu = "free"
    /\ waiter' = [waiter EXCEPT ![w].proc = process,
                                ![w].pc = "wait"]
    /\ UNCHANGED <<mu, process, procVars, reaped, starts, stopCh>>

\* It reads the slot when it first runs, which may be after a later StartAgent.
Fetch(w) ==
    /\ waiter[w].pc = "fetch" /\ mu = "free"
    /\ waiter' = [waiter EXCEPT ![w].proc = process,
                                ![w].pc = IF process = Nil THEN "done" ELSE "wait"]
    /\ UNCHANGED <<mu, process, procVars, reaped, starts, stopCh>>

\* Mutant: the goroutine goes on while the process may still run.
WaitForSingleProcessNoWait(w) ==
    LET p == waiter[w].proc
    IN  /\ waiter[w].pc = "wait"
        /\ reaped' = reaped \cup {p}
        /\ waiter' = [waiter EXCEPT ![w].pc = "drain",
              ![w].err = IF p \in reaped \/ alive[p] \/ exit[p] = "error" THEN "error" ELSE "ok"]
        /\ UNCHANGED <<mu, process, procVars, starts, stopCh>>

\* cmd.Wait returns; a second caller for the same process gets an error.
WaitForSingleProcess(w) ==
    LET p == waiter[w].proc
    IN  /\ waiter[w].pc = "wait" /\ ~alive[p]
        /\ reaped' = reaped \cup {p}
        /\ waiter' = [waiter EXCEPT ![w].pc = "drain",
              ![w].err = IF p \in reaped \/ exit[p] = "error" THEN "error" ELSE "ok"]
        /\ UNCHANGED <<mu, process, procVars, starts, stopCh>>

\* The readers are done: after a clean exit the LLM error they found, if any,
\* is the error.  proc.exitError is shared with every other waiter of proc.
DrainReaders(w) ==
    LET p == waiter[w].proc
        e == IF waiter[w].err = "ok" /\ llmError[p] # "none" THEN llmError[p]
             ELSE waiter[w].err
    IN  /\ waiter[w].pc = "drain"
        /\ waiter' = [waiter EXCEPT ![w].err = e,
                                    ![w].pc = IF e = "ok" THEN "finish" ELSE "classify"]
        /\ exitError' = IF e = "ok" THEN exitError
                        ELSE [exitError EXCEPT ![p] = {e} \cap ModelErrors]
        /\ UNCHANGED <<mu, process, created, alive, exit, state, llmError, reaped,
                       starts, stopCh>>

\* Mutant: any error is taken for a rate limit, and retried once too often.
AfterWaitOneMore(g, kinds) ==
    IF g.fell THEN "finish"
    ELSE IF g.attempt <= MaxRateLimitRetries THEN "backoff"
    ELSE IF "overloaded" \in kinds /\ Fallback THEN "fallback"
    ELSE "finish"

\* Where the goroutine goes with an error whose texts name these kinds.
AfterWait(g, kinds) ==
    IF g.fell THEN "finish"
    ELSE IF "rate" \in kinds /\ g.attempt < MaxRateLimitRetries THEN "backoff"
    ELSE IF "overloaded" \in kinds /\ Fallback THEN "fallback"
    ELSE "finish"

\* It looks at proc.exitError and at its own error.  When the retries end with
\* an error, proc.exitError becomes "Rate limited after ...", which names one.
Classify(w) ==
    LET g == waiter[w]
        kinds == exitError[g.proc] \cup {g.err}
        next == AfterWait(g, kinds)
        retried == ~g.fell /\ next # "backoff" /\ (g.attempt > 0 \/ "rate" \in kinds)
    IN  /\ g.pc = "classify"
        /\ waiter' = [waiter EXCEPT ![w].pc = next]
        /\ exitError' = IF retried THEN [exitError EXCEPT ![g.proc] = @ \cup {"rate"}]
                        ELSE exitError
        /\ UNCHANGED <<mu, process, created, alive, exit, state, llmError, reaped,
                       starts, stopCh>>

\* Mutant: the 24 h timer does not kill.
TimeoutWithoutKill(w) ==
    waiter[w].pc = "wait" /\ alive[waiter[w].proc] /\ UNCHANGED gatewayVars

\* The 24 h timer of waitForSingleProcess.
Timeout(w) ==
    LET p == waiter[w].proc
    IN  /\ waiter[w].pc = "wait" /\ alive[p]
        /\ alive' = Killed(alive, p) /\ exit' = KilledExit(p)
        /\ UNCHANGED <<mu, process, created, state, errVars, reaped, waiter, starts, stopCh>>

\* The new process runs before it is in the slot.
Spawn(w, g) ==
    /\ created < MaxProcs /\ created' = created + 1
    /\ alive' = [alive EXCEPT ![created'] = TRUE]
    /\ state' = [state EXCEPT ![created'] = "RUNNING"]
    /\ waiter' = [waiter EXCEPT ![w] = [g EXCEPT !.pc = "install", !.next = created']]

\* The backoff is over.  A restart that fails counts as an attempt.
RestartAgentProcess(w) ==
    LET g == [waiter[w] EXCEPT !.attempt = @ + 1]
    IN  /\ waiter[w].pc = "backoff"
        /\ \/ Spawn(w, g)
           \/ /\ waiter' = [waiter EXCEPT ![w] =
                    [g EXCEPT !.pc = IF g.attempt < MaxRateLimitRetries THEN "backoff"
                                     ELSE "classify"]]
              /\ UNCHANGED <<created, alive, state>>
        /\ UNCHANGED <<mu, process, exit, errVars, reaped, starts, stopCh>>

\* Stop() while it sleeps: the goroutine leaves and the state stays as it is.
AbortRetry(w) ==
    /\ waiter[w].pc = "backoff" /\ stopCh
    /\ waiter' = [waiter EXCEPT ![w] = Idle("done")]
    /\ UNCHANGED <<mu, process, procVars, reaped, starts, stopCh>>

RestartWithModel(w) ==
    LET g == [waiter[w] EXCEPT !.fell = TRUE]
    IN  /\ waiter[w].pc = "fallback"
        /\ \/ Spawn(w, g)
           \/ /\ waiter' = [waiter EXCEPT ![w] = [g EXCEPT !.pc = "finish"]]
              /\ UNCHANGED <<created, alive, state>>
        /\ UNCHANGED <<mu, process, exit, errVars, reaped, starts, stopCh>>

\* g.process = newProc, whatever the slot holds by now.
Install(w) ==
    /\ waiter[w].pc = "install" /\ mu = "free"
    /\ process' = waiter[w].next
    /\ waiter' = [waiter EXCEPT ![w].proc = waiter[w].next, ![w].next = Nil,
                                ![w].pc = "wait"]
    /\ UNCHANGED <<mu, procVars, reaped, starts, stopCh>>

\* Mutant: an LLM error of a process that exits with code 0 is not a failure.
FinishByExitCode(w) ==
    LET p == waiter[w].proc
    IN  /\ waiter[w].pc = "finish"
        /\ state' = [state EXCEPT ![p] = IF waiter[w].err = "error" THEN "FAILED"
                                         ELSE "COMPLETED"]
        /\ waiter' = [waiter EXCEPT ![w] = Idle("done")]
        /\ UNCHANGED <<mu, process, created, alive, exit, errVars, reaped, starts, stopCh>>

\* The last process of the goroutine gets its final state.
Finish(w) ==
    LET p == waiter[w].proc
    IN  /\ waiter[w].pc = "finish"
        /\ state' = [state EXCEPT ![p] = IF waiter[w].err = "ok" THEN "COMPLETED"
                                         ELSE "FAILED"]
        /\ waiter' = [waiter EXCEPT ![w] = Idle("done")]
        /\ UNCHANGED <<mu, process, created, alive, exit, errVars, reaped, starts, stopCh>>

(***************************************************************************)
(* The other handlers.                                                     *)
(***************************************************************************)
\* What a handler may have read from the slot, now or some time ago, and still
\* changes to some effect: a process that has left the slot is looked at only by
\* the goroutines that wait for it.  Stop does not end a handler at work.
Held == ({process} \cup {waiter[w].proc : w \in Waiters}) \ {Nil}

\* The state is set whatever it was, also after the agent has been replaced.
SendInput ==
    /\ \E p \in Held : state' = [state EXCEPT ![p] = "RUNNING"]
    /\ UNCHANGED <<mu, process, created, alive, exit, errVars, reaped, waiter, starts,
                   stopCh>>

\* WAITING_FOR_INPUT or STARTED (again RUNNING); the call may arrive after the
\* agent that made it has exited.
NotifyEvent ==
    /\ \E p \in Held, st \in {"RUNNING", "WAITING_FOR_INPUT"} :
          state' = [state EXCEPT ![p] = st]
    /\ UNCHANGED <<mu, process, created, alive, exit, errVars, reaped, waiter, starts,
                   stopCh>>

\* With force; without, the process is only interrupted.
StopAgent ==
    /\ \E p \in Held : alive[p] /\ alive' = Killed(alive, p) /\ exit' = KilledExit(p)
    /\ UNCHANGED <<mu, process, created, state, errVars, reaped, waiter, starts, stopCh>>

Stop ==
    /\ ~stopCh /\ stopCh' = TRUE
    /\ UNCHANGED <<mu, process, procVars, reaped, waiter, starts>>

(***************************************************************************)
(* The agent process.                                                      *)
(***************************************************************************)
\* Also the reader's kill of an agent that repeats a tool call.  An agent that
\* reports an LLM error exits with code 0, and llmError stays empty when the
\* reader misses the report: cmd.Wait closes the pipe as soon as the process has
\* exited, and a line over 256 KB ends the scan.  An LLM error of another kind
\* has the effect of exit code 1.
AgentExits(p) ==
    /\ alive[p] /\ alive' = Killed(alive, p)
    /\ \/ \E e \in Exits : exit' = [exit EXCEPT ![p] = e] /\ UNCHANGED llmError
       \/ /\ Cardinality({q \in Procs : llmError[q] # "none"}) < MaxModelErrors
          /\ exit' = [exit EXCEPT ![p] = "ok"]
          /\ \E e \in ModelErrors : llmError' = [llmError EXCEPT ![p] = e]
    /\ UNCHANGED <<mu, process, created, state, exitError, reaped, waiter, starts, stopCh>>

GoroutineStep(w) ==
    \/ Fetch(w) \/ WaitForSingleProcess(w) \/ Timeout(w) \/ DrainReaders(w)
    \/ Classify(w) \/ RestartAgentProcess(w) \/ AbortRetry(w) \/ RestartWithModel(w)
    \/ Install(w) \/ Finish(w)

GatewayNext ==
    \/ StartAgent \/ StopPrevious \/ SendInput \/ NotifyEvent \/ StopAgent
    \/ Stop
    \/ \E w \in Waiters : GoroutineStep(w)
    \/ \E p \in Procs : AgentExits(p)

GatewaySpec == GatewayInit /\ [][GatewayNext]_gatewayVars

\* Goroutines run, timers fire, and StartAgent's polling has a deadline.  No
\* client, agent or operator is made to act.
FairGatewaySpec ==
    /\ GatewaySpec /\ WF_gatewayVars(StopPrevious)
    /\ \A w \in Waiters : WF_gatewayVars(GoroutineStep(w))

(***************************************************************************)
(* Properties.                                                             *)
(***************************************************************************)
\* Type invariant of the gateway's state and of waitForProcess's locals, whose
\* proc is not nil once it waits.
GatewayTypeOK ==
    /\ mu \in {"free", "StartAgent"} /\ process \in {Nil} \cup Procs
    /\ created \in 0..MaxProcs /\ starts \in 0..MaxStarts
    /\ alive \in [Procs -> BOOLEAN] /\ exit \in [Procs -> {"none"} \cup Exits]
    /\ llmError \in [Procs -> {"none"} \cup ModelErrors]
    /\ exitError \in [Procs -> SUBSET ModelErrors]
    /\ state \in [Procs -> States] /\ reaped \subseteq Procs
    /\ waiter \in [Waiters -> Goroutine]
    /\ \A w \in Waiters : waiter[w].pc = "wait" => waiter[w].proc # Nil
    /\ stopCh \in BOOLEAN

\* A process that GetStatus reports as finished has exited, however many
\* goroutines wait for it: the workflow may collect the workspace.
FinishedHasExited == \A p \in Procs : state[p] \in Finished => ~alive[p]

\* COMPLETED is reported only for a process that exited with code 0 and in whose
\* output the reader found no LLM error, also after retries and when two
\* goroutines wait for it.  An error message the reader missed is not covered:
\* such a process is COMPLETED in the code.
CompletedHasNoError ==
    \A p \in Procs : state[p] = "COMPLETED" => exit[p] # "error" /\ llmError[p] = "none"

\* One StartAgent leads to at most the first process, maxRateLimitRetries
\* restarts and one fallback, whatever else happens to the slot.
RestartsBounded == created <= starts * (MaxRateLimitRetries + 2)

\* StartAgent gives g.mu back although the goroutine it waits for may itself be
\* waiting for g.mu: without the deadline both would wait for ever.
StartAgentReturns == []<>(mu = "free")

\* Every waitForProcess goroutine ends, also when agents hang: none of them stays
\* between "none" and "done" for good.
WaitersEnd == \A w \in Waiters : []<>(waiter[w].pc \in {"none", "done"})

\* The comment of StartAgent: "If a previous agent is still running, stop it
\* before starting a new one."  At most one agent runs.
OneAgent == \A p, q \in Procs : alive[p] /\ alive[q] => p = q
=============================================================================
