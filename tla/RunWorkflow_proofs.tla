-------------------------- MODULE RunWorkflow_proofs --------------------------
(***************************************************************************)
(* Proofs about the contract of a run, for every set of approval modes and *)
(* any number of queued signals.                                           *)
(***************************************************************************)
EXTENDS RunWorkflow, SequenceTheorems, TLAPS

\* What holds at each stage: until the workflow returns it carries no error,
\* the human gate comes after the judge has let the run through, and the judge
\* and delivery run in phase Succeeded.
StageInv ==
    /\ stage \notin {"teardown", "closed"} => ret = "nil"
    /\ stage = "approval" /\ mode \in JudgeModes => verdict \in {"approve", "error"}
    /\ stage \in {"judge", "deliver"} => phase = "Succeeded"

\* The inductive invariant.
RunInv == StageInv /\ DeliveryIsApproved /\ EndsTerminal

\* Every initial state of a run is well typed.
LEMMA InitTypeOK == RunInit => RunTypeOK
  <1>1. /\ <<>> \in Seq([text : Texts, atGate : BOOLEAN])
        /\ <<>> \in Seq([approved : BOOLEAN, atGate : BOOLEAN])
    BY EmptySeq
  <1>2. 0 \in Nat
    OBVIOUS
  <1> QED
    BY <1>1, <1>2, Zenon DEF RunInit, RunTypeOK, Stages, Phases

\* Every step of a run, its callers' steps included, keeps the types: a
\* channel is only received from when it holds a signal.
LEMMA NextTypeOK == RunTypeOK /\ [RunNext]_runVars => RunTypeOK'
  <1> SUFFICES ASSUME RunTypeOK, [RunNext]_runVars PROVE RunTypeOK'
    OBVIOUS
  <1> USE DEF RunTypeOK, Stages, Phases, signals, gateVars
  <1>1. CASE StartWorkflow
    BY <1>1 DEF StartWorkflow
  <1>2. CASE SetUp
    BY <1>2 DEF SetUp, Return
  <1>3. CASE Report
    BY <1>3 DEF Report
  <1>4. CASE TakeHumanInput
    BY <1>4 DEF TakeHumanInput
  <1>5. CASE TakeCancel
    BY <1>5 DEF TakeCancel
  <1>6. CASE ExceedTTL
    BY <1>6 DEF ExceedTTL
  <1>7. CASE AgentFails
    BY <1>7 DEF AgentFails, Return
  <1>8. CASE AgentCompletes
    BY <1>8 DEF AgentCompletes, EnterGate
  <1>9. CASE Judge
    BY <1>9 DEF Judge, Return
  <1>10. CASE HumanApproval
    <2>1. /\ approvalCh' \in Seq([approved : BOOLEAN, atGate : BOOLEAN])
          /\ humanInputCh' \in Seq([text : Texts, atGate : BOOLEAN])
      BY <1>10, HeadTailProperties DEF HumanApproval
    <2>2. ASSUME NEW approved, NEW atGate \in BOOLEAN, Decide(approved, atGate)
          PROVE  /\ stage' \in Stages /\ phase' \in Phases /\ ret' \in {"nil", "err", "canceled"}
                 /\ decision' \in {"none", "approve", "reject"} /\ timely' \in BOOLEAN
      BY <2>2 DEF Decide, Return
    <2>3. CASE approvalCh # <<>>
      <3>0. Head(approvalCh) \in [approved : BOOLEAN, atGate : BOOLEAN]
        BY <2>3, HeadTailProperties
      <3>1. Head(approvalCh).atGate \in BOOLEAN
        BY <3>0
      <3>2. Decide(Head(approvalCh).approved, Head(approvalCh).atGate)
        BY <1>10, <2>3 DEF HumanApproval
      <3> QED
        BY <1>10, <2>1, <2>2, <3>1, <3>2 DEF HumanApproval
    <2>4. CASE approvalCh = <<>> /\ humanInputCh # <<>>
      <3>0. Head(humanInputCh) \in [text : Texts, atGate : BOOLEAN]
        BY <2>4, HeadTailProperties
      <3>1. Head(humanInputCh).atGate \in BOOLEAN
        BY <3>0
      <3>2. Decide(Head(humanInputCh).text # "reject", Head(humanInputCh).atGate)
        BY <1>10, <2>4 DEF HumanApproval
      <3> QED
        BY <1>10, <2>1, <2>2, <3>1, <3>2 DEF HumanApproval
    <2> QED
      BY <1>10, <2>3, <2>4 DEF HumanApproval
  <1>11. CASE Deliver
    BY <1>11 DEF Deliver, Return
  <1>12. CASE TearDown
    BY <1>12 DEF TearDown
  <1>13. CASE CancelWorkflow
    BY <1>13 DEF CancelWorkflow
  <1>14. CASE SignalCancel
    BY <1>14 DEF SignalCancel
  <1>15. ASSUME NEW t \in Texts, SignalHumanInput(t) PROVE RunTypeOK'
    BY <1>15 DEF SignalHumanInput
  <1>16. ASSUME NEW b \in BOOLEAN, SignalApprovalDecision(b) PROVE RunTypeOK'
    BY <1>16 DEF SignalApprovalDecision
  <1>17. CASE UNCHANGED runVars
    BY <1>17 DEF runVars
  <1> QED
    BY <1>1, <1>2, <1>3, <1>4, <1>5, <1>6, <1>7, <1>8, <1>9, <1>10, <1>11, <1>12,
       <1>13, <1>14, <1>15, <1>16, <1>17 DEF RunNext, RunStep

\* The variables of the contract keep their types in every execution of a run.
THEOREM TypeCorrect == RunSpec => []RunTypeOK
  BY InitTypeOK, NextTypeOK, PTL DEF RunSpec

\* A step of the workflow keeps the stage invariant; the gate is the only way
\* from the agent to delivery.
LEMMA NextRunInv == RunTypeOK /\ RunInv /\ [RunNext]_runVars => RunInv'
  <1> SUFFICES ASSUME RunTypeOK, RunInv, [RunNext]_runVars PROVE RunInv'
    OBVIOUS
  <1> USE DEF RunInv, StageInv, DeliveryIsApproved, EndsTerminal, GatePassed,
              signals, gateVars
  <1>1. CASE StartWorkflow
    BY <1>1 DEF StartWorkflow
  <1>2. CASE SetUp
    BY <1>2 DEF SetUp, Return
  <1>3. CASE Report \/ TakeHumanInput \/ TakeCancel \/ ExceedTTL
    BY <1>3 DEF Report, TakeHumanInput, TakeCancel, ExceedTTL, Active
  <1>4. CASE AgentFails
    BY <1>4 DEF AgentFails, Return
  <1>5. CASE AgentCompletes
    BY <1>5 DEF AgentCompletes, Active, EnterGate
  <1>6. CASE Judge
    <2>1. PICK v \in {"approve", "reject", "error"} : Judge!2!(v)
      BY <1>6 DEF Judge
    <2>2. CASE v = "reject"
      BY <1>6, <2>1, <2>2 DEF Judge, Return
    <2>3. CASE v # "reject"
      BY <1>6, <2>1, <2>3 DEF Judge, JudgeModes, HumanModes
    <2> QED
      BY <2>2, <2>3
  <1>7. CASE HumanApproval
    <2>1. ASSUME NEW approved, NEW atGate, Decide(approved, atGate),
                 stage = "approval", UNCHANGED <<mode, verdict>>
          PROVE  RunInv'
      BY <2>1 DEF Decide, Return
    <2> QED
      BY <1>7, <2>1 DEF HumanApproval
  <1>8. CASE Deliver
    BY <1>8 DEF Deliver, Return
  <1>9. CASE TearDown
    BY <1>9 DEF TearDown
  <1>10. CASE CancelWorkflow \/ SignalCancel
    BY <1>10 DEF CancelWorkflow, SignalCancel
  <1>11. ASSUME NEW t \in Texts, SignalHumanInput(t) PROVE RunInv'
    BY <1>11 DEF SignalHumanInput
  <1>12. ASSUME NEW b \in BOOLEAN, SignalApprovalDecision(b) PROVE RunInv'
    BY <1>12 DEF SignalApprovalDecision
  <1>13. CASE UNCHANGED runVars
    BY <1>13 DEF runVars
  <1> QED
    BY <1>1, <1>2, <1>3, <1>4, <1>5, <1>6, <1>7, <1>8, <1>9, <1>10, <1>11, <1>12,
       <1>13 DEF RunNext, RunStep

\* The stage invariant holds in every execution of a run.
LEMMA RunInvariant == RunSpec => []RunInv
  <1>1. RunInit => RunInv
    BY DEF RunInit, RunInv, StageInv, DeliveryIsApproved, EndsTerminal
  <1> QED
    BY <1>1, NextRunInv, TypeCorrect, PTL DEF RunSpec

\* No run is delivered, or closes as Succeeded, before the gate of its mode
\* has passed: runApprovalGate sits between the poll loop and the push.
THEOREM Approved == RunSpec => []DeliveryIsApproved
  BY RunInvariant, PTL DEF RunInv

\* The teardown starts in a terminal phase, which is not Succeeded when the
\* workflow returns an error.
THEOREM Ends == RunSpec => []EndsTerminal
  BY RunInvariant, PTL DEF RunInv
=============================================================================
