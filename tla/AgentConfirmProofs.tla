-------------------------- MODULE AgentConfirmProofs --------------------------
(***************************************************************************)
(* What TLAPS proves of AgentConfirm: that the thread's state is well      *)
(* formed however many requests overlap; and, for a client that awaits the *)
(* answer of a request before it sends the next one, that a rejected batch *)
(* is never written and no batch is written twice unless it was cut off.   *)
(***************************************************************************)
EXTENDS AgentConfirm, TLAPS

--------------------------------------------------------------------------------
\* The shape of the thread, for any number of overlapping requests.

LEMMA EndTyped ==
    ASSUME TypeOK, NEW r \in Runs, End(r)
    PROVE  /\ pc' \in [Runs -> {"idle", "checked", "running", "written"}]
           /\ mode' \in [Runs -> {"approve", "reject", Continue}]
           /\ memory' \in [Runs -> Checkpoints]
           /\ \A q \in Runs : pc'[q] = "written" => memory'[q].next = "tools"
<1>1. Fresh \in Checkpoints
  BY BoundsAssumption DEF Fresh, At, Checkpoints, Steps, NoBatch
<1> QED  BY <1>1 DEF TypeOK, End, Goto, Continue

LEMMA SaveTyped ==
    ASSUME TypeOK, NEW r \in Runs, NEW cp \in Checkpoints, Save(r, cp)
    PROVE  /\ checkpoint' \in Checkpoints
           /\ memory' \in [Runs -> Checkpoints]
           /\ memory'[r] = cp
           /\ \A q \in Runs \ {r} : memory'[q] = memory[q]
BY DEF TypeOK, Save

\* Every step of api/agent.py's handlers and of the graph keeps every variable in
\* its set; above all, a step that decides or writes always knows of which batch.
THEOREM ThreadTypeCorrect == Spec => []TypeOK
<1>1. Init => TypeOK
  BY BoundsAssumption
  DEF Init, TypeOK, NoThread, Fresh, At, Checkpoints, Steps, NoBatch, Batches, Continue, Undecided
<1>2. TypeOK /\ [Next]_vars => TypeOK'
  <2> SUFFICES ASSUME TypeOK, [Next]_vars PROVE TypeOK'
    OBVIOUS
  <2> USE BoundsAssumption DEF Batches, NoBatch
  <2>0. Fresh \in Checkpoints
    BY DEF Fresh, At, Checkpoints, Steps
  <2>1. ASSUME NEW r \in Runs, RunAgent(r) PROVE TypeOK'
    BY <2>0, <2>1 DEF RunAgent, Begin, Goto, TypeOK, human
  <2>2. ASSUME NEW r \in Runs, NEW d \in {"approve", "reject"}, Confirm(r, d) PROVE TypeOK'
    BY <2>2 DEF Confirm, Goto, TypeOK, Continue, Undecided
  <2>3. ASSUME NEW r \in Runs, Resume(r) PROVE TypeOK'
    BY <2>0, <2>3 DEF Resume, Begin, Goto, TypeOK, human
  <2>4. ASSUME NEW r \in Runs, Propose(r) PROVE TypeOK'
    <3>1. At("ask", proposed + 1) \in Checkpoints
      BY <2>4 DEF Propose, TypeOK, At, Checkpoints, Steps
    <3> QED  BY <2>4, <3>1, SaveTyped DEF Propose, Running, TypeOK, Continue, human
  <2>5. ASSUME NEW r \in Runs, Conclude(r) PROVE TypeOK'
    <3>1. At("done", memory[r].batch) \in Checkpoints
      BY DEF TypeOK, At, Checkpoints, Steps
    <3> QED  BY <2>5, <3>1, SaveTyped DEF Conclude, Running, TypeOK, human
  <2>6. ASSUME NEW r \in Runs, ApplyDecision(r) PROVE TypeOK'
    <3>1. At(IF mode[r] = "approve" THEN "tools" ELSE "model", memory[r].batch) \in Checkpoints
      BY <2>6 DEF ApplyDecision, Running, TypeOK, At, Checkpoints, Steps
    <3> QED  BY <2>6, <3>1, SaveTyped DEF ApplyDecision, Running, TypeOK, Continue, human
  <2>7. ASSUME NEW r \in Runs, RunTools(r) PROVE TypeOK'
    BY <2>7 DEF RunTools, Running, Goto, TypeOK, Checkpoints, human
  <2>8. ASSUME NEW r \in Runs, SaveTools(r) PROVE TypeOK'
    <3>1. At("model", memory[r].batch) \in Checkpoints
      BY DEF TypeOK, At, Checkpoints, Steps
    <3> QED  BY <2>8, <3>1, SaveTyped DEF SaveTools, Goto, TypeOK, human
  <2>9. ASSUME NEW r \in Runs, NEW arrives \in BOOLEAN, AnswerPending(r, arrives) PROVE TypeOK'
    <3>1. memory[r].batch \in 0 .. MaxBatches
      BY DEF TypeOK, Checkpoints
    <3> QED  BY <2>9, <3>1, EndTyped DEF AnswerPending, TypeOK
  <2>10. ASSUME NEW r \in Runs, Answer(r) PROVE TypeOK'
    BY <2>10, EndTyped DEF Answer, TypeOK, human
  <2>11. ASSUME NEW r \in Runs, FailTransiently(r) PROVE TypeOK'
    BY <2>11, EndTyped DEF FailTransiently, CutOff, TypeOK, human
  <2>12. ASSUME NEW r \in Runs, FailForGood(r) PROVE TypeOK'
    BY <2>12, EndTyped DEF FailForGood, TypeOK, human
  <2>13. CASE DeleteThread
    BY <2>13 DEF DeleteThread, TypeOK, runs, human
  <2>14. CASE Crash
    BY <2>0, <2>14 DEF Crash, CutOff, TypeOK, Continue, human
  <2>15. CASE UNCHANGED vars
    BY <2>15 DEF TypeOK, vars, runs, human
  <2> QED
    BY <2>1, <2>2, <2>3, <2>4, <2>5, <2>6, <2>7, <2>8, <2>9, <2>10, <2>11, <2>12, <2>13,
       <2>14, <2>15 DEF Next, GraphStep
<1> QED  BY <1>1, <1>2, PTL DEF Spec

--------------------------------------------------------------------------------
\* A client that awaits each answer: one run R at a time.

InMemory(R) == pc[R] \in {"running", "written"}

\* cp is what the thread goes on from, or what the run is about to do.
Holds(R, cp) == checkpoint = cp \/ (InMemory(R) /\ memory[R] = cp)

\* No other request has moved the thread; at most it was deleted.
InStep(R) == InMemory(R) => checkpoint \in {memory[R], NoThread}

\* What is asked is what was proposed last; batches to come are untouched.
AskedLast(R) ==
    /\ screen <= proposed
    /\ checkpoint.batch <= proposed
    /\ InMemory(R) => memory[R].batch <= proposed
    /\ \A b \in Batches : Holds(R, At("ask", b)) => b = proposed /\ executed[b] = 0
    /\ \A b \in Batches : b > proposed => executed[b] = 0
    /\ \A b \in Batches : b > screen => decided[b] = Undecided

\* A tool step that is still to be taken has written nothing but what was cut off.
NotYetWritten(R) ==
    pc[R] # "written" =>
        \A b \in Batches : Holds(R, At("tools", b)) => executed[b] <= interrupted

\* The decision the run carries is the one made about the batch on the screen.
CarriesDecision(R) ==
    mode[R] # Continue => screen # NoBatch /\ decided[screen] = mode[R]

\* A batch that is written, or on its way to the tools, is not open to rejection:
\* it was approved, or it never was and never will be on the screen.
CommittedIsNotRejected(R) ==
    \A b \in Batches :
        executed[b] > 0 \/ Holds(R, At("tools", b))
            => decided[b] = "approve" \/ (decided[b] = Undecided /\ screen # b)

ThreadInv(R) ==
    /\ InStep(R)
    /\ AskedLast(R)
    /\ NotYetWritten(R)
    /\ CarriesDecision(R)
    /\ CommittedIsNotRejected(R)
    /\ RunsOnceUnlessCutOff

USE DEF Batches, NoBatch, Continue, Undecided

LEMMA ThreadInvInit ==
    ASSUME NEW R, Runs = {R}, Init
    PROVE  ThreadInv(R)
BY BoundsAssumption
DEF Init, ThreadInv, InStep, AskedLast, NotYetWritten, CarriesDecision, CommittedIsNotRejected,
    RunsOnceUnlessCutOff, Holds, InMemory, NoThread, At

LEMMA ThreadInvStep ==
    ASSUME NEW R, Runs = {R}, TypeOK, TypeOK', ThreadInv(R), [Next]_vars
    PROVE  ThreadInv(R)'
<1> USE BoundsAssumption
    DEF TypeOK, Checkpoints, ThreadInv, InStep, AskedLast, NotYetWritten, CarriesDecision,
        CommittedIsNotRejected, RunsOnceUnlessCutOff, Holds, InMemory, NoThread, Fresh, At,
        Goto, human
<1>1. CASE RunAgent(R)
  BY <1>1 DEF RunAgent, Begin
<1>2. ASSUME NEW d \in {"approve", "reject"}, Confirm(R, d) PROVE ThreadInv(R)'
  BY <1>2 DEF Confirm, HasNext
<1>3. CASE Resume(R)
  BY <1>3 DEF Resume, Begin
<1>4. CASE Propose(R)
  BY <1>4 DEF Propose, Running, Save
<1>5. CASE Conclude(R)
  BY <1>5 DEF Conclude, Running, Save
<1>6. CASE ApplyDecision(R)
  BY <1>6 DEF ApplyDecision, Running, Save
<1>7. CASE RunTools(R)
  BY <1>7 DEF RunTools, Running
<1>8. CASE SaveTools(R)
  BY <1>8 DEF SaveTools, Save
<1>9. ASSUME NEW arrives \in BOOLEAN, AnswerPending(R, arrives) PROVE ThreadInv(R)'
  BY <1>9 DEF AnswerPending, Running, End
<1>10. CASE Answer(R)
  BY <1>10 DEF Answer, Running, End
<1>11. CASE FailTransiently(R)
  BY <1>11 DEF FailTransiently, Running, CutOff, End
<1>12. CASE FailForGood(R)
  BY <1>12 DEF FailForGood, End
<1>13. CASE DeleteThread
  BY <1>13 DEF DeleteThread, runs
<1>14. CASE Crash
  BY <1>14 DEF Crash, CutOff
<1>15. CASE UNCHANGED vars
  BY <1>15 DEF vars, runs
<1> QED
  BY <1>1, <1>2, <1>3, <1>4, <1>5, <1>6, <1>7, <1>8, <1>9, <1>10, <1>11, <1>12, <1>13, <1>14,
     <1>15 DEF Next, GraphStep

\* With one request at a time, a batch the human rejected is never written: no lost
\* answer, retry, failure, sweep or restart turns a rejection into a write
\* (confirm_agent_action's choice between Command(resume) and None).
THEOREM RejectedNeverRunsHolds ==
    ASSUME NEW R, Runs = {R}
    PROVE  Spec => []RejectedNeverRuns
<1>1. Init => ThreadInv(R)
  BY ThreadInvInit
<1>2. TypeOK /\ TypeOK' /\ ThreadInv(R) /\ [Next]_vars => ThreadInv(R)'
  BY ThreadInvStep
<1>3. TypeOK /\ ThreadInv(R) => RejectedNeverRuns
  BY DEF TypeOK, ThreadInv, CommittedIsNotRejected, RejectedNeverRuns
<1> QED
  BY <1>1, <1>2, <1>3, ThreadTypeCorrect, PTL DEF Spec

\* With one request at a time, a batch is written once, and once more at most for
\* each tool step that was cut off between its write and its checkpoint
\* (the retry that _invoke_and_handle_failure leaves the checkpoint for).
THEOREM RunsOnceUnlessCutOffHolds ==
    ASSUME NEW R, Runs = {R}
    PROVE  Spec => []RunsOnceUnlessCutOff
<1>1. Init => ThreadInv(R)
  BY ThreadInvInit
<1>2. TypeOK /\ TypeOK' /\ ThreadInv(R) /\ [Next]_vars => ThreadInv(R)'
  BY ThreadInvStep
<1>3. ThreadInv(R) => RunsOnceUnlessCutOff
  BY DEF ThreadInv
<1> QED
  BY <1>1, <1>2, <1>3, ThreadTypeCorrect, PTL DEF Spec

\* Without a fault, one request at a time also keeps confirm_agent_action's promise
\* that a confirmed batch is not confirmed again: what run agent_overlap finds takes
\* a second request beside the first.
THEOREM AwaitedConfirmsOnce ==
    ASSUME NEW R, Runs = {R}
    PROVE  Spec => []ConfirmedOnce
<1>1. TypeOK /\ RunsOnceUnlessCutOff => ConfirmedOnce
  BY BoundsAssumption DEF TypeOK, RunsOnceUnlessCutOff, ConfirmedOnce
<1> QED
  BY <1>1, RunsOnceUnlessCutOffHolds, ThreadTypeCorrect, PTL
================================================================================
