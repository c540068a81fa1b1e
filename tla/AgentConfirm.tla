----------------------------- MODULE AgentConfirm -----------------------------
(***************************************************************************)
(* One agent thread from POST /agent through its POST /agent/confirm calls *)
(* (api/agent.py): the model proposes write actions, the graph pauses for  *)
(* the human, a confirmation resumes it, the tools write to StudyLife.     *)
(* Threads share nothing, so one of them is the whole story.               *)
(*                                                                         *)
(* The writes proposed by one model turn are one batch, numbered in the    *)
(* order of proposal: /agent/confirm applies one decision to all of them.  *)
(* A checkpoint is <<step the graph takes next, batch last proposed>>.  A  *)
(* run loads the checkpoint once, when ainvoke starts; from there it goes  *)
(* on from its own memory and saves a checkpoint after every step it has   *)
(* completed (the graph and its saver are libraries, modelled from how the *)
(* code uses them).                                                        *)
(***************************************************************************)
EXTENDS Naturals

CONSTANTS
    Runs,        \* requests that can work on the thread at the same time
    MaxBatches,  \* bound: batches the model proposes on the thread
    MaxFaults    \* bound: transient failures and crashes of the service

Batches == 1 .. MaxBatches
NoBatch == 0
Undecided == "none"
Continue == "continue"      \* ainvoke(None): go on from the last checkpoint

ASSUME BoundsAssumption == MaxBatches \in Nat /\ MaxFaults \in Nat

VARIABLES
    checkpoint,          \* agent_checkpoint_db: the thread's latest checkpoint
    proposed,            \* batches proposed so far
    executed,            \* StudyLife: how often each batch was written
    pc, mode, memory,    \* the runs
    screen, decided,     \* the human: the batch last shown, the decisions made
    interrupted,         \* history: tool steps cut off after they had written
    faults

runs == <<pc, mode, memory>>
human == <<screen, decided>>
vars == <<checkpoint, proposed, executed, runs, human, interrupted, faults>>

Steps == {"model", "ask", "tools", "done"}
Checkpoints == {cp \in [next : Steps, batch : 0 .. MaxBatches] :
    cp.next \in {"ask", "tools"} => cp.batch # NoBatch}
At(step, b) == [next |-> step, batch |-> b]
NoThread == At("gone", NoBatch)
Fresh == At("model", NoBatch)       \* a run that knows of no proposal

TypeOK ==
    /\ checkpoint \in Checkpoints \cup {NoThread}
    /\ proposed \in 0 .. MaxBatches
    /\ executed \in [Batches -> Nat]
    /\ pc \in [Runs -> {"idle", "checked", "running", "written"}]
    /\ mode \in [Runs -> {"approve", "reject", Continue}]
    /\ memory \in [Runs -> Checkpoints]
    /\ \A r \in Runs : pc[r] = "written" => memory[r].next = "tools"
    /\ screen \in 0 .. MaxBatches
    /\ decided \in [Batches -> {Undecided, "approve", "reject"}]
    /\ interrupted \in 0 .. faults
    /\ faults \in 0 .. MaxFaults

Init ==
    /\ checkpoint = NoThread
    /\ proposed = 0
    /\ executed = [b \in Batches |-> 0]
    /\ pc = [r \in Runs |-> "idle"]
    /\ mode = [r \in Runs |-> Continue]
    /\ memory = [r \in Runs |-> Fresh]
    /\ screen = NoBatch
    /\ decided = [b \in Batches |-> Undecided]
    /\ interrupted = 0
    /\ faults = 0

--------------------------------------------------------------------------------
Goto(r, label) == pc' = [pc EXCEPT ![r] = label]

Begin(r, start) ==
    /\ Goto(r, "running")
    /\ memory' = [memory EXCEPT ![r] = start]

\* The run's step is complete: its result is saved before the next one starts.
Save(r, cp) ==
    /\ checkpoint' = cp
    /\ memory' = [memory EXCEPT ![r] = cp]

End(r) ==
    /\ Goto(r, "idle")
    /\ mode' = [mode EXCEPT ![r] = Continue]
    /\ memory' = [memory EXCEPT ![r] = Fresh]

--------------------------------------------------------------------------------
\* run_agent: a new thread, whose input is saved before the model is called.
RunAgent(r) ==
    /\ pc[r] = "idle"
    /\ checkpoint = NoThread
    /\ proposed = 0
    /\ checkpoint' = Fresh
    /\ Begin(r, Fresh)
    /\ UNCHANGED <<proposed, executed, mode, human, interrupted, faults>>

\* confirm_agent_action up to the answer of aget_state.  The human decides on the
\* batch on the screen, once; a request that got no answer, or a 503, is repeated.
HasNext == checkpoint.next \in {"model", "ask", "tools"}

Confirm(r, d) ==
    /\ pc[r] = "idle"
    /\ screen # NoBatch
    /\ decided[screen] \in {Undecided, d}
    /\ decided' = [decided EXCEPT ![screen] = d]
    /\ IF HasNext
       THEN /\ Goto(r, "checked")
            /\ mode' = [mode EXCEPT ![r] = IF checkpoint.next = "ask" THEN d ELSE Continue]
       ELSE UNCHANGED <<pc, mode>>                             \* 404
    /\ UNCHANGED <<checkpoint, proposed, executed, memory, screen, interrupted, faults>>

\* Mutant: the checkpoint is taken for granted.
ResumeWhatever(r) ==
    /\ pc[r] = "checked"
    /\ Begin(r, checkpoint)
    /\ UNCHANGED <<checkpoint, proposed, executed, mode, human, interrupted, faults>>

\* ainvoke loads the checkpoint anew; without one it is a fresh, empty run.
Resume(r) ==
    /\ pc[r] = "checked"
    /\ Begin(r, IF checkpoint = NoThread THEN Fresh ELSE checkpoint)
    /\ UNCHANGED <<checkpoint, proposed, executed, mode, human, interrupted, faults>>

--------------------------------------------------------------------------------
\* The steps of the graph build_agent compiles.

Running(r, step) == pc[r] = "running" /\ memory[r].next = step

\* The model proposes writes: HumanInTheLoopMiddleware interrupts the run.
Propose(r) ==
    /\ Running(r, "model")
    /\ proposed < MaxBatches
    /\ proposed' = proposed + 1
    /\ Save(r, At("ask", proposed + 1))
    /\ mode' = [mode EXCEPT ![r] = Continue]
    /\ UNCHANGED <<executed, pc, human, interrupted, faults>>

\* The model answers in words.
Conclude(r) ==
    /\ Running(r, "model")
    /\ Save(r, At("done", memory[r].batch))
    /\ UNCHANGED <<proposed, executed, pc, mode, human, interrupted, faults>>

\* Mutant: any decision resumes the batch.
ApplyAnyDecision(r) ==
    /\ Running(r, "ask")
    /\ mode[r] # Continue
    /\ Save(r, At("tools", memory[r].batch))
    /\ mode' = [mode EXCEPT ![r] = Continue]
    /\ UNCHANGED <<proposed, executed, pc, human, interrupted, faults>>

\* Command(resume): the decision goes to whatever the loaded checkpoint asks.
\* A rejected batch is answered with an error message to the model.
ApplyDecision(r) ==
    /\ Running(r, "ask")
    /\ mode[r] # Continue
    /\ Save(r, At(IF mode[r] = "approve" THEN "tools" ELSE "model", memory[r].batch))
    /\ mode' = [mode EXCEPT ![r] = Continue]
    /\ UNCHANGED <<proposed, executed, pc, human, interrupted, faults>>

\* The tools write to StudyLife ...
RunTools(r) ==
    /\ Running(r, "tools")
    /\ executed' = [executed EXCEPT ![memory[r].batch] = @ + 1]
    /\ Goto(r, "written")
    /\ UNCHANGED <<checkpoint, proposed, mode, memory, human, interrupted, faults>>

\* Mutant: the tool step becomes durable only with a later one.
KeepToolsInMemory(r) ==
    /\ pc[r] = "written"
    /\ memory' = [memory EXCEPT ![r] = At("model", memory[r].batch)]
    /\ Goto(r, "running")
    /\ UNCHANGED <<checkpoint, proposed, executed, mode, human, interrupted, faults>>

\* ... and that the step is complete is saved afterwards.
SaveTools(r) ==
    /\ pc[r] = "written"
    /\ Save(r, At("model", memory[r].batch))
    /\ Goto(r, "running")
    /\ UNCHANGED <<proposed, executed, mode, human, interrupted, faults>>

--------------------------------------------------------------------------------
\* The end of a run: _response_from_result and _invoke_and_handle_failure.

\* The pending actions reach the screen, unless the response is lost.
AnswerPending(r, arrives) ==
    /\ Running(r, "ask")
    /\ mode[r] = Continue
    /\ screen' = IF arrives THEN memory[r].batch ELSE screen
    /\ End(r)
    /\ UNCHANGED <<checkpoint, proposed, executed, decided, interrupted, faults>>

Answer(r) ==
    /\ Running(r, "done")
    /\ End(r)
    /\ UNCHANGED <<checkpoint, proposed, executed, human, interrupted, faults>>

\* A step is cut off: if it is a tool step, perhaps after it has written.
CutOff(written) == interrupted' = IF written THEN interrupted + 1 ELSE interrupted

\* The provider fails (the model, or a search in the same tool step): 503, the
\* checkpoint stays for a retry.
FailTransiently(r) ==
    /\ Running(r, "model") \/ Running(r, "tools") \/ pc[r] = "written"
    /\ faults < MaxFaults
    /\ faults' = faults + 1
    /\ CutOff(pc[r] = "written")
    /\ End(r)
    /\ UNCHANGED <<checkpoint, proposed, executed, human>>

\* Anything else that is raised: the thread is deleted, 502.
FailForGood(r) ==
    /\ pc[r] \in {"running", "written"}
    /\ checkpoint' = NoThread
    /\ End(r)
    /\ UNCHANGED <<proposed, executed, human, interrupted, faults>>

--------------------------------------------------------------------------------
\* The TTL sweep, whose check may long be out of date, or the purge of the user.
DeleteThread ==
    /\ checkpoint # NoThread
    /\ checkpoint' = NoThread
    /\ UNCHANGED <<proposed, executed, runs, human, interrupted, faults>>

\* The service restarts: the runs are gone, the checkpoint stays.
Crash ==
    /\ faults < MaxFaults
    /\ faults' = faults + 1
    /\ CutOff(\E r \in Runs : pc[r] = "written")
    /\ pc' = [r \in Runs |-> "idle"]
    /\ mode' = [r \in Runs |-> Continue]
    /\ memory' = [r \in Runs |-> Fresh]
    /\ UNCHANGED <<checkpoint, proposed, executed, human>>

GraphStep(r) ==
    \/ Propose(r)
    \/ Conclude(r)
    \/ ApplyDecision(r)
    \/ RunTools(r)
    \/ SaveTools(r)

Next ==
    \/ \E r \in Runs :
        \/ RunAgent(r)
        \/ \E d \in {"approve", "reject"} : Confirm(r, d)
        \/ Resume(r)
        \/ GraphStep(r)
        \/ \E arrives \in BOOLEAN : AnswerPending(r, arrives)
        \/ Answer(r)
        \/ FailTransiently(r)
        \/ FailForGood(r)
    \/ DeleteThread
    \/ Crash

Spec == Init /\ [][Next]_vars

--------------------------------------------------------------------------------
\* Properties.

\* What the human has rejected is never written to StudyLife, whatever became of
\* the answers to earlier requests, the checkpoint or the service.
RejectedNeverRuns ==
    \A b \in Batches : decided[b] = "reject" => executed[b] = 0

\* A batch is written once.  The only repetitions are those of a tool step that
\* was cut off after it had written: the retry after any other failure runs no
\* tool again.  So say docs/decisions.md:817 and tests/test_agent_api.py:354, and
\* the graph saves its checkpoint between the two nodes.  The docstring of
\* _invoke_and_handle_failure (agent.py:204-209) says otherwise: a follow-up call
\* of the model that fails would have the tools run again.
RunsOnceUnlessCutOff ==
    \A b \in Batches : executed[b] <= 1 + interrupted

\* "No write ever executes directly": what is written is what the human was shown
\* and approved.
OnlyApprovedRuns ==
    \A b \in Batches : executed[b] > 0 => decided[b] = "approve"

\* A confirmed batch is confirmed once: a second confirmation finds no pending
\* action (confirm_agent_action's comment), so with no fault at all every batch
\* is written at most once.
ConfirmedOnce ==
    faults = 0 => \A b \in Batches : executed[b] <= 1
================================================================================
