------------------------- MODULE WorkflowViewsProofs -------------------------
(***************************************************************************)
(* The workflow engine as others rely on it, for every template.  The      *)
(* order sees a view of it, which never goes back.  The production floor   *)
(* works beside it, with any staffing and any number of interrupted        *)
(* requests: begun work can be gone on with, and somebody can act unless   *)
(* the workflow is stuck on work that nobody was assigned to.              *)
(* The database runs its requests as transactions that overlap: they add   *)
(* up to the engine when they come one at a time, and when they complete   *)
(* the tasks of a chain.                                                   *)
(***************************************************************************)
EXTENDS EngineProgress, ProductionFloor, WorkflowTransactions, WorkflowEngineProofs

(***************************************************************************)
(* The view of the order.                                                  *)
(***************************************************************************)

\* A set of finished tasks that has every gate and every inspection in it
\* stays finished: rework starts from one of those, before it is finished.
LEMMA FinishedSetStays ==
  ASSUME IInv, Next, ~crossed', NEW S \in SUBSET Task, Gate \cup Inspection \subseteq S, AllTerminal(S)
  PROVE  AllTerminal(S)'
<1> SUFFICES ASSUME NEW u \in S PROVE task'[u] \in TaskTerminal
  BY DEF AllTerminal
<1>1. task \in Statuses /\ u \in Task /\ task[u] \in TaskTerminal
  BY DEF IInv, TypeOK, Statuses, AllTerminal
<1>2. "BLOCKED" \notin TaskTerminal /\ "ON_HOLD" \notin TaskTerminal
      /\ OpenGateStatus \cap TaskTerminal = {} /\ Unopened \cap TaskTerminal = {}
      /\ "BLOCKED" \in TaskStatus /\ "ON_HOLD" \in TaskStatus
  BY DEF TaskTerminal, OpenGateStatus, Unopened, TaskStatus
<1>3. ASSUME NEW t \in Task, NEW target \in AdvanceTargets, Advance(t, target)
      PROVE  task'[u] \in TaskTerminal
  <2> DEFINE st == [task EXCEPT ![t] = target]
  <2>1. st \in Statuses /\ target \in TaskStatus
    BY <1>1 DEF Statuses, AdvanceTargets, UsedStatus, TaskStatus
  <2>2. st[u] = task[u]
    <3>1. CASE u = t
      BY <3>1, <1>1, <1>3, <2>1, TerminalMayNotMove DEF Advance, Statuses
    <3>2. CASE u # t
      BY <3>2, <1>1 DEF Statuses
    <3> QED BY <3>1, <3>2
  <2>3. task' = Opened(st)
    BY <1>3 DEF Advance
  <2> QED BY <1>1, <1>2, <2>1, <2>2, <2>3, OpenedChanges
<1>4. ASSUME NEW q \in Inspection, NEW target \in Task, QcRework(q, target) PROVE FALSE
  <2>1. task[q] \in TaskTerminal /\ TaskMayMove(task[q], "BLOCKED")
    BY <1>4 DEF AllTerminal, QcRework
  <2> QED BY <2>1, <1>2, TerminalMayNotMove
<1>5. ASSUME NEW q \in Inspection, QcReworkDefault(q) PROVE FALSE
  <2>1. PICK target \in DefaultReworkTarget(q) : QcRework(q, target)
    BY <1>5 DEF QcReworkDefault
  <2> QED BY <2>1, <1>4, StepKinds, DefaultReworkTargetIsTask
<1>6. ASSUME NEW q \in Inspection, QcHold(q) PROVE FALSE
  <2>1. task[q] \in TaskTerminal /\ TaskMayMove(task[q], "ON_HOLD")
    BY <1>6 DEF AllTerminal, QcHold
  <2> QED BY <2>1, <1>2, TerminalMayNotMove
<1>7. ASSUME NEW g \in Gate, RejectVendorApproval(g) PROVE FALSE
  BY <1>2, <1>7 DEF RejectVendorApproval, OpenGates, AllTerminal
<1>8. ASSUME NEW t \in Task, FlagForCorrection(t) PROVE task'[u] \in TaskTerminal
  <2>1. u # t
    BY <1>1, <1>2, <1>8, TerminalMayNotMove DEF FlagForCorrection
  <2> QED BY <2>1, <1>1, <1>8 DEF FlagForCorrection, Statuses
<1>9. ASSUME NEW t \in Task, ResolveCorrection(t) PROVE task'[u] \in TaskTerminal
  BY <1>1, <1>2, <1>9 DEF ResolveCorrection, Statuses
<1>10. ASSUME CancelInstance PROVE task'[u] \in TaskTerminal
  BY <1>1, <1>10 DEF CancelInstance
<1>11. ASSUME NEW t \in Task, NEW status \in TaskStatus, FloorWrite(t, status)
       PROVE  task'[u] \in TaskTerminal
  <2>1. u # t
    BY <1>1, <1>11, FloorMovesFromOpen DEF FloorWrite
  <2> QED BY <2>1, <1>1, <1>11 DEF FloorWrite, Statuses
<1>12. ~Crosses
  BY CrossingInvariant
<1> QED BY <1>3, <1>4, <1>5, <1>6, <1>7, <1>8, <1>9, <1>10, <1>11, <1>12 DEF Next, Crosses

\* What the order sees of the workflow is a view, and tells when all
\* production, and when everything, is finished.
ViewFacts ==
  /\ EngineView \in Progress!View
  /\ EngineView.phase # "open" <=> AllTerminal(Produces)
  /\ EngineView.phase = "over" => AllTerminal(Task)
  /\ AllTerminal(Task) => EngineView = Progress!Over

LEMMA EngineViewIsView == ViewFacts
<1>1. PhaseNow \in Progress!Phase /\ (PhaseNow # "open" <=> AllTerminal(Produces))
  BY DEF PhaseNow, Progress!Phase
<1>2. EngineView.stages \in SUBSET Stage
  BY DispatchSteps DEF EngineView, Produces
<1>3. AllTerminal(Produces) => EngineView.stages = {} /\ ~EngineView.correction
  <2>1. Verification \subseteq Produces
    BY DispatchSteps, StepKinds DEF Produces
  <2>2. Active \cap TaskTerminal = {} /\ "BLOCKED" \notin TaskTerminal
    BY DEF Active, TaskTerminal
  <2> QED BY <2>1, <2>2 DEF EngineView, AllTerminal
<1>4. EngineView.phase = PhaseNow
  BY DEF EngineView
<1>5. EngineView \in Progress!View
  BY <1>1, <1>2, <1>3, <1>4 DEF EngineView, Progress!View
<1>6. PhaseNow = "over" => AllTerminal(Task)
  BY DEF PhaseNow, AllTerminal, Produces
<1>7. ASSUME AllTerminal(Task) PROVE EngineView = Progress!Over
  <2>1. AllTerminal(Produces) /\ AllTerminal(Dispatch)
    BY <1>7, DispatchSteps DEF AllTerminal, Produces
  <2>2. ~\E t \in Dispatch : task[t] \in Queued
    BY <2>1 DEF AllTerminal, Queued, TaskTerminal
  <2>3. PhaseNow = "over"
    BY <2>1, <2>2 DEF PhaseNow
  <2>4. EngineView.stages = {} /\ EngineView.correction = FALSE
    BY <1>3, <2>1 DEF EngineView
  <2> QED BY <2>3, <2>4 DEF EngineView, Progress!Over
<1> QED BY <1>1, <1>4, <1>5, <1>6, <1>7 DEF ViewFacts

\* And so it does after a step.
LEMMA EngineViewIsViewNext == ViewFacts'
BY EngineViewIsView, PTL

\* A step of the engine never takes the view back, unless a rework has
\* crossed the workflow.
LEMMA StepIsProgress ==
  ASSUME IInv, [Next]_vars
  PROVE  [Progress!ProgressNext]_<<EngineView, crossed>>
<1>0. IInv'
  BY NextInvariant
<1>1. CASE UNCHANGED vars
  BY <1>1 DEF vars, EngineView, PhaseNow, AllTerminal
<1>2. CASE Next /\ crossed'
  BY <1>2, <1>0, EngineViewIsViewNext DEF ViewFacts, Progress!ProgressNext
<1>3. CASE Next /\ ~crossed'
  <2>0. Next /\ ~crossed /\ ~crossed'
    BY <1>3, CrossedStays
  <2>1. AllTerminal(Produces) => AllTerminal(Produces)'
    BY <2>0, FinishedSetStays, DispatchSteps, StepKinds DEF Produces
  <2>2. AllTerminal(Task) => AllTerminal(Task)'
    BY <2>0, FinishedSetStays, StepKinds
  <2>3. /\ EngineView' \in Progress!View
        /\ EngineView'.phase # "open" <=> AllTerminal(Produces)'
        /\ AllTerminal(Task)' => EngineView' = Progress!Over
    BY EngineViewIsViewNext DEF ViewFacts
  <2>4. Progress!MayBecome(EngineView, EngineView')
    <3>1. CASE EngineView.phase = "open"
      BY <3>1 DEF Progress!MayBecome
    <3>2. CASE EngineView.phase = "over"
      BY <3>2, <2>2, <2>3, EngineViewIsView DEF ViewFacts, Progress!MayBecome
    <3>3. CASE EngineView.phase \notin {"open", "over"}
      <4>1. Progress!OpenDispatchWork(EngineView)
        BY <3>3, EngineViewIsView DEF ViewFacts, Progress!OpenDispatchWork, Progress!View, Progress!Phase
      <4>2. Progress!Complete(EngineView')
        BY <3>3, <2>1, <2>3, EngineViewIsView DEF ViewFacts, Progress!Complete
      <4> QED BY <4>1, <4>2 DEF Progress!MayBecome
    <3> QED BY <3>1, <3>2, <3>3
  <2> QED BY <1>0, <2>0, <2>3, <2>4 DEF Progress!ProgressNext, IInv, TypeOK
<1> QED BY <1>1, <1>2, <1>3

\* Production that is complete stays complete, and what is over stays over,
\* in every template that has a step besides dispatch, until a rework from
\* another workflow opens it.
THEOREM EngineKeepsProgress == Spec => ProgressSpec
<1>1. Init => Progress!ProgressInit
  BY EngineViewIsView DEF ViewFacts, Progress!ProgressInit, Init
<1>2. IInv /\ [Next]_vars => [Progress!ProgressNext]_<<EngineView, crossed>>
  BY StepIsProgress
<1> QED BY <1>1, <1>2, InvariantHolds, PTL DEF Spec, ProgressSpec, Progress!ProgressSpec

(***************************************************************************)
(* Every step of the floor is a step of the engine, or none.               *)
(***************************************************************************)

\* The status writes of the floor are writes the engine's module allows.
LEMMA WritesAreFloorWrites ==
  ASSUME NEW t \in Task, NEW status \in TaskStatus, Writes(t, status)
  PROVE  Next
BY DEF Writes, Next

\* What a second commit does is one action of the engine.
LEMMA EngineStepIsNext ==
  ASSUME NEW t \in Task, finishing[t] \in Unfinished, EngineStep(t)
  PROVE  Next
<1>1. CASE finishing[t] \in {"complete", "pass"}
  <2>1. Advance(t, "COMPLETED") /\ "COMPLETED" \in AdvanceTargets
    BY <1>1 DEF EngineStep, AdvanceTargets
  <2> QED BY <2>1 DEF Next
<1>2. CASE finishing[t] = "flag"
  BY <1>2 DEF EngineStep, Next
<1>3. CASE finishing[t] = "rework"
  <2>1. \/ QcReworkDefault(t)
        \/ \E target \in Task : QcRework(t, target)
        \/ \E position \in Position : QcReworkElsewhere(t, position)
    BY <1>3 DEF EngineStep
  <2>2. t \in Inspection
    BY <2>1 DEF QcReworkDefault, QcRework, QcReworkElsewhere
  <2> QED BY <2>1, <2>2 DEF Next
<1>4. CASE finishing[t] = "hold"
  <2>1. QcHold(t) /\ t \in Inspection
    BY <1>4 DEF EngineStep, QcHold
  <2> QED BY <2>1 DEF Next
<1> QED BY <1>1, <1>2, <1>3, <1>4 DEF Unfinished, Verdict

\* The types of the rows of the floor.
FloorRowsOK ==
  /\ assigned \subseteq Task
  /\ session \in [Task -> SessionStatus \cup {"NONE"}]
  /\ onHold \subseteq {t \in Task : session[t] = "ON_HOLD"}
  /\ inspecting \subseteq Inspection
  /\ finishing \in [Task -> Unfinished \cup {"no"}]
  /\ lost \subseteq Task

LEMMA FloorStepIsEngineStep ==
  ASSUME FloorRowsOK, [FloorNext]_floorVars
  PROVE  [Next]_vars
<1>1. CASE UNCHANGED floorVars
  BY <1>1 DEF floorVars
<1>2. CASE EngineAlone
  BY <1>2, StepKinds DEF EngineAlone, Next
<1>3. CASE CancelOrderItem
  BY <1>3 DEF CancelOrderItem, Next
<1>4. ASSUME NEW t \in Task,
             \/ Assign(t) \/ Reassign(t) \/ Unassign(t) \/ Start(t)
             \/ Pause(t) \/ Resume(t) \/ Hold(t) \/ ReleaseHold(t) \/ ClaimDesign(t)
      PROVE  Next
  <2>1. \E status \in TaskStatus : Writes(t, status)
    BY <1>4 DEF Assign, Reassign, Unassign, Start, Pause, Resume, Hold, ReleaseHold,
                ClaimDesign, MoveBoth, TaskStatus
  <2> QED BY <2>1, WritesAreFloorWrites
<1>5. ASSUME NEW t \in Task,
             CompleteTask(t) \/ FlagOrder(t) \/ SecondCommitFails(t)
             \/ \E verdict \in Verdict : SubmitResult(t, verdict)
      PROVE  UNCHANGED vars
  BY <1>5 DEF CompleteTask, FlagOrder, EndSession, SecondCommitFails, SubmitResult
<1>6. ASSUME NEW t \in Task, StartInspection(t)
      PROVE  [Next]_vars
  <2>1. Writes(t, "IN_PROGRESS") \/ UNCHANGED vars
    BY <1>6 DEF StartInspection
  <2>2. "IN_PROGRESS" \in TaskStatus
    BY DEF TaskStatus
  <2> QED BY <2>1, <2>2, WritesAreFloorWrites
<1>7. ASSUME NEW t \in Task, SecondCommit(t)
      PROVE  Next
  <2>1. finishing[t] \in Unfinished /\ EngineStep(t)
    BY <1>7 DEF SecondCommit, FloorRowsOK
  <2> QED BY <2>1, EngineStepIsNext
<1> QED BY <1>1, <1>2, <1>3, <1>4, <1>5, <1>6, <1>7 DEF FloorNext

\* A paused task does not run a held session: without it, resuming could
\* leave the hold of a session that works again.
PausedIsNotHeld == \A t \in Task : task[t] = "PAUSED" => session[t] # "ON_HOLD"

\* The rows keep their types, whatever the engine does.
LEMMA RowsStayOK ==
  ASSUME FloorRowsOK, PausedIsNotHeld, [FloorNext]_floorVars
  PROVE  FloorRowsOK'
<1>1. CASE UNCHANGED floorVars
  BY <1>1 DEF floorVars, rows, FloorRowsOK
<1>2. CASE EngineAlone
  BY <1>2 DEF EngineAlone, rows, Forget, FloorRowsOK
<1>3. CASE CancelOrderItem
  BY <1>3 DEF CancelOrderItem, Forget, FloorRowsOK
<1>4. ASSUME NEW t \in Task,
             Assign(t) \/ Reassign(t) \/ Unassign(t) \/ ClaimDesign(t) \/ StartInspection(t)
      PROVE  FloorRowsOK'
  BY <1>4 DEF Assign, Reassign, Unassign, ClaimDesign, StartInspection, Writes, Forget, rows,
              FloorRowsOK
<1>5. ASSUME NEW t \in Task, Start(t) \/ Pause(t) \/ Resume(t) \/ Hold(t) \/ ReleaseHold(t)
      PROVE  FloorRowsOK'
  <2>1. /\ assigned' = assigned /\ inspecting' = inspecting /\ finishing' = finishing
        /\ lost' \subseteq lost
    BY <1>5 DEF Start, Pause, Resume, Hold, ReleaseHold, MoveBoth, Writes, Forget
  <2>2. CASE Start(t)
    BY <2>1, <2>2 DEF Start, FloorRowsOK, SessionStatus
  <2>3. CASE Hold(t)
    BY <2>1, <2>3 DEF Hold, MoveBoth, FloorRowsOK, SessionStatus
  <2>4. CASE ReleaseHold(t)
    BY <2>1, <2>4 DEF ReleaseHold, MoveBoth, FloorRowsOK, SessionStatus
  <2>5. CASE Pause(t)
    <3>1. session[t] # "ON_HOLD"
      BY <2>5 DEF Pause, MoveBoth, SessionMayMove, SessionTransitions
    <3> QED BY <2>1, <2>5, <3>1 DEF Pause, MoveBoth, FloorRowsOK, SessionStatus
  <2>6. CASE Resume(t)
    BY <2>1, <2>6 DEF Resume, MoveBoth, FloorRowsOK, SessionStatus, PausedIsNotHeld
  <2> QED BY <1>5, <2>2, <2>3, <2>4, <2>5, <2>6
<1>6. ASSUME NEW t \in Task, CompleteTask(t) \/ FlagOrder(t)
      PROVE  FloorRowsOK'
  BY <1>6 DEF CompleteTask, FlagOrder, EndSession, FloorRowsOK, Unfinished
<1>7. ASSUME NEW t \in Task, NEW verdict \in Verdict, SubmitResult(t, verdict)
      PROVE  FloorRowsOK'
  BY <1>7 DEF SubmitResult, FloorRowsOK, Unfinished
<1>8. ASSUME NEW t \in Task, SecondCommit(t) \/ SecondCommitFails(t)
      PROVE  FloorRowsOK'
  BY <1>8 DEF SecondCommit, SecondCommitFails, rows, Forget, FloorRowsOK
<1> QED BY <1>1, <1>2, <1>3, <1>4, <1>5, <1>6, <1>7, <1>8 DEF FloorNext

(***************************************************************************)
(* What the engine does to work that was begun.                            *)
(***************************************************************************)

\* The statuses of a task that somebody is assigned to or works on.
Worked == {"ASSIGNED", "IN_PROGRESS", "PAUSED", "ON_HOLD"}

\* The engine never puts a task into one of them, except by holding an
\* inspection.
LEMMA EngineEndsWork ==
  ASSUME task \in Statuses,
         \/ \E t \in Task, target \in AdvanceTargets : Advance(t, target)
         \/ \E source, target \in Task : SendBack(source, target)
         \/ \E t \in Task : FlagForCorrection(t) \/ ResolveCorrection(t)
         \/ CancelInstance
         \/ Crosses,
         NEW u \in Task
  PROVE  task'[u] = task[u] \/ task'[u] \notin Worked
<1>1. ASSUME NEW t \in Task, NEW target \in AdvanceTargets, Advance(t, target)
      PROVE  task'[u] = task[u] \/ task'[u] \notin Worked
  <2> DEFINE st == [task EXCEPT ![t] = target]
  <2>1. st \in Statuses /\ target \in TaskTerminal
    BY DEF Statuses, AdvanceTargets, UsedStatus, TaskStatus, TaskTerminal
  <2>2. task'[u] = st[u] \/ task'[u] = "READY"
    BY <1>1, <2>1, OpenedChanges DEF Advance
  <2>3. st[u] = task[u] \/ st[u] \in TaskTerminal
    BY <2>1 DEF Statuses
  <2> QED BY <2>2, <2>3 DEF Worked, TaskTerminal
<1>2. ASSUME NEW source \in Task, NEW target \in Task, SendBack(source, target)
      PROVE  task'[u] = task[u] \/ task'[u] \notin Worked
  BY <1>2, SentBackType DEF SendBack, Worked
<1>3. ASSUME NEW t \in Task, FlagForCorrection(t) \/ ResolveCorrection(t)
      PROVE  task'[u] = task[u] \/ task'[u] \notin Worked
  BY <1>3 DEF FlagForCorrection, ResolveCorrection, Worked, Statuses
<1>4. CASE CancelInstance
  BY <1>4 DEF CancelInstance, Worked
<1>5. CASE Crosses
  BY <1>5 DEF Crosses, QcReworkElsewhere, ReworkFromOutside, BlockedAfter, Worked, Statuses
<1> QED BY <1>1, <1>2, <1>3, <1>4, <1>5

\* What of the invariant is about the statuses that mean work.
Steady == PausedIsNotHeld /\ WorkCanGoOn

\* A step that puts no task to work, and forgets an interruption only of a
\* task that it moves, keeps the work that others may go on with.
LEMMA EndingWorkIsSteady ==
  ASSUME Steady, UNCHANGED rows,
         \A u \in Task : task'[u] = task[u] \/ task'[u] \notin Worked \/ u \in Inspection,
         \A u \in Task \ (Inspection \cup Design) :
            Interrupted(u) /\ task'[u] = task[u] => Interrupted(u)' \/ task'[u] \notin Worked,
         \A u \in Inspection : task'[u] = "PAUSED" => task[u] = "PAUSED"
  PROVE  Steady'
BY DEF Steady, PausedIsNotHeld, WorkCanGoOn, Worked, SessionStatus, rows

\* What reaches the engine without the floor puts nobody to work.
LEMMA EngineAloneEndsWork ==
  ASSUME task \in Statuses, EngineAlone, NEW u \in Task
  PROVE  task'[u] = task[u] \/ task'[u] \notin Worked
<1>1. ASSUME NEW g \in Gate, RejectVendorApproval(g)
      PROVE  \E source, target \in Task : SendBack(source, target)
  <2>1. PICK target \in DefaultReworkTarget(g) : SendBack(g, target)
    BY <1>1 DEF RejectVendorApproval
  <2>2. g \in Task /\ target \in Task
    BY <2>1, StepKinds, DefaultReworkTargetIsTask
  <2> QED BY <2>1, <2>2
<1> QED BY <1>1, EngineEndsWork DEF EngineAlone, Crosses

LEMMA EngineAloneIsSteady ==
  ASSUME task \in Statuses, Steady, EngineAlone
  PROVE  Steady'
<1>2. \A u \in Task : task'[u] = task[u] \/ task'[u] \notin Worked
  BY EngineAloneEndsWork
<1>3. \A u \in Task : Interrupted(u) /\ task'[u] = task[u] => Interrupted(u)'
  BY DEF EngineAlone, Forget, Interrupted
<1>4. \A u \in Inspection : task'[u] = "PAUSED" => task[u] = "PAUSED"
  BY <1>2, StepKinds DEF Worked
<1> QED BY <1>2, <1>3, <1>4, EndingWorkIsSteady DEF EngineAlone

\* Neither does a second commit, but it may hold an inspection.
LEMMA SecondCommitEndsWork ==
  ASSUME task \in Statuses, FloorRowsOK, NEW t \in Task, SecondCommit(t), NEW u \in Task
  PROVE  \/ task'[u] = task[u]
         \/ task'[u] \notin Worked
         \/ u \in Inspection /\ task'[u] = "ON_HOLD"
<1>1. finishing[t] \in Unfinished /\ EngineStep(t)
  BY DEF SecondCommit, FloorRowsOK
<1>2. CASE finishing[t] \in {"complete", "pass", "flag"}
  <2>1. \/ Advance(t, "COMPLETED") /\ "COMPLETED" \in AdvanceTargets
        \/ FlagForCorrection(t)
    BY <1>1, <1>2 DEF EngineStep, AdvanceTargets
  <2> QED BY <2>1, EngineEndsWork
<1>3. CASE finishing[t] = "rework"
  <2>1. t \in Inspection
    BY <1>1, <1>3 DEF EngineStep, QcReworkDefault, QcRework, QcReworkElsewhere
  <2>2. (\E source, target \in Task : SendBack(source, target)) \/ Crosses
    BY <1>1, <1>3, <2>1, DefaultReworkTargetIsTask
       DEF EngineStep, QcReworkDefault, QcRework, Crosses
  <2> QED BY <2>2, EngineEndsWork
<1>4. CASE finishing[t] = "hold"
  <2>1. QcHold(t)
    BY <1>1, <1>4 DEF EngineStep
  <2> QED BY <2>1 DEF QcHold, Statuses
<1> QED BY <1>1, <1>2, <1>3, <1>4 DEF Unfinished, Verdict

LEMMA SecondCommitIsSteady ==
  ASSUME task \in Statuses, FloorRowsOK, Steady, NEW t \in Task, SecondCommit(t)
  PROVE  Steady'
<1>1. finishing[t] \in Unfinished /\ EngineStep(t) /\ UNCHANGED rows
  BY DEF SecondCommit, FloorRowsOK
<1>2. CASE finishing[t] \in {"complete", "pass", "flag"}
  <2>1. \/ Advance(t, "COMPLETED") /\ "COMPLETED" \in AdvanceTargets
        \/ FlagForCorrection(t)
    BY <1>1, <1>2 DEF EngineStep, AdvanceTargets
  <2>2. \A u \in Task : task'[u] = task[u] \/ task'[u] \notin Worked
    BY <2>1, EngineEndsWork
  <2>3. task'[t] \notin Worked
    <3>1. CASE Advance(t, "COMPLETED")
      <4> DEFINE st == [task EXCEPT ![t] = "COMPLETED"]
      <4>1. st \in Statuses /\ st[t] = "COMPLETED"
        BY DEF Statuses, UsedStatus, TaskStatus
      <4>2. task' = Opened(st)
        BY <3>1 DEF Advance
      <4> QED BY <4>1, <4>2, OpenedChanges DEF Worked
    <3>2. CASE FlagForCorrection(t)
      BY <3>2 DEF FlagForCorrection, Worked, Statuses
    <3> QED BY <2>1, <3>1, <3>2
  <2>4. \A u \in Task \ {t} : Interrupted(u) /\ task'[u] = task[u] => Interrupted(u)'
    BY DEF SecondCommit, Forget, Interrupted, FloorRowsOK
  <2>5. \A u \in Inspection : task'[u] = "PAUSED" => task[u] = "PAUSED"
    BY <2>2, StepKinds DEF Worked
  <2> QED BY <1>1, <2>2, <2>3, <2>4, <2>5, EndingWorkIsSteady
<1>3. CASE finishing[t] \in {"rework", "hold"}
  <2>1. t \in Inspection
    BY <1>1, <1>3 DEF EngineStep, QcReworkDefault, QcRework, QcReworkElsewhere, QcHold
  <2>2. \A u \in Task : \/ task'[u] = task[u]
                        \/ task'[u] \notin Worked
                        \/ u \in Inspection /\ task'[u] = "ON_HOLD"
    BY SecondCommitEndsWork
  <2>3. \A u \in Task \ {t} : Interrupted(u) /\ task'[u] = task[u] => Interrupted(u)'
    BY DEF SecondCommit, Forget, Interrupted, FloorRowsOK
  <2>4. \A u \in Inspection : task'[u] = "PAUSED" => task[u] = "PAUSED"
    BY <2>2, StepKinds DEF Worked
  <2> QED BY <1>1, <2>1, <2>2, <2>3, <2>4, EndingWorkIsSteady
<1> QED BY <1>1, <1>2, <1>3 DEF Unfinished, Verdict

LEMMA CancelIsSteady ==
  ASSUME task \in Statuses, FloorRowsOK, Steady, CancelOrderItem
  PROVE  Steady'
<1>1. \A u \in Task : \/ task'[u] = "CANCELLED"
                      \/ task'[u] = task[u] /\ task[u] \in TaskTerminal
  BY DEF CancelOrderItem, CancelInstance
<1> QED BY <1>1 DEF Steady, PausedIsNotHeld, WorkCanGoOn, SessionStatus, TaskTerminal

(***************************************************************************)
(* The floor's own handlers.                                               *)
(***************************************************************************)

\* A status write moves one task, and interrupts nothing that stays.
LEMMA WritesMoveOne ==
  ASSUME task \in Statuses, NEW t \in Task, NEW status \in TaskStatus, Writes(t, status)
  PROVE  /\ task' = [task EXCEPT ![t] = status]
         /\ task'[t] = status
         /\ \A u \in Task \ {t} : task'[u] = task[u]
         /\ \A u \in Task : Interrupted(u) /\ task'[u] = task[u] => Interrupted(u)'
BY DEF Writes, FloorWrite, Forget, Interrupted, Statuses

LEMMA AssignmentIsSteady ==
  ASSUME task \in Statuses, Steady, NEW t \in Task,
         Assign(t) \/ Reassign(t) \/ Unassign(t) \/ ClaimDesign(t)
  PROVE  Steady'
<1>1. CASE Assign(t) \/ Reassign(t)
  <2>1. /\ Writes(t, "ASSIGNED") /\ assigned' = assigned \cup {t}
        /\ UNCHANGED <<session, onHold>>
    BY <1>1 DEF Assign, Reassign, rows
  <2>2. "ASSIGNED" \in TaskStatus
    BY DEF TaskStatus
  <2> QED BY <2>1, <2>2, WritesMoveOne DEF Steady, PausedIsNotHeld, WorkCanGoOn, SessionStatus
<1>2. CASE Unassign(t)
  <2>1. /\ Writes(t, "READY") /\ assigned' = assigned \ {t}
        /\ UNCHANGED <<session, onHold>>
    BY <1>2 DEF Unassign
  <2>2. "READY" \in TaskStatus
    BY DEF TaskStatus
  <2> QED BY <2>1, <2>2, WritesMoveOne DEF Steady, PausedIsNotHeld, WorkCanGoOn, SessionStatus
<1>3. CASE ClaimDesign(t)
  <2>1. t \in Design /\ Writes(t, "IN_PROGRESS") /\ UNCHANGED rows
    BY <1>3 DEF ClaimDesign
  <2>2. "IN_PROGRESS" \in TaskStatus
    BY DEF TaskStatus
  <2> QED BY <2>1, <2>2, WritesMoveOne DEF Steady, PausedIsNotHeld, WorkCanGoOn, SessionStatus, rows
<1> QED BY <1>1, <1>2, <1>3

LEMMA ExecutionIsSteady ==
  ASSUME task \in Statuses, FloorRowsOK, Steady, NEW t \in Task,
         Start(t) \/ Pause(t) \/ Resume(t) \/ Hold(t) \/ ReleaseHold(t)
  PROVE  Steady'
<1>1. PICK status \in SessionStatus :
        /\ Writes(t, status)
        /\ session' = [session EXCEPT ![t] = status]
        /\ status = "ON_HOLD" => t \in onHold'
        /\ \A u \in Task \ {t} : u \in onHold => u \in onHold'
        /\ t \in assigned /\ assigned' = assigned
  BY DEF Start, Pause, Resume, Hold, ReleaseHold, MoveBoth, Working, SessionStatus
<1>2. status \in TaskStatus
  BY DEF SessionStatus, TaskStatus
<1>3. /\ session'[t] = status
      /\ \A u \in Task \ {t} : session'[u] = session[u]
  BY <1>1 DEF FloorRowsOK
<1> QED BY <1>1, <1>2, <1>3, WritesMoveOne DEF Steady, PausedIsNotHeld, WorkCanGoOn, SessionStatus

LEMMA FirstCommitIsSteady ==
  ASSUME FloorRowsOK, Steady, NEW t \in Task,
         CompleteTask(t) \/ FlagOrder(t) \/ SecondCommitFails(t)
         \/ \E verdict \in Verdict : SubmitResult(t, verdict)
  PROVE  Steady'
<1>1. /\ task' = task /\ assigned' = assigned
      /\ \A u \in Task : Interrupted(u) => Interrupted(u)'
  BY DEF CompleteTask, FlagOrder, EndSession, SecondCommitFails, SubmitResult, Interrupted,
         FloorRowsOK, Unfinished, Verdict, vars, rows
<1>2. CASE CompleteTask(t) \/ FlagOrder(t)
  <2>1. /\ session' = [session EXCEPT ![t] = "NONE"] /\ onHold' = onHold \ {t}
        /\ Interrupted(t)'
    BY <1>2 DEF CompleteTask, FlagOrder, EndSession, Interrupted, FloorRowsOK
  <2> QED BY <1>1, <2>1 DEF Steady, PausedIsNotHeld, WorkCanGoOn, FloorRowsOK
<1>3. CASE SecondCommitFails(t) \/ \E verdict \in Verdict : SubmitResult(t, verdict)
  <2>1. UNCHANGED <<session, onHold>>
    BY <1>3 DEF SecondCommitFails, SubmitResult, rows
  <2> QED BY <1>1, <2>1 DEF Steady, PausedIsNotHeld, WorkCanGoOn
<1> QED BY <1>2, <1>3

LEMMA StartInspectionIsSteady ==
  ASSUME task \in Statuses, Steady, NEW q \in Task, StartInspection(q)
  PROVE  Steady'
<1>1. q \in Inspection /\ UNCHANGED <<assigned, session, onHold>>
  BY DEF StartInspection
<1>2. CASE Writes(q, "IN_PROGRESS")
  <2>1. "IN_PROGRESS" \in TaskStatus
    BY DEF TaskStatus
  <2> QED BY <1>1, <1>2, <2>1, WritesMoveOne DEF Steady, PausedIsNotHeld, WorkCanGoOn
<1>3. CASE UNCHANGED <<vars, finishing, lost>>
  BY <1>1, <1>3 DEF Steady, PausedIsNotHeld, WorkCanGoOn, vars, Interrupted
<1> QED BY <1>2, <1>3 DEF StartInspection

(***************************************************************************)
(* The theorems.                                                           *)
(***************************************************************************)

FloorInv == FloorRowsOK /\ Steady

LEMMA FloorInitInvariant == FloorInit => FloorInv
<1> SUFFICES ASSUME FloorInit PROVE FloorInv
  OBVIOUS
<1>1. \A t \in Task : task[t] \in {"SKIPPED", "BLOCKED", "READY"}
  BY DEF FloorInit, Init, Opened
<1> QED BY <1>1 DEF FloorInit, FloorInv, FloorRowsOK, Steady, PausedIsNotHeld, WorkCanGoOn,
                    SessionStatus

LEMMA FloorStepInvariant ==
  ASSUME TypeOK, FloorInv, [FloorNext]_floorVars
  PROVE  FloorInv'
<1>1. task \in Statuses /\ FloorRowsOK /\ Steady
  BY DEF TypeOK, Statuses, FloorInv
<1>2. FloorRowsOK'
  BY <1>1, RowsStayOK DEF Steady
<1>3. Steady'
  <2>1. CASE UNCHANGED floorVars
    BY <1>1, <2>1 DEF floorVars, vars, rows, Steady, PausedIsNotHeld, WorkCanGoOn, Interrupted
  <2>2. CASE EngineAlone
    BY <1>1, <2>2, EngineAloneIsSteady
  <2>3. CASE CancelOrderItem
    BY <1>1, <2>3, CancelIsSteady
  <2>4. ASSUME NEW t \in Task, Assign(t) \/ Reassign(t) \/ Unassign(t) \/ ClaimDesign(t)
        PROVE  Steady'
    BY <1>1, <2>4, AssignmentIsSteady
  <2>5. ASSUME NEW t \in Task, Start(t) \/ Pause(t) \/ Resume(t) \/ Hold(t) \/ ReleaseHold(t)
        PROVE  Steady'
    BY <1>1, <2>5, ExecutionIsSteady
  <2>6. ASSUME NEW t \in Task,
               CompleteTask(t) \/ FlagOrder(t) \/ SecondCommitFails(t)
               \/ \E verdict \in Verdict : SubmitResult(t, verdict)
        PROVE  Steady'
    BY <1>1, <2>6, FirstCommitIsSteady
  <2>7. ASSUME NEW t \in Task, StartInspection(t)
        PROVE  Steady'
    BY <1>1, <2>7, StartInspectionIsSteady
  <2>8. ASSUME NEW t \in Task, SecondCommit(t)
        PROVE  Steady'
    BY <1>1, <2>8, SecondCommitIsSteady
  <2> QED BY <2>1, <2>2, <2>3, <2>4, <2>5, <2>6, <2>7, <2>8 DEF FloorNext
<1> QED BY <1>2, <1>3 DEF FloorInv

\* Each step of the floor is one of the engine or none, so what the engine
\* keeps true stays true on the floor.
LEMMA FloorStepsAreEngineSteps == FloorSpec => Spec
<1>1. FloorInit => Init
  BY DEF FloorInit
<1>2. FloorInit => IInv /\ FloorInv
  BY InitInvariant, FloorInitInvariant DEF FloorInit
<1>3. IInv /\ FloorInv /\ [FloorNext]_floorVars => IInv' /\ FloorInv' /\ [Next]_vars
  BY FloorStepIsEngineStep, FloorStepInvariant, NextInvariant DEF FloorInv, IInv
<1> QED BY <1>1, <1>2, <1>3, PTL DEF FloorSpec, Spec

\* The combined invariant of the floor.
THEOREM FloorInvariantHolds == FloorSpec => [](TypeOK /\ FloorInv)
<1>1. FloorSpec => []TypeOK
  BY FloorStepsAreEngineSteps, TypeCorrect, PTL
<1>2. FloorInit => FloorInv
  BY FloorInitInvariant
<1>3. TypeOK /\ FloorInv /\ [FloorNext]_floorVars => FloorInv'
  BY FloorStepInvariant
<1> QED BY <1>1, <1>2, <1>3, PTL DEF FloorSpec

\* Rows of the floor exist only for the tasks they may exist for.
THEOREM FloorTypeCorrect == FloorSpec => []FloorTypeOK
<1>1. TypeOK /\ FloorInv => FloorTypeOK
  BY DEF FloorInv, FloorRowsOK, FloorTypeOK
<1> QED BY <1>1, FloorInvariantHolds, PTL

\* Begun work can be gone on with by the operator it belongs to, whatever
\* happened to the task in between.
THEOREM BegunWorkCanGoOn == FloorSpec => []WorkCanGoOn
<1>1. TypeOK /\ FloorInv => WorkCanGoOn
  BY DEF FloorInv, Steady
<1> QED BY <1>1, FloorInvariantHolds, PTL

(***************************************************************************)
(* Somebody can act.                                                       *)
(***************************************************************************)

\* What is paused or on hold belongs to somebody, unless quality control
\* holds it.
HeldIsAssigned ==
  \A t \in Task \ assigned :
    task[t] # "PAUSED" /\ (task[t] = "ON_HOLD" => t \in Inspection)

LEMMA HeldStaysAssigned ==
  ASSUME task \in Statuses, FloorRowsOK, HeldIsAssigned, [FloorNext]_floorVars
  PROVE  HeldIsAssigned'
<1>1. CASE UNCHANGED floorVars
  BY <1>1 DEF floorVars, vars, rows, HeldIsAssigned
<1>2. CASE EngineAlone
  BY <1>2, EngineAloneEndsWork DEF EngineAlone, rows, HeldIsAssigned, Worked
<1>3. CASE CancelOrderItem
  <2>1. \A u \in Task : task'[u] = task[u] \/ task'[u] = "CANCELLED"
    BY <1>3 DEF CancelOrderItem, CancelInstance
  <2> QED BY <1>3, <2>1 DEF CancelOrderItem, HeldIsAssigned
<1>4. ASSUME NEW t \in Task, SecondCommit(t) PROVE HeldIsAssigned'
  BY <1>4, SecondCommitEndsWork DEF SecondCommit, rows, HeldIsAssigned, Worked
<1>5. ASSUME NEW t \in Task, NEW status \in TaskStatus, Writes(t, status),
             \/ status \notin {"PAUSED", "ON_HOLD"}
             \/ t \in assigned,
             assigned \ {t} \subseteq assigned' /\ (t \in assigned => t \in assigned' \/ status = "READY")
      PROVE  HeldIsAssigned'
  <2>1. task'[t] = status /\ \A u \in Task \ {t} : task'[u] = task[u]
    BY <1>5, WritesMoveOne
  <2> QED BY <1>5, <2>1 DEF HeldIsAssigned
<1>6. {"ASSIGNED", "READY", "IN_PROGRESS", "PAUSED", "ON_HOLD"} \subseteq TaskStatus
  BY DEF TaskStatus
<1>7. ASSUME NEW t \in Task, Assign(t) \/ Reassign(t) PROVE HeldIsAssigned'
  <2>1. Writes(t, "ASSIGNED") /\ assigned' = assigned \cup {t}
    BY <1>7 DEF Assign, Reassign, rows
  <2> QED BY <1>5, <1>6, <2>1
<1>8. ASSUME NEW t \in Task, Unassign(t) PROVE HeldIsAssigned'
  <2>1. Writes(t, "READY") /\ assigned' = assigned \ {t}
    BY <1>8 DEF Unassign
  <2> QED BY <1>5, <1>6, <2>1
<1>9. ASSUME NEW t \in Task, Start(t) \/ Pause(t) \/ Resume(t) \/ Hold(t) \/ ReleaseHold(t)
      PROVE  HeldIsAssigned'
  <2>1. /\ t \in assigned /\ assigned' = assigned
        /\ \E status \in TaskStatus : Writes(t, status)
    BY <1>6, <1>9 DEF Start, Pause, Resume, Hold, ReleaseHold, MoveBoth, Working
  <2> QED BY <1>5, <2>1
<1>10. ASSUME NEW t \in Task, ClaimDesign(t) PROVE HeldIsAssigned'
  <2>1. Writes(t, "IN_PROGRESS") /\ assigned' = assigned
    BY <1>10 DEF ClaimDesign, rows
  <2> QED BY <1>5, <1>6, <2>1
<1>11. ASSUME NEW t \in Task, StartInspection(t) PROVE HeldIsAssigned'
  <2>1. assigned' = assigned /\ (Writes(t, "IN_PROGRESS") \/ UNCHANGED task)
    BY <1>11 DEF StartInspection, vars
  <2>2. CASE Writes(t, "IN_PROGRESS")
    BY <1>5, <1>6, <2>1, <2>2
  <2>3. CASE UNCHANGED task
    BY <2>1, <2>3 DEF HeldIsAssigned
  <2> QED BY <2>1, <2>2, <2>3
<1>12. ASSUME NEW t \in Task,
              CompleteTask(t) \/ FlagOrder(t) \/ SecondCommitFails(t)
              \/ \E verdict \in Verdict : SubmitResult(t, verdict)
       PROVE  HeldIsAssigned'
  <2>1. task' = task /\ assigned' = assigned
    BY <1>12 DEF CompleteTask, FlagOrder, EndSession, SecondCommitFails, SubmitResult, vars, rows
  <2> QED BY <2>1 DEF HeldIsAssigned
<1> QED BY <1>1, <1>2, <1>3, <1>4, <1>7, <1>8, <1>9, <1>10, <1>11, <1>12 DEF FloorNext

\* For every template whose reviews wait for nothing, any staffing and any
\* requests that die between their commits: the only tasks on which a running
\* workflow can be stuck are those that were sent back, or held by quality
\* control, while nobody was assigned to them.
THEOREM SomeoneStaysAble ==
  ASSUME ReviewsComeFirst
  PROVE  FloorSpec => []SomeoneCanAct
<1>1. ASSUME TypeOK, SomethingIsOpen, HeldIsAssigned PROVE SomeoneCanAct
  <2> SUFFICES ASSUME ~crossed, inst = "RUNNING", \A t \in Task : task[t] # "CANCELLED"
               PROVE  \/ \E t \in Task : ManagerMayComplete(t) \/ MayReassign(t) \/ MayClaim(t)
                      \/ \E t \in Verification : task[t] = "BLOCKED" /\ DependenciesMet(t, task)
                      \/ \E t \in Task : Stranded(t)
    BY DEF SomeoneCanAct
  <2>1. CASE \E t \in Verification : task[t] = "BLOCKED" /\ DependenciesMet(t, task)
    BY <2>1
  <2>2. ASSUME NEW t \in Task, task[t] \in Live \ {"COMPLETED"}
        PROVE  ManagerMayComplete(t) \/ MayReassign(t) \/ MayClaim(t) \/ Stranded(t)
    <3>1. CASE task[t] \in {"READY", "ASSIGNED", "IN_PROGRESS"}
      BY <3>1 DEF ManagerMayComplete, TaskMayMove, TaskTransitions, TaskTerminal
    <3>2. CASE t \in assigned
      BY <2>2, <3>2 DEF MayReassign, Live, TaskTerminal
    <3>3. CASE task[t] = "REWORK" /\ t \notin assigned
      BY <3>3 DEF MayClaim, Stranded
    <3>4. CASE task[t] \in {"PAUSED", "ON_HOLD"} /\ t \notin assigned
      BY <1>1, <3>4 DEF HeldIsAssigned, Stranded
    <3> QED BY <2>2, <3>1, <3>2, <3>3, <3>4 DEF Live
  <2> QED BY <1>1, <2>1, <2>2 DEF SomethingIsOpen
<1>2. FloorSpec => []SomethingIsOpen
  BY FloorStepsAreEngineSteps, SomethingStaysOpen, PTL
<1>3. FloorInit => HeldIsAssigned
  <2> SUFFICES ASSUME FloorInit PROVE HeldIsAssigned
    OBVIOUS
  <2>1. \A t \in Task : task[t] \in {"SKIPPED", "BLOCKED", "READY"}
    BY DEF FloorInit, Init, Opened
  <2> QED BY <2>1 DEF HeldIsAssigned
<1>4. TypeOK /\ FloorInv /\ HeldIsAssigned /\ [FloorNext]_floorVars => HeldIsAssigned'
  BY HeldStaysAssigned DEF TypeOK, Statuses, FloorInv
<1>5. FloorSpec => [](TypeOK /\ HeldIsAssigned)
  BY <1>3, <1>4, FloorInvariantHolds, PTL DEF FloorSpec
<1> QED BY <1>1, <1>2, <1>5, PTL

(***************************************************************************)
(* Transactions: what each client has read, in any overlap.                *)
(***************************************************************************)
FloorTarget == {"READY", "ASSIGNED", "IN_PROGRESS", "PAUSED", "ON_HOLD"}

Advancing == [phase : {"begun", "checked", "written"}, task : Task, target : AdvanceTargets,
              inst : {"INITIALIZED", "RUNNING"}]

Deciding == [phase : {"decided"}, task : Task, target : AdvanceTargets,
             inst : {"INITIALIZED", "RUNNING"}, seen : Statuses]

Cancelling == [phase : {"cancelling"}] \cup [phase : {"listed"}, open : SUBSET Task]

MovingRow == [phase : {"moving"}, task : Task, target : FloorTarget]

Transaction == {Idle} \cup Advancing \cup Deciding \cup Cancelling \cup MovingRow

TransactionsOK == TypeOK /\ tx \in [Client -> Transaction]

\* The phases, and the fields of each.
LEMMA TransactionKinds ==
  ASSUME NEW k \in Transaction
  PROVE  /\ k = Idle => k.phase = "idle"
         /\ k.phase = "idle" => k = Idle
         /\ k.phase \in {"begun", "checked", "written"} => k \in Advancing
         /\ k.phase \in {"begun", "checked", "written", "decided", "moving"} => k.task \in Task
         /\ k.phase \in {"begun", "checked", "written", "decided"} =>
              k.target \in AdvanceTargets /\ k.inst \in {"INITIALIZED", "RUNNING"}
         /\ k.phase = "decided" => k.seen \in Statuses
         /\ k.phase = "listed" => k.open \subseteq Task
         /\ k.phase = "moving" => k.target \in FloorTarget
BY DEF Transaction, Advancing, Deciding, Cancelling, MovingRow, Idle

\* What the floor writes.
LEMMA FloorTargets ==
  ASSUME NEW from, NEW to, <<from, to>> \in FloorMoves
  PROVE  to \in FloorTarget
BY DEF FloorMoves, AssignMoves, ReassignMoves, UnassignMoves, StartMoves, PauseMoves,
   HoldMoves, ResumeMoves, ClaimMoves, FloorTarget

\* The history variables after a commit.
LEMMA RememberKeepsType ==
  ASSUME TypeOK, NEW st \in Statuses, NEW opened \in SUBSET Task,
         task' = st, Remember(st, {}, opened),
         inst' \in {"INITIALIZED", "RUNNING", "COMPLETED", "CANCELLED"}
  PROVE  TypeOK'
BY DEF TypeOK, Remember, Marks, Statuses, Live

\* A transaction that goes on.
LEMMA TransactionMoves ==
  ASSUME TransactionsOK, NEW c \in Client, NEW k \in Transaction, Moves(c, k), TypeOK'
  PROVE  TransactionsOK'
BY DEF TransactionsOK, Moves

LEMMA TypeStays ==
  ASSUME TypeOK, UNCHANGED vars
  PROVE  TypeOK'
BY DEF TypeOK, vars

\* The statuses that the commit of an advance leaves.
LEMMA AdvancedType ==
  ASSUME TransactionsOK, NEW c \in Client, tx[c].phase = "decided"
  PROVE  Advanced(c) \in Statuses
<1>1. tx[c].target \in AdvanceTargets /\ task \in Statuses
  BY TransactionKinds DEF TransactionsOK, TypeOK, Statuses
<1>2. AdvanceTargets \cup {"READY"} \subseteq UsedStatus
  BY DEF AdvanceTargets, UsedStatus, TaskStatus
<1> QED BY <1>1, <1>2 DEF Advanced, Statuses

\* Every step, of any clients.
LEMMA TransactionsStep ==
  TransactionsOK /\ [TransactionsNext]_allVars => TransactionsOK'
<1> SUFFICES ASSUME TransactionsOK, [TransactionsNext]_allVars PROVE TransactionsOK'
  OBVIOUS
<1>1. TypeOK /\ task \in Statuses /\ tx \in [Client -> Transaction]
  BY DEF TransactionsOK, TypeOK, Statuses
<1>2. Idle \in Transaction /\ \A k \in Advancing \cup Deciding \cup Cancelling \cup MovingRow :
                                k \in Transaction
  BY DEF Transaction
<1>3. ASSUME NEW c \in Client, NEW t \in Task, NEW target \in AdvanceTargets,
             ReadInstance(c, t, target)
      PROVE  TransactionsOK'
  <2> DEFINE k == [phase |-> "begun", task |-> t, target |-> target, inst |-> inst]
  <2>1. inst \in {"INITIALIZED", "RUNNING"}
    BY <1>1, <1>3 DEF ReadInstance, TypeOK, InstanceTerminal
  <2>2. k \in Advancing
    BY <2>1 DEF Advancing
  <2> QED BY <1>1, <1>2, <1>3, <2>2, TransactionMoves, TypeStays DEF ReadInstance
<1>4. ASSUME NEW c \in Client, NEW next \in {"checked", "written"},
             tx[c].phase \in {"begun", "checked"},
             Moves(c, [tx[c] EXCEPT !.phase = next]), UNCHANGED vars
      PROVE  TransactionsOK'
  <2>1. tx[c] \in Advancing
    BY <1>1, <1>4, TransactionKinds
  <2>2. [tx[c] EXCEPT !.phase = next] \in Advancing
    BY <2>1 DEF Advancing
  <2> QED BY <1>1, <1>2, <1>4, <2>2, TransactionMoves, TypeStays
<1>5. ASSUME NEW c \in Client, CheckOwnTask(c) \/ WriteOwnTask(c) PROVE TransactionsOK'
  BY <1>4, <1>5 DEF CheckOwnTask, WriteOwnTask
<1>6. ASSUME NEW c \in Client, ReadAllTasks(c) PROVE TransactionsOK'
  <2> DEFINE k == [phase |-> "decided", task |-> tx[c].task, target |-> tx[c].target,
                   inst |-> tx[c].inst, seen |-> StatusesSeen(c)]
  <2>1. /\ tx[c].task \in Task /\ tx[c].target \in AdvanceTargets
        /\ tx[c].inst \in {"INITIALIZED", "RUNNING"}
    BY <1>1, <1>6, TransactionKinds DEF ReadAllTasks
  <2>2. AdvanceTargets \subseteq UsedStatus
    BY DEF AdvanceTargets, UsedStatus, TaskStatus
  <2>3. StatusesSeen(c) \in Statuses
    BY <1>1, <2>1, <2>2 DEF StatusesSeen, Statuses
  <2>4. k \in Deciding
    BY <2>1, <2>3 DEF Deciding
  <2> QED BY <1>1, <1>2, <1>6, <2>4, TransactionMoves, TypeStays DEF ReadAllTasks
<1>7. ASSUME NEW c \in Client, CommitAdvance(c) PROVE TransactionsOK'
  <2>1. tx[c].phase = "decided" /\ tx[c].inst \in {"INITIALIZED", "RUNNING"}
    BY <1>1, <1>7, TransactionKinds DEF CommitAdvance
  <2>2. inst' \in {"INITIALIZED", "RUNNING", "COMPLETED", "CANCELLED"}
    BY <1>1, <1>7, <2>1 DEF CommitAdvance, AdvancedInstance, TypeOK
  <2>3. TypeOK'
    BY <1>1, <1>7, <2>1, <2>2, AdvancedType, RememberKeepsType DEF CommitAdvance
  <2> QED BY <1>2, <1>7, <2>3, TransactionMoves DEF CommitAdvance
<1>8. ASSUME NEW c \in Client, BeginCancel(c) PROVE TransactionsOK'
  <2>1. [phase |-> "cancelling"] \in Cancelling
    BY DEF Cancelling
  <2> QED BY <1>1, <1>2, <1>8, <2>1, TransactionMoves, TypeStays DEF BeginCancel
<1>9. ASSUME NEW c \in Client, ListOpenTasks(c) PROVE TransactionsOK'
  <2>1. [phase |-> "listed", open |-> {t \in Task : task[t] \notin TaskTerminal}] \in Cancelling
    BY DEF Cancelling
  <2> QED BY <1>1, <1>2, <1>9, <2>1, TransactionMoves, TypeStays DEF ListOpenTasks
<1>10. ASSUME NEW c \in Client, CommitCancel(c) PROVE TransactionsOK'
  <2>1. task' \in Statuses
    BY <1>1, <1>10 DEF CommitCancel, Statuses, UsedStatus, TaskStatus
  <2>2. TypeOK'
    BY <1>1, <1>10, <2>1, RememberKeepsType DEF CommitCancel
  <2> QED BY <1>2, <1>10, <2>2, TransactionMoves DEF CommitCancel
<1>11. ASSUME NEW c \in Client, NEW t \in Task, NEW status \in TaskStatus,
              CheckFloorMove(c, t, status)
       PROVE  TransactionsOK'
  <2>1. [phase |-> "moving", task |-> t, target |-> status] \in MovingRow
    BY <1>11, FloorTargets DEF CheckFloorMove, MovingRow
  <2> QED BY <1>1, <1>2, <1>11, <2>1, TransactionMoves, TypeStays DEF CheckFloorMove
<1>12. ASSUME NEW c \in Client, CommitFloorMove(c) PROVE TransactionsOK'
  <2>1. tx[c].task \in Task /\ tx[c].target \in FloorTarget
    BY <1>1, <1>12, TransactionKinds DEF CommitFloorMove
  <2>2. task' \in Statuses
    BY <1>1, <1>12, <2>1 DEF CommitFloorMove, Statuses, FloorTarget, UsedStatus, TaskStatus
  <2>3. PICK opened \in SUBSET Task : Remember(task', {}, opened)
    BY <1>12, <2>1 DEF CommitFloorMove
  <2>4. TypeOK'
    BY <1>1, <1>12, <2>2, <2>3, RememberKeepsType DEF CommitFloorMove, TypeOK
  <2> QED BY <1>2, <1>12, <2>4, TransactionMoves DEF CommitFloorMove
<1>13. ASSUME NEW c \in Client, Abort(c) PROVE TransactionsOK'
  BY <1>1, <1>2, <1>13, TransactionMoves, TypeStays DEF Abort
<1>14. CASE UNCHANGED allVars
  BY <1>1, <1>14, TypeStays DEF allVars, TransactionsOK
<1> QED BY <1>3, <1>5, <1>6, <1>7, <1>8, <1>9, <1>10, <1>11, <1>12, <1>13, <1>14
        DEF TransactionsNext, AdvanceStatements

LEMMA TransactionsInitOK == TransactionsInit => TransactionsOK
BY InitInvariant DEF TransactionsInit, TransactionsOK, IInv, Transaction

\* However many requests overlap, statuses keep to those the engine writes,
\* and what a transaction carries from statement to statement keeps its shape.
THEOREM TransactionsTypeCorrect == TransactionsSpec => []TransactionsTypeOK
<1>1. TransactionsOK => TransactionsTypeOK
  BY TransactionKinds DEF TransactionsOK, TransactionsTypeOK, Statuses
<1> QED BY <1>1, TransactionsInitOK, TransactionsStep, PTL DEF TransactionsSpec

(***************************************************************************)
(* Requests that come one at a time.                                       *)
(***************************************************************************)

\* What a transaction has read is still so.
Current(c) ==
  LET k == tx[c]
  IN  /\ k.phase \in {"begun", "checked", "written", "decided"} =>
           k.inst = inst /\ inst \notin InstanceTerminal
      /\ k.phase \in {"checked", "written", "decided"} => TaskMayMove(task[k.task], k.target)
      /\ k.phase = "decided" => k.seen = [task EXCEPT ![k.task] = k.target]
      /\ k.phase \in {"cancelling", "listed"} => inst \notin InstanceTerminal
      /\ k.phase = "listed" => k.open = {t \in Task : task[t] \notin TaskTerminal}
      /\ k.phase = "moving" => <<task[k.task], k.target>> \in FloorMoves

\* A commit on what is still so is a step of the engine.
LEMMA CurrentCommit ==
  ASSUME TransactionsOK, NEW c \in Client, Current(c),
         CommitAdvance(c) \/ CommitCancel(c) \/ CommitFloorMove(c)
  PROVE  Next
<1>1. tx[c] \in Transaction /\ task \in Statuses
  BY DEF TransactionsOK, TypeOK, Statuses
<1>2. CASE CommitAdvance(c)
  <2>1. PICK t \in Task, target \in AdvanceTargets : t = tx[c].task /\ target = tx[c].target
    BY <1>1, <1>2, TransactionKinds DEF CommitAdvance
  <2> DEFINE st == [task EXCEPT ![t] = target]
  <2>2. /\ inst \notin InstanceTerminal /\ tx[c].inst = inst
        /\ TaskMayMove(task[t], target)
        /\ tx[c].seen = st
    BY <1>2, <2>1 DEF CommitAdvance, Current
  <2>3. st[t] = target /\ target \notin Unopened /\ \A u \in Task \ {t} : st[u] = task[u]
    BY <1>1 DEF Statuses, AdvanceTargets, Unopened
  <2>4. Advanced(c) = Opened(st)
    <3> HIDE DEF st
    <3>1. t \notin ReadyTasks(st)
      BY <2>3 DEF ReadyTasks
    <3> QED BY <2>1, <2>2, <2>3, <3>1 DEF Advanced, Opened
  <2>5. inst' = AdvancedInstance(inst, st) /\ InstanceMayMove(inst, AdvancedInstance(inst, st))
    <3> HIDE DEF st
    <3> QED BY <1>2, <2>2 DEF CommitAdvance
  <2>6. task' = Opened(st) /\ Remember(Opened(st), {}, {})
    BY <1>2, <2>4 DEF CommitAdvance
  <2>7. Advance(t, target)
    BY <2>2, <2>5, <2>6 DEF Advance
  <2> QED BY <2>7 DEF Next
<1>3. CASE CommitCancel(c)
  <2>1. /\ inst \notin InstanceTerminal
        /\ tx[c].open = {t \in Task : task[t] \notin TaskTerminal}
    BY <1>3 DEF CommitCancel, Current
  <2>2. InstanceMayMove(inst, "CANCELLED")
    BY <2>1 DEF TransactionsOK, TypeOK, InstanceTerminal, InstanceMayMove, InstanceTransitions
  <2>3. task' = [t \in Task |-> IF task[t] \in TaskTerminal THEN task[t] ELSE "CANCELLED"]
    BY <1>3, <2>1 DEF CommitCancel
  <2> QED BY <1>3, <2>1, <2>2, <2>3 DEF CommitCancel, CancelInstance, Next
<1>4. CASE CommitFloorMove(c)
  <2>1. PICK t \in Task, status \in FloorTarget : t = tx[c].task /\ status = tx[c].target
    BY <1>1, <1>4, TransactionKinds DEF CommitFloorMove
  <2>2. FloorTarget \subseteq TaskStatus
    BY DEF FloorTarget, TaskStatus
  <2>3. FloorWrite(t, status)
    BY <1>4, <2>1 DEF CommitFloorMove, Current, FloorWrite
  <2> QED BY <2>1, <2>2, <2>3 DEF Next
<1> QED BY <1>2, <1>3, <1>4

\* The client that is alone reads what is so until it commits.
LEMMA AloneStaysCurrent ==
  ASSUME TransactionsOK, NEW c \in Client, \A d \in Client : d = c, Current(c),
         [TransactionsNext]_allVars
  PROVE  Current(c)' /\ [Next]_vars
<1>1. tx \in [Client -> Transaction]
  BY DEF TransactionsOK
<1>2. ASSUME NEW k, Moves(c, k) PROVE tx'[c] = k
  BY <1>1, <1>2 DEF Moves
<1>3. ASSUME Moves(c, Idle) PROVE Current(c)'
  BY <1>2, <1>3 DEF Current, Idle
<1>4. ASSUME NEW t \in Task, NEW target \in AdvanceTargets, ReadInstance(c, t, target)
      PROVE  Current(c)'
  BY <1>2, <1>4 DEF ReadInstance, Current, vars
<1>5. ASSUME CheckOwnTask(c) \/ WriteOwnTask(c) PROVE Current(c)'
  <2>1. PICK next \in {"checked", "written"} :
          /\ Moves(c, [tx[c] EXCEPT !.phase = next])
          /\ UNCHANGED vars
          /\ tx[c].phase \in {"begun", "checked"}
    BY <1>5 DEF CheckOwnTask, WriteOwnTask
  <2>2. TaskMayMove(task[tx[c].task], tx[c].target)
    BY <1>5 DEF CheckOwnTask, WriteOwnTask, Current
  <2>3. tx[c] \in Advancing
    BY <1>1, <2>1, TransactionKinds
  <2>4. /\ tx'[c].phase \in {"checked", "written"}
        /\ tx'[c].task = tx[c].task /\ tx'[c].target = tx[c].target /\ tx'[c].inst = tx[c].inst
    BY <1>2, <2>1, <2>3 DEF Advancing
  <2> QED BY <2>1, <2>2, <2>4 DEF Current, vars
<1>6. ASSUME ReadAllTasks(c) PROVE Current(c)'
  <2>1. /\ tx'[c] = [phase |-> "decided", task |-> tx[c].task, target |-> tx[c].target,
                     inst |-> tx[c].inst, seen |-> StatusesSeen(c)]
        /\ UNCHANGED vars /\ tx[c].phase = "written"
    BY <1>2, <1>6 DEF ReadAllTasks
  <2> QED BY <2>1 DEF Current, StatusesSeen, vars
<1>7. ASSUME BeginCancel(c) \/ ListOpenTasks(c) PROVE Current(c)'
  BY <1>2, <1>7 DEF BeginCancel, ListOpenTasks, Current, vars
<1>8. ASSUME NEW t \in Task, NEW status \in TaskStatus, CheckFloorMove(c, t, status)
      PROVE  Current(c)'
  BY <1>2, <1>8 DEF CheckFloorMove, Current, vars
<1>9. CASE UNCHANGED allVars
  BY <1>9 DEF allVars, Current, vars
<1>10. ASSUME CommitAdvance(c) \/ CommitCancel(c) \/ CommitFloorMove(c)
       PROVE  Current(c)' /\ Next
  BY <1>3, <1>10, CurrentCommit DEF CommitAdvance, CommitCancel, CommitFloorMove
<1>11. ASSUME Abort(c) PROVE Current(c)' /\ UNCHANGED vars
  BY <1>3, <1>11 DEF Abort
<1>12. ASSUME NEW t \in Task, NEW target \in AdvanceTargets, ReadInstance(c, t, target)
       PROVE  UNCHANGED vars
  BY <1>12 DEF ReadInstance
<1>13. ASSUME NEW t \in Task, NEW status \in TaskStatus, CheckFloorMove(c, t, status)
       PROVE  UNCHANGED vars
  BY <1>13 DEF CheckFloorMove
<1>14. ASSUME CheckOwnTask(c) \/ WriteOwnTask(c) \/ ReadAllTasks(c) \/ BeginCancel(c)
              \/ ListOpenTasks(c)
       PROVE  UNCHANGED vars
  BY <1>14 DEF CheckOwnTask, WriteOwnTask, ReadAllTasks, BeginCancel, ListOpenTasks
<1>15. CASE TransactionsNext
  BY <1>4, <1>5, <1>6, <1>7, <1>8, <1>10, <1>11, <1>12, <1>13, <1>14, <1>15
     DEF TransactionsNext, AdvanceStatements
<1> QED BY <1>9, <1>15 DEF allVars

\* Requests that come one at a time, each of which may fail after any
\* statement, add up to the engine.
THEOREM OneAtATimeIsTheEngine ==
  ASSUME \A c, d \in Client : c = d
  PROVE  TransactionsSpec => Spec
<1> DEFINE AllCurrent == \A c \in Client : Current(c)
<1>1. TransactionsInit => TransactionsOK /\ AllCurrent
  BY TransactionsInitOK DEF TransactionsInit, Current, Idle
<1>2. TransactionsOK /\ AllCurrent /\ [TransactionsNext]_allVars => AllCurrent' /\ [Next]_vars
  <2> SUFFICES ASSUME TransactionsOK, AllCurrent, [TransactionsNext]_allVars
               PROVE  AllCurrent' /\ [Next]_vars
    OBVIOUS
  <2>1. CASE UNCHANGED allVars
    BY <2>1, AloneStaysCurrent DEF allVars
  <2>2. ASSUME NEW c \in Client PROVE Current(c)' /\ [Next]_vars
    BY AloneStaysCurrent
  <2>3. TransactionsNext => \E c \in Client : TRUE
    BY DEF TransactionsNext
  <2> QED BY <2>1, <2>2, <2>3
<1>3. TransactionsInit => Init
  BY DEF TransactionsInit
<1> HIDE DEF AllCurrent
<1> QED BY <1>1, <1>2, <1>3, TransactionsStep, PTL DEF TransactionsSpec, Spec

(***************************************************************************)
(* Concurrent completions, in a template where no task waits for more than *)
(* one other: the activation that follows a completion is not lost.        *)
(***************************************************************************)
OnePrerequisite == \A d, e \in Dependency : d.task = e.task => d.on = e.on

WaitsFor(t, p) == \E d \in Dependency : d.task = t /\ d.on = p

CompleteStatus == {"BLOCKED", "READY", "COMPLETED", "SKIPPED"}

\* Clients only complete; what waits for nothing more is open, and a client
\* that is about to complete a task is about to open all that waits for it.
OpeningOK ==
  /\ task \in [Task -> CompleteStatus]
  /\ \A c \in Client :
       /\ tx[c].phase \in {"idle", "begun", "checked", "written", "decided"}
       /\ tx[c].phase # "idle" => tx[c].target = "COMPLETED"
  /\ \A t \in Task : task[t] = "BLOCKED" => ~DependenciesMet(t, task)
  /\ \A c \in Client, t \in Task :
       tx[c].phase = "decided" /\ task[t] = "BLOCKED" /\ WaitsFor(t, tx[c].task) =>
         t \in ReadyTasks(tx[c].seen)

LEMMA CompleteIsTransactions == [CompleteNext]_allVars => [TransactionsNext]_allVars
<1>1. "COMPLETED" \in AdvanceTargets
  BY DEF AdvanceTargets
<1> QED BY <1>1 DEF CompleteNext, TransactionsNext

\* What a step that completes nothing leaves alone.
LEMMA ReadingLeaves ==
  ASSUME NEW c \in Client,
         \/ \E t \in Task : ReadInstance(c, t, "COMPLETED")
         \/ CheckOwnTask(c) \/ WriteOwnTask(c) \/ ReadAllTasks(c) \/ Abort(c)
  PROVE  UNCHANGED vars
BY DEF ReadInstance, CheckOwnTask, WriteOwnTask, ReadAllTasks, Abort

\* How a client goes on, short of its commit, and that the others stay.
LEMMA CompletingMoves ==
  ASSUME TransactionsOK, OpeningOK, NEW c \in Client,
         \/ \E t \in Task : ReadInstance(c, t, "COMPLETED")
         \/ CheckOwnTask(c) \/ WriteOwnTask(c) \/ ReadAllTasks(c) \/ Abort(c)
  PROVE  /\ \A d \in Client \ {c} : tx'[d] = tx[d]
         /\ tx'[c].phase \in {"idle", "begun", "checked", "written", "decided"}
         /\ tx'[c].phase # "idle" => tx'[c].target = "COMPLETED"
         /\ tx'[c].phase = "begun" => tx'[c].inst = inst
         /\ tx'[c].phase \in {"checked", "written", "decided"} =>
              tx'[c].task = tx[c].task /\ tx'[c].inst = tx[c].inst
         /\ tx'[c].phase = "checked" =>
              tx[c].phase = "begun" /\ TaskMayMove(task[tx[c].task], "COMPLETED")
         /\ tx'[c].phase \in {"written", "decided"} =>
              tx[c].phase \in {"checked", "written"}
         /\ tx'[c].phase = "written" => ~Locked(tx[c].task, c)
         /\ tx'[c].phase = "decided" =>
              /\ tx[c].phase = "written"
              /\ tx'[c].seen = [task EXCEPT ![tx[c].task] = "COMPLETED"]
<1>1. tx \in [Client -> Transaction] /\ tx[c] \in Transaction
  BY DEF TransactionsOK
<1>2. ASSUME NEW k, Moves(c, k) PROVE tx'[c] = k /\ \A d \in Client \ {c} : tx'[d] = tx[d]
  BY <1>1, <1>2 DEF Moves
<1>3. CASE \E t \in Task : ReadInstance(c, t, "COMPLETED")
  BY <1>2, <1>3 DEF ReadInstance
<1>4. CASE CheckOwnTask(c)
  <2>1. /\ Moves(c, [tx[c] EXCEPT !.phase = "checked"]) /\ tx[c] \in Advancing
        /\ tx[c].phase = "begun"
        /\ TaskMayMove(task[tx[c].task], tx[c].target) /\ tx[c].target = "COMPLETED"
    BY <1>1, <1>4, TransactionKinds DEF CheckOwnTask, OpeningOK
  <2> QED BY <1>2, <2>1 DEF Advancing
<1>5. CASE WriteOwnTask(c)
  <2>1. /\ Moves(c, [tx[c] EXCEPT !.phase = "written"]) /\ tx[c] \in Advancing
        /\ tx[c].phase = "checked"
        /\ ~Locked(tx[c].task, c) /\ tx[c].target = "COMPLETED"
    BY <1>1, <1>5, TransactionKinds DEF WriteOwnTask, OpeningOK
  <2> QED BY <1>2, <2>1 DEF Advancing
<1>6. CASE ReadAllTasks(c)
  <2>1. /\ tx'[c] = [phase |-> "decided", task |-> tx[c].task, target |-> tx[c].target,
                     inst |-> tx[c].inst, seen |-> StatusesSeen(c)]
        /\ tx[c].phase = "written" /\ tx[c].target = "COMPLETED"
        /\ \A d \in Client \ {c} : tx'[d] = tx[d]
    BY <1>2, <1>6 DEF ReadAllTasks, OpeningOK
  <2> QED BY <2>1 DEF StatusesSeen
<1>7. CASE Abort(c)
  BY <1>2, <1>7 DEF Abort, Idle
<1> QED BY <1>3, <1>4, <1>5, <1>6, <1>7

\* What waits for a task becomes ready when it is seen complete.
LEMMA SeenReady ==
  ASSUME OnePrerequisite, task \in [Task -> CompleteStatus], NEW p \in Task, NEW t \in Task,
         task[t] = "BLOCKED", WaitsFor(t, p)
  PROVE  t \in ReadyTasks([task EXCEPT ![p] = "COMPLETED"])
<1> DEFINE seen == [task EXCEPT ![p] = "COMPLETED"]
<1>1. \A d \in Dependency : d.task = t => d.on = p
  BY DEF OnePrerequisite, WaitsFor
<1>2. t # p
  <2>1. PICK d \in Dependency : d.task = t /\ d.on = p
    BY DEF WaitsFor
  <2>2. StepOrder[p] < StepOrder[t] /\ StepOrder[p] \in Nat
    BY <2>1, DependencyOrdered, StepOrderUnique
  <2> QED BY <2>2
<1>3. seen[p] = "COMPLETED" /\ seen[t] = "BLOCKED"
  BY <1>2
<1>4. DependenciesMet(t, seen)
  BY <1>1, <1>3 DEF DependenciesMet, Satisfies
<1> QED BY <1>3, <1>4 DEF ReadyTasks, Unopened

\* A commit opens everything that waited for its task and for nothing else.
LEMMA CommitOpens ==
  ASSUME TransactionsOK, OpeningOK, NEW c \in Client, CommitAdvance(c)
  PROVE  OpeningOK'
<1> DEFINE p == tx[c].task
           R == ReadyTasks(tx[c].seen)
<1>1. tx \in [Client -> Transaction] /\ p \in Task /\ tx[c].phase = "decided"
  BY TransactionKinds DEF CommitAdvance, TransactionsOK
<1>2. \A t \in Task : task'[t] = IF t = p THEN "COMPLETED" ELSE IF t \in R THEN "READY" ELSE task[t]
  BY <1>1 DEF CommitAdvance, Advanced, OpeningOK
<1>3. tx' = [tx EXCEPT ![c] = Idle]
  BY DEF CommitAdvance, Moves
<1>4. \A d \in Client : tx'[d] = IF d = c THEN Idle ELSE tx[d]
  BY <1>1, <1>3
<1>5. task' \in [Task -> CompleteStatus]
  BY <1>1 DEF CommitAdvance, Advanced, OpeningOK, CompleteStatus
<1> HIDE DEF p, R
<1>6. ASSUME NEW t \in Task, task'[t] = "BLOCKED"
      PROVE  task[t] = "BLOCKED" /\ t # p /\ t \notin R
  BY <1>2, <1>6
<1>7. ASSUME NEW t \in Task, task'[t] = "BLOCKED" PROVE ~DependenciesMet(t, task')
  <2>1. PICK d \in Dependency : d.task = t /\ ~Satisfies(d.kind, task[d.on])
    BY <1>6, <1>7 DEF OpeningOK, DependenciesMet
  <2>2. d.on # p
    BY <1>1, <1>6, <1>7, <2>1 DEF OpeningOK, WaitsFor, p, R
  <2>3. d.on \in Task
    BY DependencyOrdered
  <2>4. task'[d.on] \in {task[d.on], "READY"}
    BY <1>2, <2>2, <2>3
  <2>5. ~Satisfies(d.kind, task'[d.on])
    BY <2>1, <2>4 DEF Satisfies
  <2> QED BY <2>1, <2>5 DEF DependenciesMet
<1>8. \A d \in Client : /\ tx'[d].phase \in {"idle", "begun", "checked", "written", "decided"}
                        /\ tx'[d].phase # "idle" => tx'[d].target = "COMPLETED"
  BY <1>4 DEF OpeningOK, Idle
<1>9. ASSUME NEW d \in Client, NEW t \in Task,
             tx'[d].phase = "decided", task'[t] = "BLOCKED", WaitsFor(t, tx'[d].task)
      PROVE  t \in ReadyTasks(tx'[d].seen)
  <2>1. tx'[d] = tx[d]
    BY <1>4, <1>9 DEF Idle
  <2> QED BY <1>6, <1>9, <2>1 DEF OpeningOK
<1> QED BY <1>5, <1>7, <1>8, <1>9 DEF OpeningOK, DependenciesMet, ReadyTasks, WaitsFor

LEMMA OpeningStep ==
  ASSUME OnePrerequisite, TransactionsOK, OpeningOK, [CompleteNext]_allVars
  PROVE  OpeningOK'
<1>1. ASSUME NEW c \in Client,
             \/ \E t \in Task : ReadInstance(c, t, "COMPLETED")
             \/ CheckOwnTask(c) \/ WriteOwnTask(c) \/ ReadAllTasks(c) \/ Abort(c)
      PROVE  OpeningOK'
  <2>1. task' = task
    BY <1>1, ReadingLeaves DEF vars
  <2>2. /\ \A d \in Client \ {c} : tx'[d] = tx[d]
        /\ tx'[c].phase \in {"idle", "begun", "checked", "written", "decided"}
        /\ tx'[c].phase # "idle" => tx'[c].target = "COMPLETED"
        /\ tx'[c].phase = "decided" =>
             /\ tx[c].phase = "written" /\ tx'[c].task = tx[c].task
             /\ tx'[c].seen = [task EXCEPT ![tx[c].task] = "COMPLETED"]
    BY <1>1, CompletingMoves
  <2>3. ASSUME NEW t \in Task, tx'[c].phase = "decided", task[t] = "BLOCKED",
               WaitsFor(t, tx'[c].task)
        PROVE  t \in ReadyTasks(tx'[c].seen)
    <3>1. tx[c].task \in Task
      BY <2>2, <2>3, TransactionKinds DEF TransactionsOK
    <3> QED BY <2>2, <2>3, <3>1, SeenReady DEF OpeningOK
  <2>4. \A d \in Client, t \in Task :
          tx'[d].phase = "decided" /\ task'[t] = "BLOCKED" /\ WaitsFor(t, tx'[d].task) =>
            t \in ReadyTasks(tx'[d].seen)
    BY <2>1, <2>2, <2>3 DEF OpeningOK
  <2>5. \A d \in Client : /\ tx'[d].phase \in {"idle", "begun", "checked", "written", "decided"}
                          /\ tx'[d].phase # "idle" => tx'[d].target = "COMPLETED"
    BY <2>2 DEF OpeningOK
  <2> QED BY <2>1, <2>4, <2>5 DEF OpeningOK, DependenciesMet, ReadyTasks, WaitsFor
<1>2. ASSUME NEW c \in Client, CommitAdvance(c) PROVE OpeningOK'
  BY <1>2, CommitOpens
<1>3. CASE UNCHANGED allVars
  BY <1>3 DEF allVars, vars, OpeningOK, DependenciesMet, ReadyTasks, WaitsFor
<1> QED BY <1>1, <1>2, <1>3 DEF CompleteNext, AdvanceStatements

LEMMA OpeningInit == TransactionsInit => OpeningOK
<1> SUFFICES ASSUME TransactionsInit PROVE OpeningOK
  OBVIOUS
<1>1. PICK skipped \in SUBSET Skippable :
        task = Opened([t \in Task |-> IF t \in skipped THEN "SKIPPED" ELSE "BLOCKED"])
  BY DEF TransactionsInit, Init
<1> DEFINE created == [t \in Task |-> IF t \in skipped THEN "SKIPPED" ELSE "BLOCKED"]
<1>2. \A t \in Task : created[t] \in {"SKIPPED", "BLOCKED"}
  OBVIOUS
<1> HIDE DEF created
<1>3. task = [t \in Task |-> IF t \in ReadyTasks(created) THEN "READY" ELSE created[t]]
  BY <1>1 DEF Opened, created
<1>4. task \in [Task -> CompleteStatus]
  BY <1>2, <1>3 DEF CompleteStatus
<1>5. ASSUME NEW t \in Task, task[t] = "BLOCKED" PROVE ~DependenciesMet(t, task)
  <2>1. created[t] = "BLOCKED" /\ t \notin ReadyTasks(created)
    BY <1>3, <1>5
  <2>2. PICK d \in Dependency : d.task = t /\ ~Satisfies(d.kind, created[d.on])
    BY <2>1 DEF ReadyTasks, DependenciesMet, Unopened
  <2>3. d.on \in Task /\ task[d.on] \in {created[d.on], "READY"}
    BY <1>3, DependencyOrdered
  <2> QED BY <2>2, <2>3 DEF DependenciesMet, Satisfies
<1>6. \A c \in Client : tx[c] = Idle
  BY DEF TransactionsInit
<1> QED BY <1>4, <1>5, <1>6 DEF OpeningOK, Idle

\* However the completions of tasks overlap and fail: in a template in which
\* no task waits for more than one other, a task whose prerequisites are
\* finished has been opened.  Where two branches meet it may be opened by
\* neither completion, which the run on such a template finds.
THEOREM ActivationIsNotLost ==
  ASSUME OnePrerequisite
  PROVE  CompleteSpec => []FinishedPrerequisitesOpen
<1>1. OpeningOK => FinishedPrerequisitesOpen
  BY DEF OpeningOK, FinishedPrerequisitesOpen
<1>2. TransactionsOK /\ OpeningOK /\ [CompleteNext]_allVars => TransactionsOK' /\ OpeningOK'
  BY OpeningStep, TransactionsStep, CompleteIsTransactions
<1> QED BY <1>1, <1>2, TransactionsInitOK, OpeningInit, PTL DEF CompleteSpec

(***************************************************************************)
(* Concurrent completions of a chain: together they are the engine.        *)
(***************************************************************************)

\* Every task but the first waits for the one just before it, and only the
\* first may be skipped when the workflow is created.
ChainOfTasks ==
  /\ OnePrerequisite
  /\ \A t \in Task : Before(t) # {} => \E p \in Highest(Before(t)) : WaitsFor(t, p)
  /\ \A t \in Skippable : Before(t) = {}

\* The two kinds of client that is about to commit: it completes the open
\* task and has seen all others as they are, or the task was completed before
\* and the commit changes nothing.
Completes(c) ==
  /\ task[tx[c].task] = "READY"
  /\ tx[c].seen = [task EXCEPT ![tx[c].task] = "COMPLETED"]

Repeats(c) ==
  /\ task[tx[c].task] = "COMPLETED"
  /\ ReadyTasks(tx[c].seen) = {}
  /\ AllDone(tx[c].seen) => AllDone(task)

ClientOK(c) ==
  /\ tx[c].phase \in {"begun", "checked", "written", "decided"}
     /\ tx[c].inst = "INITIALIZED" => inst = "INITIALIZED"
  /\ tx[c].phase \in {"checked", "written", "decided"} =>
       task[tx[c].task] \in {"READY", "COMPLETED"}
  /\ tx[c].phase = "decided" => Completes(c) \/ Repeats(c)

\* The tasks of a chain finish in its order.
InOrder ==
  \A t, u \in Task : StepOrder[t] < StepOrder[u] /\ task[u] # "BLOCKED" =>
    task[t] \in {"COMPLETED", "SKIPPED"}

InstanceOK ==
  /\ ~crossed
  /\ inst \in {"INITIALIZED", "RUNNING", "COMPLETED"}
  /\ inst = "INITIALIZED" => \A t \in Task : task[t] \notin {"READY", "COMPLETED"}
  /\ inst = "RUNNING" => ~AllDone(task)

\* Row locks: no two clients have written the same task.
RowsApart ==
  \A c, d \in Client :
    c # d /\ tx[c].phase \in {"written", "decided"} /\ tx[d].phase \in {"written", "decided"}
      => tx[c].task # tx[d].task

ChainOK == InOrder /\ InstanceOK /\ RowsApart /\ \A c \in Client : ClientOK(c)

\* No two tasks of a chain are open.
LEMMA OneIsOpen ==
  ASSUME ChainOK, NEW t \in Task, NEW u \in Task, task[t] = "READY", task[u] = "READY"
  PROVE  t = u
<1>1. StepOrder[t] \in Nat /\ StepOrder[u] \in Nat
  BY StepOrderUnique
<1>2. ~(StepOrder[t] < StepOrder[u]) /\ ~(StepOrder[u] < StepOrder[t])
  BY DEF ChainOK, InOrder
<1>3. StepOrder[t] = StepOrder[u]
  BY <1>1, <1>2
<1> QED BY <1>3, StepOrderUnique

\* What a commit that completes the open task sees and does.
LEMMA CompletesOpen ==
  ASSUME ChainOfTasks, TransactionsOK, OpeningOK, ChainOK, NEW c \in Client,
         CommitAdvance(c), Completes(c)
  PROVE  /\ \A u \in ReadyTasks(tx[c].seen) : task[u] = "BLOCKED" /\ WaitsFor(u, tx[c].task)
         /\ \A t \in Task : task[t] \in {"COMPLETED", "SKIPPED"} => task'[t] = task[t]
<1> DEFINE p == tx[c].task
           seen == tx[c].seen
<1>1. p \in Task /\ tx[c].target = "COMPLETED"
  BY TransactionKinds DEF CommitAdvance, TransactionsOK, OpeningOK
<1>2. seen = [task EXCEPT ![p] = "COMPLETED"] /\ task[p] = "READY"
  BY DEF Completes
<1>3. \A t \in Task : /\ task[t] \in CompleteStatus
                      /\ seen[t] = IF t = p THEN "COMPLETED" ELSE task[t]
  BY <1>2 DEF OpeningOK
<1>4. \A t \in Task : task'[t] = IF t = p THEN "COMPLETED"
                                 ELSE IF t \in ReadyTasks(seen) THEN "READY" ELSE task[t]
  BY <1>1 DEF CommitAdvance, Advanced
<1> HIDE DEF p, seen
<1>5. ASSUME NEW u \in ReadyTasks(seen) PROVE task[u] = "BLOCKED" /\ WaitsFor(u, p)
  <2>1. u \in Task /\ seen[u] \in Unopened /\ DependenciesMet(u, seen)
    BY DEF ReadyTasks
  <2>2. task[u] = "BLOCKED"
    BY <1>3, <2>1 DEF Unopened, CompleteStatus
  <2>3. PICK d \in Dependency : d.task = u /\ ~Satisfies(d.kind, task[d.on])
    BY <2>1, <2>2 DEF OpeningOK, DependenciesMet
  <2>4. d.on \in Task /\ Satisfies(d.kind, seen[d.on])
    BY <2>1, <2>3, DependencyOrdered DEF DependenciesMet
  <2>5. d.on = p
    BY <1>3, <2>3, <2>4
  <2> QED BY <2>2, <2>3, <2>5 DEF WaitsFor
<1>6. ASSUME NEW t \in Task, task[t] \in {"COMPLETED", "SKIPPED"} PROVE task'[t] = task[t]
  BY <1>2, <1>4, <1>5, <1>6
<1> QED BY <1>5, <1>6 DEF p, seen

\* Such a commit is a step of the engine.
LEMMA CompletesIsEngine ==
  ASSUME TransactionsOK, OpeningOK, IInv, ChainOK, NEW c \in Client,
         CommitAdvance(c), Completes(c)
  PROVE  Next /\ inst = "RUNNING" /\ inst' = AdvancedInstance("RUNNING", tx[c].seen)
<1>1. tx[c].phase = "decided" /\ tx[c].target = "COMPLETED"
  BY DEF CommitAdvance, OpeningOK
<1>2. tx[c].task \in Task /\ tx[c].inst \in {"INITIALIZED", "RUNNING"}
  BY <1>1, TransactionKinds DEF TransactionsOK
<1>3. task[tx[c].task] = "READY" /\ tx[c].seen = [task EXCEPT ![tx[c].task] = "COMPLETED"]
  BY DEF Completes
<1>4. inst # "INITIALIZED"
  BY <1>2, <1>3 DEF ChainOK, InstanceOK, ClientOK
<1>5. inst # "COMPLETED"
  BY <1>2, <1>3 DEF IInv, EndedIsSettled, AllDone, CountsAsDone, ChainOK, InstanceOK
<1>6. inst = "RUNNING" /\ tx[c].inst = "RUNNING"
  BY <1>1, <1>2, <1>4, <1>5 DEF ChainOK, InstanceOK, ClientOK
<1>7. TaskMayMove("READY", "COMPLETED") /\ inst \notin InstanceTerminal
  BY <1>6 DEF TaskMayMove, TaskTransitions, InstanceTerminal
<1>8. Current(c)
  BY <1>1, <1>3, <1>6, <1>7 DEF Current
<1>9. inst' = AdvancedInstance("RUNNING", tx[c].seen)
  BY <1>6 DEF CommitAdvance
<1> QED BY <1>6, <1>8, <1>9, CurrentCommit

\* A completion that is repeated changes nothing.
LEMMA RepeatsNothing ==
  ASSUME TransactionsOK, OpeningOK, ChainOK, NEW c \in Client, CommitAdvance(c), Repeats(c)
  PROVE  UNCHANGED vars
<1>1. tx[c].phase = "decided" /\ tx[c].target = "COMPLETED"
  BY DEF CommitAdvance, OpeningOK
<1>2. tx[c].task \in Task /\ tx[c].inst \in {"INITIALIZED", "RUNNING"}
  BY <1>1, TransactionKinds DEF TransactionsOK
<1>3. task[tx[c].task] = "COMPLETED" /\ ReadyTasks(tx[c].seen) = {}
  BY DEF Repeats
<1>4. Advanced(c) = task
  BY <1>1, <1>3 DEF Advanced, OpeningOK
<1>5. flagged' = flagged /\ early' = early /\ crossed' = crossed
  BY <1>4 DEF CommitAdvance, Remember, Marks, TransactionsOK, TypeOK
<1>6. inst' = inst
  <2>1. inst # "INITIALIZED"
    BY <1>2, <1>3 DEF ChainOK, InstanceOK, ClientOK
  <2>2. CASE AllDone(tx[c].seen)
    <3>1. AllDone(task)
      BY <2>2 DEF Repeats
    <3>2. inst = "COMPLETED"
      BY <2>1, <3>1 DEF ChainOK, InstanceOK, ClientOK
    <3> QED BY <2>2, <3>2 DEF CommitAdvance, AdvancedInstance
  <2>3. CASE ~AllDone(tx[c].seen)
    BY <1>3, <2>3 DEF CommitAdvance, AdvancedInstance
  <2> QED BY <2>2, <2>3
<1> QED BY <1>4, <1>5, <1>6 DEF CommitAdvance, vars

LEMMA ChainInit == ChainOfTasks /\ TransactionsInit => ChainOK
<1> SUFFICES ASSUME ChainOfTasks, TransactionsInit PROVE ChainOK
  OBVIOUS
<1>1. PICK skipped \in SUBSET Skippable :
        LET created == [t \in Task |-> IF t \in skipped THEN "SKIPPED" ELSE "BLOCKED"]
        IN  /\ task = Opened(created)
            /\ inst = IF ReadyTasks(created) # {} THEN "RUNNING" ELSE "INITIALIZED"
  BY DEF TransactionsInit, Init
<1> DEFINE created == [t \in Task |-> IF t \in skipped THEN "SKIPPED" ELSE "BLOCKED"]
<1>2. \A t \in Task : /\ created[t] \in {"SKIPPED", "BLOCKED"}
                      /\ created[t] = "SKIPPED" => Before(t) = {}
  BY DEF ChainOfTasks
<1>3. /\ task = [t \in Task |-> IF t \in ReadyTasks(created) THEN "READY" ELSE created[t]]
      /\ inst = IF ReadyTasks(created) # {} THEN "RUNNING" ELSE "INITIALIZED"
  BY <1>1 DEF Opened
<1> HIDE DEF created
<1>4. \A t \in ReadyTasks(created) : t \in Task /\ created[t] = "BLOCKED"
  BY <1>2 DEF ReadyTasks, Unopened
<1>5. ASSUME NEW t \in Task, NEW u \in Task, StepOrder[t] < StepOrder[u], task[u] # "BLOCKED"
      PROVE  task[t] \in {"COMPLETED", "SKIPPED"}
  <2>1. t \in Before(u)
    BY <1>5 DEF Before
  <2>2. u \in ReadyTasks(created)
    BY <1>2, <1>3, <1>5, <2>1
  <2>3. PICK p \in Highest(Before(u)) : WaitsFor(u, p)
    BY <2>1 DEF ChainOfTasks
  <2>4. PICK d \in Dependency : d.task = u /\ d.on = p
    BY <2>3 DEF WaitsFor
  <2>5. p \in Task /\ Satisfies(d.kind, created[p])
    BY <2>2, <2>4, DependencyOrdered DEF ReadyTasks, DependenciesMet
  <2>6. created[p] = "SKIPPED"
    BY <1>2, <2>5 DEF Satisfies
  <2>7. StepOrder[t] <= StepOrder[p] /\ ~(StepOrder[t] < StepOrder[p])
    BY <1>2, <2>1, <2>3, <2>5, <2>6 DEF Highest, Before
  <2>8. StepOrder[t] \in Nat /\ StepOrder[p] \in Nat
    BY <2>5, StepOrderUnique
  <2>9. t = p
    BY <2>5, <2>7, <2>8, StepOrderUnique
  <2> QED BY <1>3, <1>4, <2>6, <2>9
<1>6. inst \in {"INITIALIZED", "RUNNING"}
      /\ (inst = "INITIALIZED" => \A t \in Task : task[t] \notin {"READY", "COMPLETED"})
  BY <1>2, <1>3
<1>7. inst = "RUNNING" => ~AllDone(task)
  BY <1>3, <1>4 DEF AllDone, CountsAsDone
<1>8. ~crossed /\ \A c \in Client : tx[c].phase = "idle"
  BY DEF TransactionsInit, Init, Idle
<1> QED BY <1>5, <1>6, <1>7, <1>8 DEF ChainOK, InOrder, InstanceOK, RowsApart, ClientOK

\* Reading, writing the own row and failing keep the chain as it is.
LEMMA ChainReads ==
  ASSUME TransactionsOK, OpeningOK, ChainOK, NEW c \in Client,
         \/ \E t \in Task : ReadInstance(c, t, "COMPLETED")
         \/ CheckOwnTask(c) \/ WriteOwnTask(c) \/ ReadAllTasks(c) \/ Abort(c)
  PROVE  ChainOK'
<1> DEFINE p == tx[c].task
<1>1. task' = task /\ inst' = inst /\ crossed' = crossed
  BY ReadingLeaves DEF vars
<1>2. /\ \A d \in Client \ {c} : tx'[d] = tx[d]
      /\ tx'[c].phase = "begun" => tx'[c].inst = inst
      /\ tx'[c].phase \in {"checked", "written", "decided"} =>
           tx'[c].task = p /\ tx'[c].inst = tx[c].inst
      /\ tx'[c].phase = "checked" => tx[c].phase = "begun" /\ TaskMayMove(task[p], "COMPLETED")
      /\ tx'[c].phase \in {"written", "decided"} => tx[c].phase \in {"checked", "written"}
      /\ tx'[c].phase = "written" => ~Locked(p, c)
      /\ tx'[c].phase = "decided" =>
           tx[c].phase = "written" /\ tx'[c].seen = [task EXCEPT ![p] = "COMPLETED"]
  BY CompletingMoves
<1>3. /\ task \in [Task -> CompleteStatus]
      /\ tx[c].phase \in {"begun", "checked", "written"} => p \in Task
  BY TransactionKinds DEF OpeningOK, TransactionsOK
<1> HIDE DEF p
<1>4. tx'[c].phase \in {"begun", "checked", "written", "decided"} /\ tx'[c].inst = "INITIALIZED" =>
        inst = "INITIALIZED"
  BY <1>2 DEF ChainOK, ClientOK
<1>5. tx'[c].phase \in {"checked", "written", "decided"} => task[tx'[c].task] \in {"READY", "COMPLETED"}
  <2>1. CASE tx'[c].phase = "checked"
    BY <1>2, <1>3, <2>1 DEF CompleteStatus, TaskMayMove, TaskTransitions
  <2>2. CASE tx'[c].phase \in {"written", "decided"}
    BY <1>2, <2>2 DEF ChainOK, ClientOK, p
  <2> QED BY <2>1, <2>2
<1>6. ASSUME tx'[c].phase = "decided" PROVE Completes(c)' \/ Repeats(c)'
  <2>1. tx'[c].task = p /\ p \in Task /\ tx'[c].seen = [task EXCEPT ![p] = "COMPLETED"]
    BY <1>2, <1>3, <1>6
  <2>2. CASE task[p] = "READY"
    BY <1>1, <2>1, <2>2 DEF Completes
  <2>3. CASE task[p] = "COMPLETED"
    <3>1. tx'[c].seen = task
      BY <1>3, <2>1, <2>3
    <3>2. ReadyTasks(task) = {}
      BY DEF OpeningOK, ReadyTasks, Unopened, CompleteStatus
    <3>3. ReadyTasks(tx'[c].seen) = {} /\ (AllDone(tx'[c].seen) => AllDone(task'))
      BY <1>1, <3>1, <3>2
    <3>4. task'[tx'[c].task] = "COMPLETED"
      BY <1>1, <2>1, <2>3
    <3> QED BY <3>3, <3>4 DEF Repeats
  <2> QED BY <1>5, <1>6, <2>1, <2>2, <2>3
<1>7. ASSUME NEW d \in Client, d # c,
             tx'[c].phase \in {"written", "decided"}, tx[d].phase \in {"written", "decided"}
      PROVE  tx'[c].task # tx[d].task
  <2>1. CASE tx'[c].phase = "written"
    BY <1>2, <1>7, <2>1 DEF Locked
  <2>2. CASE tx'[c].phase = "decided"
    BY <1>2, <1>7, <2>2 DEF ChainOK, RowsApart, p
  <2> QED BY <1>7, <2>1, <2>2
<1>8. ASSUME NEW d \in Client, d # c PROVE ClientOK(d)'
  <2>1. tx'[d] = tx[d] /\ ClientOK(d)
    BY <1>2, <1>8 DEF ChainOK
  <2> QED BY <1>1, <2>1 DEF ClientOK, Completes, Repeats
<1>9. ClientOK(c)'
  BY <1>1, <1>4, <1>5, <1>6 DEF ClientOK
<1>10. RowsApart'
  <2> SUFFICES ASSUME NEW d \in Client, NEW e \in Client, d # e,
                      tx'[d].phase \in {"written", "decided"},
                      tx'[e].phase \in {"written", "decided"}
               PROVE  tx'[d].task # tx'[e].task
    BY DEF RowsApart
  <2> QED BY <1>2, <1>7 DEF ChainOK, RowsApart
<1>11. InOrder' /\ InstanceOK'
  BY <1>1 DEF ChainOK, InOrder, InstanceOK
<1> QED BY <1>8, <1>9, <1>10, <1>11 DEF ChainOK

\* A commit that changes nothing keeps the chain as it is.
LEMMA ChainRepeats ==
  ASSUME TransactionsOK, OpeningOK, ChainOK, NEW c \in Client, CommitAdvance(c), Repeats(c)
  PROVE  ChainOK'
<1>1. task' = task /\ inst' = inst /\ crossed' = crossed
  BY RepeatsNothing DEF vars
<1>2. \A d \in Client : tx'[d] = IF d = c THEN Idle ELSE tx[d]
  BY DEF CommitAdvance, Moves, TransactionsOK
<1>3. ASSUME NEW d \in Client PROVE ClientOK(d)'
  <2>1. CASE d = c
    BY <1>2, <2>1 DEF ClientOK, Idle
  <2>2. CASE d # c
    <3>1. tx'[d] = tx[d] /\ ClientOK(d)
      BY <1>2, <2>2 DEF ChainOK
    <3> QED BY <1>1, <3>1 DEF ClientOK, Completes, Repeats
  <2> QED BY <2>1, <2>2
<1>4. RowsApart'
  BY <1>2 DEF ChainOK, RowsApart, Idle
<1>5. InOrder' /\ InstanceOK'
  BY <1>1 DEF ChainOK, InOrder, InstanceOK
<1> QED BY <1>3, <1>4, <1>5 DEF ChainOK

\* A commit that completes the open task of the chain keeps it a chain.
LEMMA ChainCompletes ==
  ASSUME ChainOfTasks, TransactionsOK, OpeningOK, IInv, ChainOK,
         NEW c \in Client, CommitAdvance(c), Completes(c)
  PROVE  ChainOK'
<1> DEFINE p == tx[c].task
           seen == tx[c].seen
<1>1. /\ p \in Task /\ task[p] = "READY" /\ tx[c].phase = "decided" /\ tx[c].target = "COMPLETED"
      /\ seen = [task EXCEPT ![p] = "COMPLETED"]
  BY TransactionKinds DEF CommitAdvance, TransactionsOK, OpeningOK, Completes
<1>2. \A t \in Task : task[t] \in CompleteStatus
  BY DEF OpeningOK
<1>3. task' = [t \in Task |-> IF t = p THEN "COMPLETED"
                              ELSE IF t \in ReadyTasks(seen) THEN "READY" ELSE task[t]]
  BY <1>1 DEF CommitAdvance, Advanced
<1>4. /\ \A u \in ReadyTasks(seen) : u \in Task /\ task[u] = "BLOCKED" /\ WaitsFor(u, p)
      /\ \A t \in Task : task[t] \in {"COMPLETED", "SKIPPED"} => task'[t] = task[t]
  BY CompletesOpen DEF ReadyTasks
<1>5. inst = "RUNNING" /\ inst' = AdvancedInstance("RUNNING", seen)
  BY CompletesIsEngine
<1>6. \A d \in Client : tx'[d] = IF d = c THEN Idle ELSE tx[d]
  BY DEF CommitAdvance, Moves, TransactionsOK
<1>7. \A t \in Task : seen[t] = IF t = p THEN "COMPLETED" ELSE task[t]
  BY <1>1, <1>2 DEF OpeningOK
<1> HIDE DEF p, seen
<1>8. InOrder'
  <2> SUFFICES ASSUME NEW t \in Task, NEW u \in Task, StepOrder[t] < StepOrder[u],
                      task'[u] # "BLOCKED"
               PROVE  task'[t] \in {"COMPLETED", "SKIPPED"}
    BY DEF InOrder
  <2>1. CASE task[u] # "BLOCKED"
    BY <1>4, <2>1 DEF ChainOK, InOrder
  <2>2. CASE task[u] = "BLOCKED"
    <3>1. u # p /\ u \in ReadyTasks(seen)
      BY <1>1, <1>3, <2>2
    <3>2. t \in Before(u)
      BY DEF Before
    <3>3. PICK h \in Highest(Before(u)) : WaitsFor(u, h)
      BY <3>2 DEF ChainOfTasks
    <3>4. h = p
      BY <1>4, <3>1, <3>3 DEF ChainOfTasks, OnePrerequisite, WaitsFor
    <3>5. StepOrder[t] <= StepOrder[p] /\ StepOrder[t] \in Nat /\ StepOrder[p] \in Nat
      BY <1>1, <3>2, <3>3, <3>4, StepOrderUnique DEF Highest
    <3>6. CASE t = p
      BY <1>3, <3>6
    <3>7. CASE t # p
      <4>1. StepOrder[t] < StepOrder[p]
        BY <1>1, <3>5, <3>7, StepOrderUnique
      <4>2. task[t] \in {"COMPLETED", "SKIPPED"}
        BY <1>1, <4>1 DEF ChainOK, InOrder
      <4> QED BY <1>4, <4>2
    <3> QED BY <3>6, <3>7
  <2> QED BY <2>1, <2>2
<1>9. InstanceOK'
  <2>0. ~crossed'
    BY DEF CommitAdvance, Remember, ChainOK, InstanceOK
  <2>1. CASE AllDone(seen)
    BY <1>5, <2>0, <2>1 DEF AdvancedInstance, InstanceOK
  <2>2. CASE ~AllDone(seen)
    <3>1. PICK t \in Task : ~CountsAsDone(t, seen[t])
      BY <2>2 DEF AllDone
    <3>2. t # p /\ task'[t] \in {"READY", task[t]} /\ ~CountsAsDone(t, task[t])
      BY <1>3, <1>7, <3>1 DEF CountsAsDone
    <3>3. ~AllDone(task')
      BY <3>2 DEF AllDone, CountsAsDone
    <3> QED BY <1>5, <2>0, <2>2, <3>3 DEF AdvancedInstance, InstanceOK
  <2> QED BY <2>1, <2>2
<1>10. RowsApart'
  BY <1>6 DEF ChainOK, RowsApart, Idle
<1>11. ASSUME NEW d \in Client PROVE ClientOK(d)'
  <2>1. CASE d = c
    BY <1>6, <2>1 DEF ClientOK, Idle
  <2>2. CASE d # c
    <3>1. tx'[d] = tx[d] /\ ClientOK(d)
      BY <1>6, <2>2 DEF ChainOK
    <3>2. tx[d].phase \in {"checked", "written", "decided"} => tx[d].task \in Task
      BY TransactionKinds DEF TransactionsOK
    <3>3. tx[d].phase \in {"checked", "written", "decided"} =>
            task'[tx[d].task] \in {"READY", "COMPLETED"}
      BY <1>3, <1>4, <3>1, <3>2 DEF ClientOK
    <3>4. ASSUME tx[d].phase = "decided" PROVE Repeats(d) /\ Repeats(d)'
      <4>1. tx[d].task # p /\ tx[d].task \in Task
        BY <1>1, <2>2, <3>2, <3>4 DEF ChainOK, RowsApart, p
      <4>2. task[tx[d].task] # "READY"
        BY <1>1, <4>1, OneIsOpen
      <4>3. Repeats(d)
        BY <3>1, <3>4, <4>2 DEF ClientOK, Completes
      <4>4. ~AllDone(task)
        BY <1>1 DEF AllDone, CountsAsDone
      <4>5. task'[tx[d].task] = "COMPLETED"
        BY <1>4, <4>1, <4>3 DEF Repeats
      <4> QED BY <3>1, <4>3, <4>4, <4>5 DEF Repeats
    <3>5. inst # "INITIALIZED"
      BY <1>5
    <3> QED BY <3>1, <3>3, <3>4, <3>5 DEF ClientOK
  <2> QED BY <2>1, <2>2
<1> QED BY <1>8, <1>9, <1>10, <1>11 DEF ChainOK

LEMMA ChainStep ==
  ASSUME ChainOfTasks, TransactionsOK, OpeningOK, IInv, ChainOK, [CompleteNext]_allVars
  PROVE  ChainOK' /\ [Next]_vars
<1>1. CASE UNCHANGED allVars
  <2>1. task' = task /\ inst' = inst /\ crossed' = crossed /\ tx' = tx /\ UNCHANGED vars
    BY <1>1 DEF allVars, vars
  <2> QED BY <2>1 DEF ChainOK, InOrder, InstanceOK, RowsApart, ClientOK, Completes, Repeats
<1>2. ASSUME NEW c \in Client,
             \/ \E t \in Task : ReadInstance(c, t, "COMPLETED")
             \/ CheckOwnTask(c) \/ WriteOwnTask(c) \/ ReadAllTasks(c) \/ Abort(c)
      PROVE  ChainOK' /\ UNCHANGED vars
  BY <1>2, ChainReads, ReadingLeaves
<1>3. ASSUME NEW c \in Client, CommitAdvance(c) PROVE ChainOK' /\ [Next]_vars
  <2>1. Completes(c) \/ Repeats(c)
    BY <1>3 DEF CommitAdvance, ChainOK, ClientOK
  <2>2. CASE Completes(c)
    BY <1>3, <2>2, ChainCompletes, CompletesIsEngine
  <2>3. CASE Repeats(c)
    BY <1>3, <2>3, ChainRepeats, RepeatsNothing
  <2> QED BY <2>1, <2>2, <2>3
<1> QED BY <1>1, <1>2, <1>3 DEF CompleteNext, AdvanceStatements

\* Completions of the tasks of a chain, however their statements overlap, the
\* same task completed twice and any of them failing included, add up to the
\* engine that runs one request after the other.
THEOREM ChainCompletionsAreTheEngine ==
  ASSUME ChainOfTasks
  PROVE  CompleteSpec => Spec
<1> DEFINE Inv == TransactionsOK /\ OpeningOK /\ IInv /\ ChainOK
<1>1. TransactionsInit => Inv /\ Init
  BY TransactionsInitOK, OpeningInit, InitInvariant, ChainInit DEF TransactionsInit
<1>2. Inv /\ [CompleteNext]_allVars => Inv' /\ [Next]_vars
  <2> SUFFICES ASSUME Inv, [CompleteNext]_allVars PROVE Inv' /\ [Next]_vars
    OBVIOUS
  <2>1. ChainOK' /\ [Next]_vars
    BY ChainStep
  <2>2. IInv'
    BY <2>1, NextInvariant
  <2>3. TransactionsOK' /\ OpeningOK'
    BY TransactionsStep, OpeningStep, CompleteIsTransactions DEF ChainOfTasks
  <2> QED BY <2>1, <2>2, <2>3
<1> HIDE DEF Inv
<1> QED BY <1>1, <1>2, PTL DEF CompleteSpec, Spec
=============================================================================
