--------------------------- MODULE WorkflowEngine ---------------------------
(***************************************************************************)
(* The workflow of one order item: a set of production tasks, generated    *)
(* from a template, that the engine opens, completes, sends back for       *)
(* rework and cancels.  Every database transaction of the engine is one    *)
(* action here, as if no two of them overlapped; WorkflowTransactions      *)
(* splits them up again and lets them interleave.                          *)
(*                                                                         *)
(* The production services (assignment, execution, QC, design) write the   *)
(* status column of a task themselves.  FloorWrite is the union of those   *)
(* writes; the assignments, work sessions and inspections they keep beside *)
(* it are not part of this module.                                         *)
(***************************************************************************)
EXTENDS Naturals, TaskStateMachine

CONSTANTS
  Task,          \* the tasks of the instance
  NoTask,        \* absence of a task
  StepOrder,     \* position of each task in the template
  Dependency,    \* records [task, on, kind]
  Mandatory,     \* tasks whose step is mandatory
  Skippable,     \* tasks whose step has a skipWhen rule
  Verification,  \* tasks of type VERIFICATION (Under Review)
  Gate,          \* tasks of type VENDOR_APPROVAL
  Inspection,    \* tasks of type QUALITY_CHECK
  AllowRework,   \* tasks whose step allows rework
  ReworkStep     \* the task named by the step's metadata, or NoTask

ASSUME StepOrderUnique ==
  /\ StepOrder \in [Task -> Nat]
  /\ \A t, u \in Task : StepOrder[t] = StepOrder[u] => t = u

\* Templates are seeded with each step depending on earlier ones; the editor
\* does not enforce it.
ASSUME DependencyOrdered ==
  /\ Dependency \subseteq [task : Task, on : Task, kind : DependencyKind]
  /\ \A d \in Dependency : StepOrder[d.on] < StepOrder[d.task]

ASSUME StepKinds ==
  /\ NoTask \notin Task
  /\ Mandatory \subseteq Task
  /\ Skippable \subseteq Task
  /\ Verification \subseteq Task
  /\ Gate \subseteq Task
  /\ Inspection \subseteq Task
  /\ AllowRework \subseteq Task
  /\ ReworkStep \in [Task -> Task \cup {NoTask}]

VARIABLES
  inst,      \* status of the workflow instance
  task,      \* status of each task
  flagged,   \* history: tasks blocked by a flag that nothing has lifted yet
  early,     \* history: tasks opened by a person, not by their dependencies
  crossed    \* history: a rework went from one workflow to a task of another,
             \* and this workflow was one of the two

vars == <<inst, task, flagged, early, crossed>>

(***************************************************************************)
(* Readiness and completion.                                               *)
(***************************************************************************)
DependenciesMet(t, st) ==
  \A d \in Dependency : d.task = t => Satisfies(d.kind, st[d.on])

ReadyTasks(st) == {t \in Task : st[t] \in Unopened /\ DependenciesMet(t, st)}

Opened(st) == [t \in Task |-> IF t \in ReadyTasks(st) THEN "READY" ELSE st[t]]

CountsAsDone(t, status) ==
  status \in {"COMPLETED", "SKIPPED"} \/ (status = "CANCELLED" /\ t \notin Mandatory)

AllDone(st) == \A t \in Task : CountsAsDone(t, st[t])

\* The statuses in which a task is open to work, or its work is done.
Live == {"READY", "ASSIGNED", "IN_PROGRESS", "PAUSED", "ON_HOLD", "REWORK",
         "COMPLETED"}

\* The history variables after a step that leaves the tasks in statuses st:
\* a flag ends when its task leaves BLOCKED, an early opening when its task
\* is blocked or ended without work.
Marks(st, newFlags, newEarly) ==
  /\ flagged' = {t \in flagged \cup newFlags : st[t] = "BLOCKED"}
  /\ early' = {t \in early \cup newEarly : st[t] \in Live}

Remember(st, newFlags, newEarly) == Marks(st, newFlags, newEarly) /\ UNCHANGED crossed

(***************************************************************************)
(* Creation: every task starts BLOCKED, those whose skipWhen rule matches  *)
(* the order are SKIPPED, those with nothing to wait for are opened.       *)
(***************************************************************************)
Init ==
  /\ \E skipped \in SUBSET Skippable :
       LET created == [t \in Task |-> IF t \in skipped THEN "SKIPPED" ELSE "BLOCKED"]
       IN  /\ task = Opened(created)
           /\ inst = IF ReadyTasks(created) # {} THEN "RUNNING" ELSE "INITIALIZED"
  /\ flagged = {}
  /\ early = {}
  /\ crossed = FALSE

(***************************************************************************)
(* advance: complete, skip or cancel one task, open what became ready, and *)
(* complete the instance when every task is done.  It throws, and changes  *)
(* nothing, when the instance would have to complete from a status that    *)
(* may not.                                                                *)
(***************************************************************************)
\* Mutant: a task may be advanced to REJECTED too.
AdvanceTargetsWithRejected == {"COMPLETED", "SKIPPED", "CANCELLED", "REJECTED"}

AdvanceTargets == {"COMPLETED", "SKIPPED", "CANCELLED"}

\* Mutant: the optional tasks are not waited for.
AdvancedWhenMandatoryDone(current, st) ==
  IF \A t \in Mandatory : CountsAsDone(t, st[t]) THEN "COMPLETED"
  ELSE IF current = "INITIALIZED" /\ ReadyTasks(st) # {} THEN "RUNNING"
  ELSE current

\* The instance status after an advance that leaves the statuses st.
AdvancedInstance(current, st) ==
  IF AllDone(st) THEN "COMPLETED"
  ELSE IF current = "INITIALIZED" /\ ReadyTasks(st) # {} THEN "RUNNING"
  ELSE current

Advance(t, target) ==
  LET st == [task EXCEPT ![t] = target]
  IN  /\ inst \notin InstanceTerminal
      /\ TaskMayMove(task[t], target)
      /\ InstanceMayMove(inst, AdvancedInstance(inst, st))
      /\ task' = Opened(st)
      /\ inst' = AdvancedInstance(inst, st)
      /\ Remember(Opened(st), {}, {})

(***************************************************************************)
(* Sending work back.                                                      *)
(***************************************************************************)
Highest(S) == {t \in S : \A u \in S : StepOrder[u] <= StepOrder[t]}

Before(t) == {u \in Task : StepOrder[u] < StepOrder[t]}

CompletedBefore(t) == {u \in Before(t) : task[u] = "COMPLETED"}

\* The target when nobody names one: the template's choice, else the last
\* completed task before the source, else the last task before it.
DefaultReworkTarget(source) ==
  IF ReworkStep[source] # NoTask THEN {ReworkStep[source]}
  ELSE IF CompletedBefore(source) # {} THEN Highest(CompletedBefore(source))
  ELSE Highest(Before(source))

\* Mutant: what is already completed stays completed.
SentBackKeepingCompleted(source, target) ==
  [t \in Task |->
    IF t = target THEN "REWORK"
    ELSE IF t = source \/ (StepOrder[t] > StepOrder[target] /\ task[t] \notin TaskTerminal)
    THEN "BLOCKED"
    ELSE task[t]]

\* The source and everything after the position of the target is blocked,
\* even when it was completed.
BlockedAfter(source, position) ==
  [t \in Task |->
    IF \/ t = source
       \/ StepOrder[t] > position /\ task[t] \notin {"CANCELLED", "SKIPPED"}
    THEN "BLOCKED" ELSE task[t]]

\* The target goes to REWORK whatever its status was.
SentBack(source, target) ==
  [BlockedAfter(source, StepOrder[target]) EXCEPT ![target] = "REWORK"]

\* A task that goes to REWORK without having been completed is opened by the
\* person who sent the work back.
OpenedByRework(target) == IF task[target] = "COMPLETED" THEN {} ELSE {target}

SendBack(source, target) ==
  /\ task' = SentBack(source, target)
  /\ Remember(SentBack(source, target), {}, OpenedByRework(target))
  /\ UNCHANGED inst

\* QC result FAIL or REWORK_REQUIRED; a manager may name any target.
QcRework(q, target) ==
  /\ q \in Inspection \cap AllowRework
  /\ TaskMayMove(task[q], "BLOCKED")
  /\ target \in Task
  /\ SendBack(q, target)

QcReworkDefault(q) == \E target \in DefaultReworkTarget(q) : QcRework(q, target)

\* The task a manager names is looked up by its id alone, so it may belong to
\* another workflow.  This one is then blocked by the position of a task it
\* does not have, and nothing of it goes to REWORK.
QcReworkElsewhere(q, position) ==
  /\ q \in Inspection \cap AllowRework
  /\ TaskMayMove(task[q], "BLOCKED")
  /\ task' = BlockedAfter(q, position)
  /\ Marks(task', {}, {})
  /\ crossed' = TRUE
  /\ UNCHANGED inst

\* Its counterpart: an inspection of another workflow names a task of this
\* one, in whatever status the task or the instance is.
ReworkFromOutside(t) ==
  /\ task' = [task EXCEPT ![t] = "REWORK"]
  /\ Marks(task', {}, OpenedByRework(t))
  /\ crossed' = TRUE
  /\ UNCHANGED inst

\* Where a task of another template can stand among the tasks of this one.
Position == {0} \cup {StepOrder[t] : t \in Task}

\* Mutant: a gate that the vendor approved before may be rejected.
OpenOrApproved == {"READY", "PENDING", "WAITING", "ASSIGNED", "IN_PROGRESS", "REWORK", "COMPLETED"}

OpenGateStatus == {"READY", "PENDING", "WAITING", "ASSIGNED", "IN_PROGRESS", "REWORK"}

OpenGates == {g \in Gate : task[g] \in OpenGateStatus}

\* The vendor rejects at the first gate that waits for him.
RejectVendorApproval(g) ==
  /\ g \in OpenGates
  /\ \A h \in OpenGates : StepOrder[g] <= StepOrder[h]
  /\ \E target \in DefaultReworkTarget(g) : SendBack(g, target)

\* QC result ON_HOLD.
QcHold(q) ==
  /\ q \in Inspection
  /\ TaskMayMove(task[q], "ON_HOLD")
  /\ task' = [task EXCEPT ![q] = "ON_HOLD"]
  /\ Remember(task', {}, {})
  /\ UNCHANGED inst

(***************************************************************************)
(* Under Review: flag an order for correction, and resolve the flag.  The  *)
(* resolution asks only that the task is BLOCKED.                          *)
(***************************************************************************)
FlagForCorrection(t) ==
  /\ t \in Verification
  /\ TaskMayMove(task[t], "BLOCKED")
  /\ task' = [task EXCEPT ![t] = "BLOCKED"]
  /\ Remember(task', {t}, {})
  /\ UNCHANGED inst

ResolveCorrection(t) ==
  /\ task[t] = "BLOCKED"
  /\ task' = [task EXCEPT ![t] = "READY"]
  /\ Remember(task', {}, {t})
  /\ UNCHANGED inst

\* Order cancellation: nothing happens to an instance that already ended.
CancelInstance ==
  /\ inst \notin InstanceTerminal
  /\ InstanceMayMove(inst, "CANCELLED")
  /\ task' = [t \in Task |-> IF task[t] \in TaskTerminal THEN task[t] ELSE "CANCELLED"]
  /\ inst' = "CANCELLED"
  /\ Remember(task', {}, {})

(***************************************************************************)
(* The status writes of the production services, as pairs <<from, to>>.    *)
(***************************************************************************)
NonTerminal == TaskStatus \ TaskTerminal

\* Mutant: unassign does not look at the status of the task.
UnassignAnyMoves == TaskStatus \X {"READY"}

AssignMoves   == {"READY", "ASSIGNED"} \X {"ASSIGNED"}
ReassignMoves == NonTerminal \X {"ASSIGNED"}
UnassignMoves == NonTerminal \X {"READY"}
StartMoves    == {"READY", "ASSIGNED"} \X {"IN_PROGRESS"}
PauseMoves    == {"IN_PROGRESS"} \X {"PAUSED"}
HoldMoves     == {"IN_PROGRESS"} \X {"ON_HOLD"}
ResumeMoves   == {"PAUSED", "ON_HOLD"} \X {"IN_PROGRESS"}
ClaimMoves    == {"READY", "ASSIGNED", "REWORK"} \X {"IN_PROGRESS"}

FloorMoves == AssignMoves \cup ReassignMoves \cup UnassignMoves \cup StartMoves
              \cup PauseMoves \cup HoldMoves \cup ResumeMoves \cup ClaimMoves

FloorWrite(t, status) ==
  /\ <<task[t], status>> \in FloorMoves
  /\ task' = [task EXCEPT ![t] = status]
  /\ Remember(task', {}, IF task[t] = "BLOCKED" THEN {t} ELSE {})
  /\ UNCHANGED inst

Next ==
  \/ \E t \in Task, target \in AdvanceTargets : Advance(t, target)
  \/ \E q \in Inspection, target \in Task : QcRework(q, target)
  \/ \E q \in Inspection : QcReworkDefault(q)
  \/ \E q \in Inspection, position \in Position : QcReworkElsewhere(q, position)
  \/ \E t \in Task : ReworkFromOutside(t)
  \/ \E q \in Inspection : QcHold(q)
  \/ \E g \in Gate : RejectVendorApproval(g)
  \/ \E t \in Task : FlagForCorrection(t)
  \/ \E t \in Task : ResolveCorrection(t)
  \/ CancelInstance
  \/ \E t \in Task, status \in TaskStatus : FloorWrite(t, status)

Spec == Init /\ [][Next]_vars

(***************************************************************************)
(* Properties.                                                             *)
(***************************************************************************)

\* The statuses that some code of the repository writes.
UsedStatus == TaskStatus \ {"PENDING", "WAITING", "REJECTED"}

\* Every variable keeps to the statuses that are ever written, and the history
\* variables name tasks in the statuses they are about, in a workflow that a
\* rework has crossed too.
TypeOK ==
  /\ inst \in {"INITIALIZED", "RUNNING", "COMPLETED", "CANCELLED"}
  /\ task \in [Task -> UsedStatus]
  /\ flagged \subseteq {t \in Verification : task[t] = "BLOCKED"}
  /\ early \subseteq {t \in Task : task[t] \in Live}
  /\ crossed \in BOOLEAN

\* A task that its dependencies opened is worked on, and stays done, only
\* while each of its finish-to-start prerequisites is finished: sending work
\* back to an earlier step of the workflow also blocks everything that was
\* built on it.  A rework sent from another workflow does not.
PrerequisitesFinished ==
  ~crossed =>
    \A d \in Dependency :
      /\ d.kind = "FINISH_TO_START"
      /\ task[d.task] \in Live
      /\ d.task \notin early
      => task[d.on] \in {"COMPLETED", "SKIPPED"}

\* An instance that ended leaves no open task behind: all are done when it
\* completed, all are in a terminal status when it was cancelled.  Only a
\* rework from another workflow can open one again.
EndedIsSettled ==
  ~crossed =>
    /\ inst = "COMPLETED" => AllDone(task)
    /\ inst = "CANCELLED" => \A t \in Task : task[t] \in TaskTerminal

\* Nothing moves in an ended workflow, although most handlers of the engine
\* and of the services never look at the status of the instance, until an
\* inspection of another workflow sends work back to one of its tasks.
EndedIsFrozen ==
  [][(inst \in InstanceTerminal) => UNCHANGED <<inst, task>> \/ crossed']_vars

\* A running workflow in which nothing was cancelled never consists of
\* finished and blocked tasks alone, unless a blocked review waits for its
\* correction: every transaction that blocks or finishes work opens some, or
\* leaves some open.  Whether anybody is let near the open task is the
\* floor's matter (SomeoneCanAct of ProductionFloor).
SomethingIsOpen ==
  (~crossed /\ inst = "RUNNING" /\ \A t \in Task : task[t] # "CANCELLED") =>
     \/ \E t \in Task : task[t] \in Live \ {"COMPLETED"}
     \/ \E t \in Verification : task[t] = "BLOCKED" /\ DependenciesMet(t, task)

\* Completed work is undone only by sending the workflow back: some task at
\* or before it is in rework, and it and everything after it is not done.  A
\* rework between two workflows undoes work in other ways.
CompletedUndoneOnlyByRework ==
  [][\A t \in Task : task[t] = "COMPLETED" /\ task'[t] # "COMPLETED" =>
        \/ crossed'
        \/ \E r \in Task :
             /\ task'[r] = "REWORK"
             /\ StepOrder[r] <= StepOrder[t]
             /\ \A u \in Task : StepOrder[u] > StepOrder[r] => task'[u] # "COMPLETED"]_vars
=============================================================================
