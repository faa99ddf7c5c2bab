-------------------------- MODULE TaskStateMachine --------------------------
(***************************************************************************)
(* The pure rules of the workflow engine: the status tables of a task and  *)
(* of a workflow instance, and when one status satisfies a dependency.     *)
(* Translated from task-state-machine.ts and                               *)
(* workflow-instance-state-machine.ts.                                     *)
(***************************************************************************)

TaskStatus == {"PENDING", "WAITING", "BLOCKED", "READY", "ASSIGNED",
               "IN_PROGRESS", "PAUSED", "ON_HOLD", "REJECTED", "REWORK",
               "COMPLETED", "CANCELLED", "SKIPPED"}

TaskTerminal == {"COMPLETED", "CANCELLED", "SKIPPED"}

\* The statuses a task may move to from each status.
TaskTransitions ==
  [PENDING     |-> {"BLOCKED", "READY", "CANCELLED"},
   WAITING     |-> {"BLOCKED", "READY", "CANCELLED"},
   BLOCKED     |-> {"READY", "CANCELLED", "SKIPPED"},
   READY       |-> {"ASSIGNED", "IN_PROGRESS", "COMPLETED", "BLOCKED",
                    "CANCELLED", "SKIPPED"},
   ASSIGNED    |-> {"IN_PROGRESS", "COMPLETED", "READY", "BLOCKED", "CANCELLED"},
   IN_PROGRESS |-> {"COMPLETED", "PAUSED", "ON_HOLD", "REJECTED", "REWORK",
                    "BLOCKED", "CANCELLED"},
   PAUSED      |-> {"IN_PROGRESS", "CANCELLED", "BLOCKED"},
   ON_HOLD     |-> {"IN_PROGRESS", "READY", "CANCELLED", "BLOCKED"},
   REJECTED    |-> {"REWORK", "READY", "CANCELLED"},
   REWORK      |-> {"READY", "IN_PROGRESS", "CANCELLED"},
   COMPLETED   |-> {},
   CANCELLED   |-> {},
   SKIPPED     |-> {}]

\* assertTaskTransition does not throw. Staying in the same status is always
\* accepted, in a terminal status too.
TaskMayMove(from, to) == from = to \/ to \in TaskTransitions[from]

\* READY, IN_PROGRESS and ON_HOLD are legacy names that nothing writes.
InstanceStatus == {"DRAFT", "INITIALIZED", "RUNNING", "PAUSED", "COMPLETED",
                   "CANCELLED", "FAILED", "READY", "IN_PROGRESS", "ON_HOLD"}

InstanceTerminal == {"COMPLETED", "CANCELLED", "FAILED"}

InstanceTransitions ==
  [DRAFT       |-> {"INITIALIZED", "CANCELLED"},
   INITIALIZED |-> {"RUNNING", "CANCELLED", "FAILED"},
   RUNNING     |-> {"PAUSED", "COMPLETED", "CANCELLED", "FAILED"},
   PAUSED      |-> {"RUNNING", "CANCELLED", "FAILED"},
   COMPLETED   |-> {},
   CANCELLED   |-> {},
   FAILED      |-> {},
   READY       |-> {"INITIALIZED", "RUNNING", "CANCELLED"},
   IN_PROGRESS |-> {"RUNNING", "PAUSED", "COMPLETED", "CANCELLED", "FAILED"},
   ON_HOLD     |-> {"PAUSED", "RUNNING", "CANCELLED"}]

InstanceMayMove(from, to) == from = to \/ to \in InstanceTransitions[from]

DependencyKind == {"FINISH_TO_START", "START_TO_START"}

\* Mutant: a skipped prerequisite does not count as finished.
SatisfiedByWorkOnly(kind, status) ==
  status = "COMPLETED" \/ (kind = "START_TO_START" /\ status = "IN_PROGRESS")

\* The statuses of a prerequisite that satisfy a dependency of each kind.
Satisfies(kind, status) ==
  \/ status \in {"COMPLETED", "SKIPPED"}
  \/ kind = "START_TO_START" /\ status = "IN_PROGRESS"

\* The statuses the readiness resolution may turn into READY.
Unopened == {"BLOCKED", "WAITING", "PENDING"}
=============================================================================
