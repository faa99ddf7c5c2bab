--------------------------- MODULE ProductionFloor ---------------------------
(***************************************************************************)
(* The production floor: who is assigned to a task, the work session that  *)
(* runs on it, its hold, and the inspections of quality control.  Each     *)
(* handler writes the status of the task beside its own rows, so the floor *)
(* has to agree with the engine: every step here is a step of              *)
(* WorkflowEngine or leaves the workflow alone.                            *)
(*                                                                         *)
(* Handlers run one at a time, except that completing a task, flagging it  *)
(* and submitting an inspection commit twice: first their own row, then,   *)
(* in a transaction of its own, the engine.  Anything may happen between   *)
(* the two commits, and the second may never come.                         *)
(***************************************************************************)
EXTENDS WorkflowEngine, FiniteSets

CONSTANTS
  Staffed,        \* tasks whose department has operators
  Design,         \* the "do the design" tasks, which designers claim directly
  MaxInterrupted  \* BOUND: tasks at a time with a second commit due or lost

ASSUME FloorConstants ==
  /\ Staffed \subseteq Task
  /\ Design \subseteq Task
  /\ Design \cap (Gate \cup Inspection) = {}

VARIABLES
  assigned,    \* tasks with an ACTIVE assignment
  session,     \* status of the active work session of each task, or NONE
  onHold,      \* tasks whose active session has an open hold
  inspecting,  \* tasks with an inspection IN_PROGRESS
  finishing,   \* what the second commit of a handler has still to do
  lost         \* history: tasks whose second commit failed, until they move

rows == <<assigned, session, onHold, inspecting>>

floorVars == <<vars, rows, finishing, lost>>

Verdict == {"pass", "rework", "hold"}

Unfinished == {"complete", "flag"} \cup Verdict

SessionStatus == {"IN_PROGRESS", "PAUSED", "ON_HOLD"}

FloorInit ==
  /\ Init
  /\ assigned = {}
  /\ session = [t \in Task |-> "NONE"]
  /\ onHold = {}
  /\ inspecting = {}
  /\ finishing = [t \in Task |-> "no"]
  /\ lost = {}

\* A second commit that failed matters as long as the task stays where it is.
Forget == lost' = {t \in lost : task'[t] = task[t]}

\* The status write of a floor handler, with no second commit involved.
Writes(t, status) ==
  /\ FloorWrite(t, status)
  /\ Forget
  /\ UNCHANGED finishing

(***************************************************************************)
(* Assignment, by a manager or automatically when a task becomes READY.    *)
(***************************************************************************)
Assign(t) ==
  /\ t \in Staffed \ assigned
  /\ task[t] \in {"READY", "ASSIGNED"}
  /\ Writes(t, "ASSIGNED")
  /\ assigned' = assigned \cup {t}
  /\ UNCHANGED <<session, onHold, inspecting>>

\* The session of the former operator, if there is one, stays open.
Reassign(t) ==
  /\ t \in assigned
  /\ task[t] \notin TaskTerminal
  /\ Writes(t, "ASSIGNED")
  /\ UNCHANGED rows

\* Mutant: only a task that nobody has begun goes back to READY.
UnassignInPlace(t) ==
  /\ t \in assigned
  /\ task[t] \notin TaskTerminal
  /\ IF task[t] = "ASSIGNED" THEN Writes(t, "READY") ELSE UNCHANGED <<vars, finishing, lost>>
  /\ assigned' = assigned \ {t}
  /\ UNCHANGED <<session, onHold, inspecting>>

Unassign(t) ==
  /\ t \in assigned
  /\ task[t] \notin TaskTerminal
  /\ Writes(t, "READY")
  /\ assigned' = assigned \ {t}
  /\ UNCHANGED <<session, onHold, inspecting>>

(***************************************************************************)
(* Execution, of every task that is not an inspection.                     *)
(***************************************************************************)
\* Mutant: a task is started beside a session that is still open.
StartAgain(t) ==
  /\ t \notin Inspection
  /\ t \in assigned
  /\ task[t] \in {"READY", "ASSIGNED"}
  /\ Writes(t, "IN_PROGRESS")
  /\ session' = IF session[t] = "NONE" THEN [session EXCEPT ![t] = "IN_PROGRESS"] ELSE session
  /\ UNCHANGED <<assigned, onHold, inspecting>>

Start(t) ==
  /\ t \notin Inspection
  /\ t \in assigned
  /\ session[t] = "NONE"
  /\ task[t] \in {"READY", "ASSIGNED"}
  /\ Writes(t, "IN_PROGRESS")
  /\ session' = [session EXCEPT ![t] = "IN_PROGRESS"]
  /\ UNCHANGED <<assigned, onHold, inspecting>>

\* loadActiveExecution: the task is assigned and has an active session.
Working(t) == t \notin Inspection /\ t \in assigned /\ session[t] # "NONE"

SessionTransitions ==
  [IN_PROGRESS |-> {"PAUSED", "ON_HOLD", "COMPLETED"},
   PAUSED      |-> {"IN_PROGRESS"},
   ON_HOLD     |-> {"IN_PROGRESS"}]

SessionMayMove(from, to) == from = to \/ to \in SessionTransitions[from]

\* Task and session move together to the same status.
MoveBoth(t, status) ==
  /\ Working(t)
  /\ SessionMayMove(session[t], status)
  /\ Writes(t, status)
  /\ session' = [session EXCEPT ![t] = status]
  /\ UNCHANGED <<assigned, inspecting>>

Pause(t) ==
  /\ task[t] = "IN_PROGRESS"
  /\ MoveBoth(t, "PAUSED")
  /\ UNCHANGED onHold

Resume(t) ==
  /\ task[t] = "PAUSED"
  /\ MoveBoth(t, "IN_PROGRESS")
  /\ UNCHANGED onHold

Hold(t) ==
  /\ task[t] = "IN_PROGRESS"
  /\ t \notin onHold
  /\ MoveBoth(t, "ON_HOLD")
  /\ onHold' = onHold \cup {t}

\* Mutant: a hold is released without closing its row.
ReleaseKeepingHold(t) ==
  /\ task[t] = "ON_HOLD"
  /\ t \in onHold
  /\ MoveBoth(t, "IN_PROGRESS")
  /\ UNCHANGED onHold

ReleaseHold(t) ==
  /\ task[t] = "ON_HOLD"
  /\ t \in onHold
  /\ MoveBoth(t, "IN_PROGRESS")
  /\ onHold' = onHold \ {t}

\* A designer claims the task whether or not anyone is assigned or at work.
ClaimDesign(t) ==
  /\ t \in Design
  /\ task[t] \in {"READY", "ASSIGNED", "REWORK"}
  /\ Writes(t, "IN_PROGRESS")
  /\ UNCHANGED rows

\* A handler that has ended the session or the inspection of t and not
\* reached the engine, or never will.
Interrupted(t) == finishing[t] # "no" \/ t \in lost

(***************************************************************************)
(* The first commits.                                                      *)
(***************************************************************************)
MayInterrupt(t) ==
  /\ finishing[t] = "no"
  /\ Cardinality({u \in Task \ {t} : Interrupted(u)}) < MaxInterrupted

EndSession(t, next) ==
  /\ Working(t)
  /\ MayInterrupt(t)
  /\ session' = [session EXCEPT ![t] = "NONE"]
  /\ onHold' = onHold \ {t}
  /\ finishing' = [finishing EXCEPT ![t] = next]
  /\ UNCHANGED <<vars, assigned, inspecting, lost>>

CompleteTask(t) == task[t] = "IN_PROGRESS" /\ EndSession(t, "complete")

\* The status of the task is left to the engine to check.
FlagOrder(t) == t \in Verification /\ EndSession(t, "flag")

StartInspection(q) ==
  /\ q \in Inspection \ inspecting
  /\ \/ /\ task[q] \in {"READY", "ASSIGNED"}
        /\ Writes(q, "IN_PROGRESS")
     \/ task[q] = "IN_PROGRESS" /\ UNCHANGED <<vars, finishing, lost>>
  /\ inspecting' = inspecting \cup {q}
  /\ UNCHANGED <<assigned, session, onHold>>

SubmitResult(q, verdict) ==
  /\ q \in inspecting
  /\ MayInterrupt(q)
  /\ inspecting' = inspecting \ {q}
  /\ finishing' = [finishing EXCEPT ![q] = verdict]
  /\ UNCHANGED <<vars, assigned, session, onHold, lost>>

(***************************************************************************)
(* The second commits: the engine carries out what was announced, or the   *)
(* request ends without it (the engine refused, or the process died).      *)
(***************************************************************************)
EngineStep(t) ==
  CASE finishing[t] = "complete" -> Advance(t, "COMPLETED")
    [] finishing[t] = "flag"     -> FlagForCorrection(t)
    [] finishing[t] = "pass"     -> Advance(t, "COMPLETED")
    [] finishing[t] = "rework"   -> \/ QcReworkDefault(t)
                                    \/ \E target \in Task : QcRework(t, target)
                                    \/ \E position \in Position : QcReworkElsewhere(t, position)
    [] finishing[t] = "hold"     -> QcHold(t)

SecondCommit(t) ==
  /\ finishing[t] # "no"
  /\ EngineStep(t)
  /\ finishing' = [finishing EXCEPT ![t] = "no"]
  /\ Forget
  /\ UNCHANGED rows

SecondCommitFails(t) ==
  /\ finishing[t] # "no"
  /\ finishing' = [finishing EXCEPT ![t] = "no"]
  /\ lost' = lost \cup {t}
  /\ UNCHANGED <<vars, rows>>

(***************************************************************************)
(* What reaches the engine without the floor: the manager's advance, the   *)
(* vendor at his gate, a resolved correction, the inspection of another    *)
(* workflow, a cancelled order.                                            *)
(***************************************************************************)
EngineAlone ==
  /\ \/ \E t \in Task, target \in AdvanceTargets : Advance(t, target)
     \/ \E g \in Gate : RejectVendorApproval(g)
     \/ \E t \in Task : ResolveCorrection(t)
     \/ \E t \in Task : ReworkFromOutside(t)
  /\ Forget
  /\ UNCHANGED <<rows, finishing>>

\* Cancelling ends the sessions of the tasks it cancels; assignments and
\* inspections stay as they are.
CancelOrderItem ==
  /\ CancelInstance
  /\ session' = [t \in Task |-> IF task[t] \in TaskTerminal THEN session[t] ELSE "NONE"]
  /\ onHold' = {t \in onHold : session'[t] # "NONE"}
  /\ Forget
  /\ UNCHANGED <<assigned, inspecting, finishing>>

FloorNext ==
  \/ \E t \in Task :
       \/ Assign(t)
       \/ Reassign(t)
       \/ Unassign(t)
       \/ Start(t)
       \/ Pause(t)
       \/ Resume(t)
       \/ Hold(t)
       \/ ReleaseHold(t)
       \/ ClaimDesign(t)
       \/ CompleteTask(t)
       \/ FlagOrder(t)
       \/ StartInspection(t)
       \/ \E verdict \in Verdict : SubmitResult(t, verdict)
       \/ SecondCommit(t)
       \/ SecondCommitFails(t)
  \/ EngineAlone
  \/ CancelOrderItem

FloorSpec == FloorInit /\ [][FloorNext]_floorVars

(***************************************************************************)
(* Properties.                                                             *)
(***************************************************************************)

\* Sessions, holds and inspections exist for the tasks they may exist for.
FloorTypeOK ==
  /\ TypeOK
  /\ assigned \subseteq Task
  /\ session \in [Task -> SessionStatus \cup {"NONE"}]
  /\ onHold \subseteq {t \in Task : session[t] = "ON_HOLD"}
  /\ inspecting \subseteq Inspection
  /\ finishing \in [Task -> Unfinished \cup {"no"}]
  /\ lost \subseteq Task

\* Work that was begun can be gone on with, by the operator it belongs to:
\* the session matches the status of the task, and a task on hold has the
\* hold that can be released.  Design and inspection have their own ways on.
WorkCanGoOn ==
  \A t \in Task \ (Inspection \cup Design) :
    /\ task[t] \in {"ASSIGNED", "IN_PROGRESS", "PAUSED", "ON_HOLD"} => t \in assigned
    /\ task[t] \in SessionStatus => session[t] = task[t] \/ Interrupted(t)
    /\ task[t] = "ON_HOLD" => t \in onHold \/ Interrupted(t)

\* The ways on with an open task: a manager completes it by hand, somebody is
\* put on it in place of whoever is on it now, or a designer takes it back.
ManagerMayComplete(t) == task[t] \notin TaskTerminal /\ TaskMayMove(task[t], "COMPLETED")

MayReassign(t) == t \in assigned /\ task[t] \notin TaskTerminal \cup {"BLOCKED"}

MayClaim(t) == t \in Design /\ task[t] \in {"READY", "ASSIGNED", "REWORK"}

\* Work sent back, or held by quality control, that nobody was assigned to:
\* no handler takes it up as it is, it can only be cancelled or blocked.
Stranded(t) ==
  /\ t \notin assigned
  /\ \/ task[t] = "REWORK" /\ t \notin Design
     \/ task[t] = "ON_HOLD" /\ t \in Inspection

\* A running workflow in which nothing was cancelled, and which no rework has
\* crossed, is stuck only on a stranded task: otherwise there is a task that a
\* handler lets somebody go on with, or a review that waits for a correction.
\* A paused or held task is one of them because whoever began it is still
\* assigned: unassigning puts the task back to READY.
SomeoneCanAct ==
  (~crossed /\ inst = "RUNNING" /\ \A t \in Task : task[t] # "CANCELLED") =>
     \/ \E t \in Task : ManagerMayComplete(t) \/ MayReassign(t) \/ MayClaim(t)
     \/ \E t \in Verification : task[t] = "BLOCKED" /\ DependenciesMet(t, task)
     \/ \E t \in Task : Stranded(t)
=============================================================================
