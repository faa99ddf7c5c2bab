----------------------- MODULE WorkflowEngineProofs -----------------------
(***************************************************************************)
(* Proofs about WorkflowEngine, for every template: any set of tasks, any  *)
(* dependencies that follow the step order, any rework targets.            *)
(***************************************************************************)
EXTENDS WorkflowEngine, WellFoundedInduction, TLAPS

\* The inductive invariant.  EndedIsSettled needs the type of inst, the two
\* others need each other's help only through the type of the history.  In a
\* workflow that a rework has crossed the types are all that is left of it.
IInv == TypeOK /\ PrerequisitesFinished /\ EndedIsSettled

Statuses == [Task -> UsedStatus]

(***************************************************************************)
(* What the operators of the engine do to a status function.               *)
(***************************************************************************)

\* Opening keeps statuses, and changes a task only to READY, when it was
\* not open yet and its dependencies are met.
LEMMA OpenedChanges ==
  ASSUME NEW st \in Statuses
  PROVE  /\ Opened(st) \in Statuses
         /\ \A t \in Task : \/ Opened(st)[t] = st[t]
                            \/ /\ st[t] \in Unopened
                               /\ DependenciesMet(t, st)
                               /\ Opened(st)[t] = "READY"
BY DEF Opened, ReadyTasks, Statuses, UsedStatus, TaskStatus

\* A terminal status may only be kept by a transition that the table allows.
LEMMA TerminalMayNotMove ==
  ASSUME NEW from \in TaskTerminal, NEW to \in TaskStatus, TaskMayMove(from, to)
  PROVE  to = from
BY DEF TaskMayMove, TaskTransitions, TaskTerminal, TaskStatus

\* The floor's handlers write no terminal status over.
LEMMA FloorMovesFromOpen ==
  ASSUME NEW from \in TaskTerminal, NEW to
  PROVE  <<from, to>> \notin FloorMoves
BY DEF FloorMoves, AssignMoves, ReassignMoves, UnassignMoves, StartMoves, PauseMoves,
       HoldMoves, ResumeMoves, ClaimMoves, NonTerminal, TaskTerminal

\* The statuses a send-back can leave.
LEMMA SentBackType ==
  ASSUME task \in Statuses, NEW source \in Task, NEW target \in Task
  PROVE  /\ SentBack(source, target) \in Statuses
         /\ \A t \in Task :
              SentBack(source, target)[t] =
                IF t = target THEN "REWORK"
                ELSE IF \/ t = source
                        \/ /\ StepOrder[t] > StepOrder[target]
                           /\ task[t] \notin {"CANCELLED", "SKIPPED"}
                THEN "BLOCKED" ELSE task[t]
BY DEF SentBack, BlockedAfter, Statuses, UsedStatus, TaskStatus

\* The default target of a send-back is a task.
LEMMA DefaultReworkTargetIsTask ==
  ASSUME NEW source \in Task, NEW target \in DefaultReworkTarget(source)
  PROVE  target \in Task
BY StepKinds DEF DefaultReworkTarget, Highest, Before, CompletedBefore

\* The initial states satisfy the invariant.
LEMMA InitInvariant == Init => IInv
<1> SUFFICES ASSUME Init PROVE IInv
  OBVIOUS
<1>1. PICK skipped \in SUBSET Skippable :
        LET created == [t \in Task |-> IF t \in skipped THEN "SKIPPED" ELSE "BLOCKED"]
        IN  /\ task = Opened(created)
            /\ inst = IF ReadyTasks(created) # {} THEN "RUNNING" ELSE "INITIALIZED"
  BY DEF Init
<1> DEFINE created == [t \in Task |-> IF t \in skipped THEN "SKIPPED" ELSE "BLOCKED"]
<1>2. created \in Statuses
  BY DEF Statuses, UsedStatus, TaskStatus
<1>3. /\ task \in Statuses
      /\ \A t \in Task : \/ task[t] = created[t]
                         \/ task[t] = "READY" /\ created[t] = "BLOCKED" /\ DependenciesMet(t, created)
  BY <1>1, <1>2, OpenedChanges DEF Unopened
<1>4. TypeOK
  BY <1>1, <1>3 DEF Init, TypeOK, Statuses
<1>5. PrerequisitesFinished
  <2> SUFFICES ASSUME NEW d \in Dependency, d.kind = "FINISH_TO_START",
                      task[d.task] \in Live
               PROVE  task[d.on] \in {"COMPLETED", "SKIPPED"}
    BY DEF PrerequisitesFinished
  <2>1. d.task \in Task /\ d.on \in Task
    BY DependencyOrdered
  <2>2. DependenciesMet(d.task, created)
    BY <1>3, <2>1 DEF Live
  <2>3. created[d.on] = "SKIPPED"
    BY <2>1, <2>2 DEF DependenciesMet, Satisfies
  <2> QED BY <1>3, <2>1, <2>3
<1>6. EndedIsSettled
  BY <1>1 DEF EndedIsSettled
<1> QED BY <1>4, <1>5, <1>6 DEF IInv

(***************************************************************************)
(* Every action keeps the invariant.                                       *)
(***************************************************************************)

\* The facts every action starts from.
LEMMA Finished ==
  ASSUME IInv, ~crossed, NEW d \in Dependency, d.kind = "FINISH_TO_START",
         task[d.task] \in Live, d.task \notin early
  PROVE  task[d.on] \in {"COMPLETED", "SKIPPED"}
BY DEF IInv, PrerequisitesFinished

\* A step that leaves each task as it was or moves it, from a status that is
\* not terminal, to one that is not live unless it was live before, or is
\* recorded as early, keeps every finish-to-start prerequisite finished.
LEMMA LocalStepKeepsPrerequisites ==
  ASSUME IInv, task' \in Statuses, crossed' = crossed,
         \A t \in Task : task'[t] = task[t] \/ task[t] \notin TaskTerminal,
         \A t \in Task : t \in early /\ task'[t] \in Live => t \in early',
         \A t \in Task : task'[t] \in Live => task[t] \in Live \/ t \in early'
  PROVE  PrerequisitesFinished'
<1> SUFFICES ASSUME ~crossed, NEW d \in Dependency, d.kind = "FINISH_TO_START",
                    task'[d.task] \in Live, d.task \notin early'
             PROVE  task'[d.on] \in {"COMPLETED", "SKIPPED"}
  BY DEF PrerequisitesFinished
<1>1. d.task \in Task /\ d.on \in Task
  BY DependencyOrdered
<1>2. task[d.task] \in Live /\ d.task \notin early
  BY <1>1
<1>3. task[d.on] \in {"COMPLETED", "SKIPPED"}
  BY <1>2, Finished
<1> QED BY <1>1, <1>3 DEF TaskTerminal

\* advance keeps the invariant: what it opens has its dependencies met, and
\* it completes the instance only when every task is done.
LEMMA AdvanceInvariant ==
  ASSUME IInv, NEW t \in Task, NEW target \in AdvanceTargets, Advance(t, target)
  PROVE  IInv'
<1> DEFINE st == [task EXCEPT ![t] = target]
<1>1. st \in Statuses /\ task \in Statuses /\ target \in TaskTerminal
  BY DEF IInv, TypeOK, Statuses, AdvanceTargets, UsedStatus, TaskStatus, TaskTerminal
<1>2. task' = Opened(st) /\ Remember(Opened(st), {}, {})
  BY DEF Advance
<1>3. /\ task' \in Statuses
      /\ \A u \in Task : \/ task'[u] = st[u]
                         \/ /\ st[u] \in Unopened
                            /\ DependenciesMet(u, st)
                            /\ task'[u] = "READY"
  BY <1>1, <1>2, OpenedChanges
<1>4. /\ flagged' \subseteq {u \in Verification : task'[u] = "BLOCKED"}
      /\ early' \subseteq {u \in Task : task'[u] \in Live}
      /\ \A u \in Task : u \in early /\ task'[u] \in Live => u \in early'
  BY <1>2, <1>3 DEF Remember, Marks, IInv, TypeOK
<1>5. \A u \in Task : task[u] \in {"COMPLETED", "SKIPPED"} => task'[u] = task[u]
  <2> SUFFICES ASSUME NEW u \in Task, task[u] \in {"COMPLETED", "SKIPPED"}
               PROVE  task'[u] = task[u]
    OBVIOUS
  <2>1. st[u] = task[u]
    <3>1. CASE u # t
      BY <3>1, <1>1 DEF Statuses
    <3>2. CASE u = t
      <4>1. target = task[u]
        BY <3>2, <1>1, TerminalMayNotMove DEF Advance, TaskTerminal, TaskStatus
      <4> QED BY <3>2, <4>1, <1>1 DEF Statuses
    <3> QED BY <3>1, <3>2
  <2> QED BY <2>1, <1>3 DEF Unopened
<1>6. TypeOK'
  <2>1. inst' \in {"INITIALIZED", "RUNNING", "COMPLETED", "CANCELLED"}
    BY DEF Advance, AdvancedInstance, IInv, TypeOK
  <2> QED BY <2>1, <1>2, <1>3, <1>4 DEF IInv, TypeOK, Remember, Statuses
<1>7. PrerequisitesFinished'
  <2> SUFFICES ASSUME ~crossed, NEW d \in Dependency, d.kind = "FINISH_TO_START",
                      task'[d.task] \in Live, d.task \notin early'
               PROVE  task'[d.on] \in {"COMPLETED", "SKIPPED"}
    BY <1>2 DEF PrerequisitesFinished, Remember
  <2>1. d.task \in Task /\ d.on \in Task
    BY DependencyOrdered
  <2>2. CASE task'[d.task] = st[d.task] /\ d.task # t
    <3>1. task[d.task] \in Live /\ d.task \notin early
      BY <2>1, <2>2, <1>1, <1>4 DEF Statuses
    <3> QED BY <3>1, <2>1, <1>5, Finished
  <2>3. CASE task'[d.task] = st[d.task] /\ d.task = t
    <3>1. target = "COMPLETED"
      BY <2>1, <2>3, <1>1 DEF Statuses, Live, TaskTerminal
    <3>2. task[t] \in Live
      BY <3>1, <1>1 DEF Advance, TaskMayMove, TaskTransitions, Live, Statuses, UsedStatus, TaskStatus
    <3>3. d.task \notin early
      BY <2>1, <1>4
    <3> QED BY <2>3, <3>2, <3>3, <2>1, <1>5, Finished
  <2>4. CASE DependenciesMet(d.task, st)
    <3>1. st[d.on] \in {"COMPLETED", "SKIPPED"}
      BY <2>4 DEF DependenciesMet, Satisfies
    <3> QED BY <3>1, <2>1, <1>3 DEF Unopened
  <2> QED BY <2>1, <2>2, <2>3, <2>4, <1>3
<1>8. EndedIsSettled'
  <2>1. inst' # "CANCELLED"
    BY DEF Advance, AdvancedInstance, InstanceTerminal
  <2>2. ASSUME inst' = "COMPLETED" PROVE AllDone(task')
    <3>1. AllDone(st)
      BY <2>2 DEF Advance, AdvancedInstance, InstanceTerminal
    <3> QED BY <3>1, <1>3 DEF AllDone, CountsAsDone, Unopened
  <2> QED BY <2>1, <2>2 DEF EndedIsSettled
<1> QED BY <1>6, <1>7, <1>8 DEF IInv

\* Every task of an ended instance is in a terminal status.
LEMMA EndedTasksAreTerminal ==
  ASSUME IInv, ~crossed, inst \in InstanceTerminal
  PROVE  \A t \in Task : task[t] \in TaskTerminal
BY DEF IInv, TypeOK, EndedIsSettled, AllDone, CountsAsDone, InstanceTerminal, TaskTerminal

\* A write to the status of one task that is not terminal keeps the
\* invariant, when what it makes live was live before or is recorded.
LEMMA WriteInvariant ==
  ASSUME IInv, NEW t \in Task, NEW s \in UsedStatus,
         task' = [task EXCEPT ![t] = s], UNCHANGED inst,
         s = task[t] \/ task[t] \notin TaskTerminal,
         NEW newFlags, newFlags \subseteq Verification,
         NEW newEarly, newEarly \subseteq {t},
         Remember(task', newFlags, newEarly),
         s \in Live => task[t] \in Live \/ t \in newEarly
  PROVE  IInv'
<1>1. task' \in Statuses /\ task \in Statuses
  BY DEF IInv, TypeOK, Statuses
<1>2. TypeOK'
  BY <1>1 DEF IInv, TypeOK, Remember, Marks, Statuses
<1>3. PrerequisitesFinished'
  <2>1. \A u \in Task : task'[u] = task[u] \/ task[u] \notin TaskTerminal
    BY <1>1 DEF Statuses
  <2>2. \A u \in Task : u \in early /\ task'[u] \in Live => u \in early'
    BY DEF Remember, Marks
  <2>3. \A u \in Task : task'[u] \in Live => task[u] \in Live \/ u \in early'
    BY <1>1 DEF Remember, Marks, Statuses
  <2> QED BY <1>1, <2>1, <2>2, <2>3, LocalStepKeepsPrerequisites DEF Remember
<1>4. EndedIsSettled'
  <2> SUFFICES ASSUME ~crossed PROVE EndedIsSettled'
    BY DEF EndedIsSettled, Remember
  <2>1. CASE inst \in InstanceTerminal
    <3>1. task' = task
      BY <1>1, <2>1, EndedTasksAreTerminal DEF Statuses
    <3> QED BY <3>1 DEF IInv, EndedIsSettled
  <2>2. CASE inst \notin InstanceTerminal
    BY <2>2 DEF EndedIsSettled, InstanceTerminal
  <2> QED BY <2>1, <2>2
<1> QED BY <1>2, <1>3, <1>4 DEF IInv

\* A status write of the production services keeps the invariant: none of them
\* touches a terminal task, and those that open a BLOCKED task are recorded.
LEMMA FloorWriteInvariant ==
  ASSUME IInv, NEW t \in Task, NEW s \in TaskStatus, FloorWrite(t, s)
  PROVE  IInv'
<1> DEFINE newEarly == IF task[t] = "BLOCKED" THEN {t} ELSE {}
<1>1. task[t] \in UsedStatus
  BY DEF IInv, TypeOK
<1>2. task[t] \notin TaskTerminal
  BY DEF FloorWrite, FloorMoves, AssignMoves, ReassignMoves, UnassignMoves, StartMoves,
         PauseMoves, HoldMoves, ResumeMoves, ClaimMoves, NonTerminal, TaskTerminal
<1>3. s \in {"ASSIGNED", "READY", "IN_PROGRESS", "PAUSED", "ON_HOLD"}
  BY DEF FloorWrite, FloorMoves, AssignMoves, ReassignMoves, UnassignMoves, StartMoves,
         PauseMoves, HoldMoves, ResumeMoves, ClaimMoves
<1>4. s \in Live => task[t] \in Live \/ t \in newEarly
  BY <1>1, <1>2 DEF UsedStatus, TaskStatus, TaskTerminal, Live
<1>5. newEarly \subseteq {t}
  OBVIOUS
<1>6. /\ task' = [task EXCEPT ![t] = s]
      /\ UNCHANGED inst
      /\ Remember(task', {}, newEarly)
  BY DEF FloorWrite
<1>7. s \in UsedStatus
  BY <1>3 DEF UsedStatus, TaskStatus
<1> HIDE DEF newEarly
<1> QED BY <1>2, <1>4, <1>5, <1>6, <1>7, WriteInvariant

\* Holding an inspected task keeps the invariant: it was in progress or held.
LEMMA QcHoldInvariant ==
  ASSUME IInv, NEW q \in Inspection, QcHold(q)
  PROVE  IInv'
<1>1. q \in Task /\ task[q] \in UsedStatus
  BY StepKinds DEF IInv, TypeOK
<1>2. task[q] \in {"IN_PROGRESS", "ON_HOLD"}
  BY <1>1 DEF QcHold, TaskMayMove, TaskTransitions, UsedStatus, TaskStatus
<1>3. "ON_HOLD" \in UsedStatus /\ task[q] \notin TaskTerminal /\ task[q] \in Live
  BY <1>2 DEF UsedStatus, TaskStatus, TaskTerminal, Live
<1>4. /\ task' = [task EXCEPT ![q] = "ON_HOLD"]
      /\ UNCHANGED inst
      /\ Remember(task', {}, {})
  BY DEF QcHold
<1>5. {} \subseteq Verification /\ {} \subseteq {q}
  OBVIOUS
<1> QED BY <1>1, <1>3, <1>4, <1>5, WriteInvariant

\* A flag keeps the invariant: it blocks a task that was not yet done.
LEMMA FlagInvariant ==
  ASSUME IInv, NEW t \in Task, FlagForCorrection(t)
  PROVE  IInv'
<1> DEFINE newFlags == {t}
           newEarly == {}
           s == "BLOCKED"
<1>1. task[t] \in UsedStatus
  BY DEF IInv, TypeOK
<1>2. s \in UsedStatus /\ task[t] \notin TaskTerminal
  BY <1>1 DEF FlagForCorrection, TaskMayMove, TaskTransitions, UsedStatus, TaskStatus,
              TaskTerminal
<1>3. /\ task' = [task EXCEPT ![t] = s]
      /\ inst' = inst
      /\ Remember(task', newFlags, newEarly)
  BY DEF FlagForCorrection
<1>4. /\ newFlags \subseteq Verification
      /\ newEarly \subseteq {t}
      /\ s \in Live => task[t] \in Live \/ t \in newEarly
  BY DEF FlagForCorrection, Live
<1> HIDE DEF newFlags, newEarly, s
<1> QED BY <1>2, <1>3, <1>4, WriteInvariant

\* A resolution keeps the invariant: the task it opens is recorded as opened
\* by a person.
LEMMA ResolveInvariant ==
  ASSUME IInv, NEW t \in Task, ResolveCorrection(t)
  PROVE  IInv'
<1> DEFINE newFlags == {}
           newEarly == {t}
           s == "READY"
<1>1. s \in UsedStatus /\ task[t] \notin TaskTerminal
  BY DEF ResolveCorrection, UsedStatus, TaskStatus, TaskTerminal
<1>2. /\ task' = [task EXCEPT ![t] = s]
      /\ inst' = inst
      /\ Remember(task', newFlags, newEarly)
  BY DEF ResolveCorrection
<1>3. /\ newFlags \subseteq Verification
      /\ newEarly \subseteq {t}
      /\ s \in Live => task[t] \in Live \/ t \in newEarly
  OBVIOUS
<1> HIDE DEF newFlags, newEarly, s
<1> QED BY <1>1, <1>2, <1>3, WriteInvariant

\* Cancelling keeps the invariant: what was done stays done, nothing else
\* stays open.
LEMMA CancelInvariant ==
  ASSUME IInv, CancelInstance
  PROVE  IInv'
<1>1. /\ task' = [t \in Task |-> IF task[t] \in TaskTerminal THEN task[t] ELSE "CANCELLED"]
      /\ inst' = "CANCELLED"
      /\ Remember(task', {}, {})
  BY DEF CancelInstance
<1>2. task' \in Statuses
  BY <1>1 DEF IInv, TypeOK, Statuses, UsedStatus, TaskStatus
<1>3. TypeOK'
  BY <1>1, <1>2 DEF IInv, TypeOK, Remember, Marks, Statuses
<1>4. PrerequisitesFinished'
  <2>1. \A u \in Task : task'[u] = task[u] \/ task[u] \notin TaskTerminal
    BY <1>1
  <2>2. \A u \in Task : u \in early /\ task'[u] \in Live => u \in early'
    BY <1>1 DEF Remember, Marks
  <2>3. \A u \in Task : task'[u] \in Live => task[u] \in Live \/ u \in early'
    BY <1>1 DEF Live
  <2> QED BY <1>1, <1>2, <2>1, <2>2, <2>3, LocalStepKeepsPrerequisites DEF Remember
<1>5. EndedIsSettled'
  BY <1>1 DEF EndedIsSettled, TaskTerminal
<1> QED BY <1>3, <1>4, <1>5 DEF IInv

\* Sending back keeps the invariant.  A prerequisite stops being finished
\* only when it is the target or comes after it; whatever depends on it comes
\* later still, so it is blocked in the same transaction.
LEMMA SendBackInvariant ==
  ASSUME IInv, NEW source \in Task, NEW target \in Task, SendBack(source, target),
         task[source] \notin TaskTerminal
  PROVE  IInv'
<1>1. /\ task' = SentBack(source, target)
      /\ Remember(task', {}, OpenedByRework(target))
      /\ inst' = inst
  BY DEF SendBack
<1>2. task' \in Statuses /\ task \in Statuses
  BY <1>1, SentBackType DEF IInv, TypeOK, Statuses
<1>3. TypeOK'
  BY <1>1, <1>2 DEF IInv, TypeOK, Remember, Marks, OpenedByRework, Statuses
<1>4. PrerequisitesFinished'
  <2> SUFFICES ASSUME ~crossed, NEW d \in Dependency, d.kind = "FINISH_TO_START",
                      task'[d.task] \in Live, d.task \notin early'
               PROVE  task'[d.on] \in {"COMPLETED", "SKIPPED"}
    BY <1>1 DEF PrerequisitesFinished, Remember
  <2>1. /\ d.task \in Task /\ d.on \in Task
        /\ StepOrder[d.on] < StepOrder[d.task]
        /\ \A u \in Task : StepOrder[u] \in Nat
    BY DependencyOrdered, StepOrderUnique
  <2>2. task[d.task] \in Live /\ d.task \notin early /\ StepOrder[d.task] <= StepOrder[target]
    <3>1. CASE d.task = target
      <4>1. task'[target] \in Live /\ target \in Task
        BY <3>1, <2>1
      <4>2. target \notin early \cup OpenedByRework(target)
        BY <1>1, <3>1, <4>1 DEF Remember, Marks
      <4> QED BY <2>1, <3>1, <4>2 DEF OpenedByRework, Live
    <3>2. CASE d.task # target
      <4>1. d.task # source /\ task'[d.task] = task[d.task]
        BY <1>1, <1>2, <2>1, <3>2, SentBackType DEF Live
      <4>2. ~(StepOrder[d.task] > StepOrder[target])
        BY <1>1, <1>2, <2>1, <3>2, <4>1, SentBackType DEF Live
      <4>3. d.task \notin early
        BY <1>1, <2>1 DEF Remember, Marks
      <4> QED BY <2>1, <4>1, <4>2, <4>3
    <3> QED BY <3>1, <3>2
  <2>3. task[d.on] \in {"COMPLETED", "SKIPPED"}
    BY <2>2, Finished
  <2>4. d.on # source /\ d.on # target /\ ~(StepOrder[d.on] > StepOrder[target])
    BY <2>1, <2>2, <2>3 DEF TaskTerminal
  <2> QED BY <1>1, <1>2, <2>1, <2>3, <2>4, SentBackType
<1>5. EndedIsSettled'
  <2> SUFFICES ASSUME ~crossed PROVE EndedIsSettled'
    BY <1>1 DEF EndedIsSettled, Remember
  <2> QED BY <1>1, EndedTasksAreTerminal DEF EndedIsSettled, InstanceTerminal
<1> QED BY <1>3, <1>4, <1>5 DEF IInv

\* A rework between two workflows, seen from either.
Crosses ==
  \/ \E q \in Inspection, position \in Position : QcReworkElsewhere(q, position)
  \/ \E t \in Task : ReworkFromOutside(t)

\* It leaves statuses that are ever written.
LEMMA CrossingInvariant ==
  ASSUME IInv, Crosses
  PROVE  IInv' /\ crossed'
<1>1. task \in Statuses
  BY DEF IInv, TypeOK, Statuses
<1>2. crossed' = TRUE /\ inst' = inst
  BY DEF Crosses, QcReworkElsewhere, ReworkFromOutside
<1>3. task' \in Statuses
  BY <1>1 DEF Crosses, QcReworkElsewhere, ReworkFromOutside, BlockedAfter, Statuses,
              UsedStatus, TaskStatus
<1>4. /\ flagged' \subseteq {t \in Verification : task'[t] = "BLOCKED"}
      /\ early' \subseteq {t \in Task : task'[t] \in Live}
  BY StepKinds DEF Crosses, QcReworkElsewhere, ReworkFromOutside, Marks, OpenedByRework,
                   IInv, TypeOK
<1>5. TypeOK'
  BY <1>2, <1>3, <1>4 DEF IInv, TypeOK, Statuses
<1> QED BY <1>2, <1>5 DEF IInv, PrerequisitesFinished, EndedIsSettled

\* Every step of the specification keeps the invariant.
LEMMA NextInvariant == IInv /\ [Next]_vars => IInv'
<1> SUFFICES ASSUME IInv, [Next]_vars PROVE IInv'
  OBVIOUS
<1>1. CASE \E t \in Task, target \in AdvanceTargets : Advance(t, target)
  BY <1>1, AdvanceInvariant
<1>2. ASSUME NEW q \in Inspection, NEW target \in Task, QcRework(q, target)
      PROVE  IInv'
  <2>1. q \in Task /\ task[q] \in UsedStatus
    BY StepKinds DEF IInv, TypeOK
  <2>2. task[q] \notin TaskTerminal
    BY <1>2, <2>1 DEF QcRework, TaskMayMove, TaskTransitions, UsedStatus, TaskStatus,
                      TaskTerminal
  <2> QED BY <1>2, <2>1, <2>2, SendBackInvariant DEF QcRework
<1>3. CASE \E q \in Inspection : QcReworkDefault(q)
  BY <1>2, <1>3 DEF QcReworkDefault, QcRework
<1>4. CASE \E q \in Inspection : QcHold(q)
  BY <1>4, QcHoldInvariant
<1>5. CASE \E g \in Gate : RejectVendorApproval(g)
  <2>1. PICK g \in Gate : RejectVendorApproval(g)
    BY <1>5
  <2>2. PICK target \in DefaultReworkTarget(g) : SendBack(g, target)
    BY <2>1 DEF RejectVendorApproval
  <2>3. g \in Task /\ target \in Task
    BY <2>2, StepKinds, DefaultReworkTargetIsTask
  <2>4. task[g] \notin TaskTerminal
    BY <2>1 DEF RejectVendorApproval, OpenGates, OpenGateStatus, TaskTerminal
  <2> QED BY <2>2, <2>3, <2>4, SendBackInvariant
<1>6. CASE \E t \in Task : FlagForCorrection(t)
  BY <1>6, FlagInvariant
<1>7. CASE \E t \in Task : ResolveCorrection(t)
  BY <1>7, ResolveInvariant
<1>8. CASE CancelInstance
  BY <1>8, CancelInvariant
<1>9. CASE \E t \in Task, s \in TaskStatus : FloorWrite(t, s)
  BY <1>9, FloorWriteInvariant
<1>10. CASE UNCHANGED vars
  BY <1>10 DEF vars, IInv, TypeOK, PrerequisitesFinished, EndedIsSettled, AllDone
<1>11. CASE Crosses
  BY <1>11, CrossingInvariant
<1> QED BY <1>1, <1>2, <1>3, <1>4, <1>5, <1>6, <1>7, <1>8, <1>9, <1>10, <1>11 DEF Next, Crosses

\* What a rework has crossed stays marked.
LEMMA CrossedStays ==
  ASSUME IInv, [Next]_vars, crossed
  PROVE  crossed'
<1>1. CASE Crosses
  BY <1>1, CrossingInvariant
<1>2. CASE ~Crosses
  BY <1>2 DEF Next, Crosses, Advance, QcReworkDefault, QcRework, SendBack, QcHold,
     RejectVendorApproval, FlagForCorrection, ResolveCorrection, CancelInstance, FloorWrite,
     Remember, vars
<1> QED BY <1>1, <1>2

(***************************************************************************)
(* The theorems.                                                           *)
(***************************************************************************)

\* The inductive invariant holds in every reachable state.
THEOREM InvariantHolds == Spec => []IInv
BY InitInvariant, NextInvariant, PTL DEF Spec

\* Task and instance statuses stay within those the engine writes, and the
\* history variables stay about the tasks they name.
THEOREM TypeCorrect == Spec => []TypeOK
<1>1. IInv => TypeOK
  BY DEF IInv
<1> QED BY <1>1, InvariantHolds, PTL

\* For every template: a task opened by its dependencies is live only while
\* each of its finish-to-start prerequisites is finished, through any
\* sequence of completions, reworks, rejections, flags and cancellations.
THEOREM PrerequisitesStayFinished == Spec => []PrerequisitesFinished
<1>1. IInv => PrerequisitesFinished
  BY DEF IInv
<1> QED BY <1>1, InvariantHolds, PTL

\* For every template: an instance that completed or was cancelled leaves no
\* open task.
THEOREM EndedStaysSettled == Spec => []EndedIsSettled
<1>1. IInv => EndedIsSettled
  BY DEF IInv
<1> QED BY <1>1, InvariantHolds, PTL


\* For every template: once the instance has ended, no transaction of the
\* engine or of the floor changes its status or any of its tasks, as long as
\* no rework comes to it from another workflow.
THEOREM EndedStaysFrozen == Spec => EndedIsFrozen
<1>1. ASSUME IInv, [Next]_vars, inst \in InstanceTerminal, ~crossed'
      PROVE  UNCHANGED <<inst, task>>
  <2>0. ~crossed
    BY <1>1, CrossedStays
  <2>1. /\ \A t \in Task : task[t] \in TaskTerminal \cap UsedStatus
        /\ task \in Statuses
    BY <1>1, <2>0, EndedTasksAreTerminal DEF IInv, TypeOK, Statuses
  <2>2. ASSUME NEW t \in Task, TaskMayMove(task[t], "BLOCKED") PROVE FALSE
    BY <2>1, <2>2 DEF TaskMayMove, TaskTransitions, TaskTerminal
  <2>3. CASE \E t \in Task, target \in AdvanceTargets : Advance(t, target)
    BY <1>1, <2>3 DEF Advance
  <2>4. ASSUME NEW q \in Inspection, NEW target \in Task, QcRework(q, target)
        PROVE  FALSE
    BY <2>2, <2>4, StepKinds DEF QcRework
  <2>5. CASE \E q \in Inspection : QcReworkDefault(q)
    BY <2>4, <2>5 DEF QcReworkDefault, QcRework
  <2>6. CASE \E q \in Inspection : QcHold(q)
    BY <2>1, <2>6, StepKinds DEF QcHold, TaskMayMove, TaskTransitions, TaskTerminal
  <2>7. CASE \E g \in Gate : RejectVendorApproval(g)
    BY <2>1, <2>7, StepKinds DEF RejectVendorApproval, OpenGates, OpenGateStatus, TaskTerminal
  <2>8. CASE \E t \in Task : FlagForCorrection(t)
    BY <2>2, <2>8 DEF FlagForCorrection
  <2>9. CASE \E t \in Task : ResolveCorrection(t)
    BY <2>1, <2>9 DEF ResolveCorrection, TaskTerminal
  <2>10. CASE CancelInstance
    BY <1>1, <2>10 DEF CancelInstance
  <2>11. CASE \E t \in Task, s \in TaskStatus : FloorWrite(t, s)
    BY <2>1, <2>11 DEF FloorWrite, FloorMoves, AssignMoves, ReassignMoves, UnassignMoves,
       StartMoves, PauseMoves, HoldMoves, ResumeMoves, ClaimMoves, NonTerminal, TaskTerminal
  <2>12. CASE UNCHANGED vars
    BY <2>12 DEF vars
  <2>13. CASE Crosses
    BY <1>1, <2>13, CrossingInvariant
  <2> QED BY <1>1, <2>3, <2>4, <2>5, <2>6, <2>7, <2>8, <2>9, <2>10, <2>11, <2>12, <2>13
          DEF Next, Crosses
<1>2. IInv /\ [Next]_vars =>
        [(inst \in InstanceTerminal) => UNCHANGED <<inst, task>> \/ crossed']_vars
  BY <1>1
<1> QED BY <1>2, InvariantHolds, PTL DEF Spec, EndedIsFrozen


\* For every template: work that is done is undone only by sending the
\* workflow back to it or to an earlier task, with everything after that one,
\* or by a rework between this workflow and another.
THEOREM CompletedWorkStays == Spec => CompletedUndoneOnlyByRework
<1> DEFINE UndoneByRework(t) ==
             \E r \in Task :
               /\ task'[r] = "REWORK"
               /\ StepOrder[r] <= StepOrder[t]
               /\ \A u \in Task : StepOrder[u] > StepOrder[r] => task'[u] # "COMPLETED"
<1>1. ASSUME IInv, [Next]_vars, NEW t \in Task, task[t] = "COMPLETED", task'[t] # "COMPLETED",
             ~crossed'
      PROVE  UndoneByRework(t)
  <2> USE DEF UndoneByRework
  <2>1. /\ task \in Statuses /\ "COMPLETED" \in TaskTerminal
        /\ \A u \in Task : StepOrder[u] \in Nat
        /\ "BLOCKED" \in TaskStatus /\ "ON_HOLD" \in TaskStatus
    BY <1>1, StepOrderUnique DEF IInv, TypeOK, Statuses, TaskTerminal, TaskStatus
  <2>2. ASSUME NEW source \in Task, NEW target \in Task, SendBack(source, target),
               task[source] # "COMPLETED"
        PROVE  UndoneByRework(t)
    <3>1. \A u \in Task :
            task'[u] = IF u = target THEN "REWORK"
                       ELSE IF \/ u = source
                               \/ /\ StepOrder[u] > StepOrder[target]
                                  /\ task[u] \notin {"CANCELLED", "SKIPPED"}
                       THEN "BLOCKED" ELSE task[u]
      BY <2>1, <2>2, SentBackType DEF SendBack
    <3>2. task'[target] = "REWORK"
      BY <3>1
    <3>3. StepOrder[target] <= StepOrder[t]
      BY <1>1, <2>1, <2>2, <3>1
    <3>4. ASSUME NEW u \in Task, StepOrder[u] > StepOrder[target] PROVE task'[u] # "COMPLETED"
      BY <2>1, <3>1, <3>4
    <3> QED BY <3>2, <3>3, <3>4
  <2>3. ASSUME NEW to \in TaskStatus, to # "COMPLETED", NEW u \in Task, TaskMayMove(task[u], to)
        PROVE  task[u] # "COMPLETED"
    BY <2>1, <2>3, TerminalMayNotMove
  <2>4. ASSUME NEW q \in Inspection, NEW target \in Task, QcRework(q, target)
        PROVE  UndoneByRework(t)
    BY <2>1, <2>2, <2>3, <2>4, StepKinds DEF QcRework
  <2>5. ASSUME NEW q \in Inspection, QcReworkDefault(q) PROVE UndoneByRework(t)
    BY <2>4, <2>5 DEF QcReworkDefault, QcRework
  <2>6. ASSUME NEW g \in Gate, RejectVendorApproval(g) PROVE UndoneByRework(t)
    <3>1. PICK target \in DefaultReworkTarget(g) : SendBack(g, target)
      BY <2>6 DEF RejectVendorApproval
    <3>2. g \in Task /\ target \in Task /\ task[g] # "COMPLETED"
      BY <2>6, StepKinds, DefaultReworkTargetIsTask
         DEF RejectVendorApproval, OpenGates, OpenGateStatus
    <3> QED BY <2>2, <3>1, <3>2
  <2>7. ASSUME NEW u \in Task, NEW target \in AdvanceTargets, Advance(u, target) PROVE FALSE
    <3> DEFINE st == [task EXCEPT ![u] = target]
    <3>1. st \in Statuses /\ target \in TaskStatus
      BY <2>1 DEF Statuses, AdvanceTargets, UsedStatus, TaskStatus
    <3>2. st[t] = "COMPLETED"
      <4>1. CASE t = u
        BY <1>1, <2>1, <2>7, <3>1, <4>1, TerminalMayNotMove DEF Advance, Statuses
      <4>2. CASE t # u
        BY <1>1, <2>1, <4>2 DEF Statuses
      <4> QED BY <4>1, <4>2
    <3>3. task' = Opened(st)
      BY <2>7 DEF Advance
    <3> HIDE DEF st
    <3>4. Opened(st)[t] = "COMPLETED"
      BY <3>1, <3>2, OpenedChanges DEF Unopened
    <3> QED BY <1>1, <3>3, <3>4
  <2>8. ASSUME NEW u \in Task,
               \/ u \in Inspection /\ QcHold(u)
               \/ FlagForCorrection(u)
               \/ ResolveCorrection(u)
        PROVE  FALSE
    BY <1>1, <2>1, <2>3, <2>8 DEF QcHold, FlagForCorrection, ResolveCorrection, Statuses
  <2>9. ASSUME CancelInstance PROVE FALSE
    BY <1>1, <2>1, <2>9 DEF CancelInstance
  <2>10. ASSUME NEW u \in Task, NEW status \in TaskStatus, FloorWrite(u, status) PROVE FALSE
    BY <1>1, <2>1, <2>10, FloorMovesFromOpen DEF FloorWrite, Statuses
  <2>11. CASE UNCHANGED vars
    BY <1>1, <2>11 DEF vars
  <2>12. CASE Crosses
    BY <1>1, <2>12, CrossingInvariant
  <2> QED BY <1>1, <2>4, <2>5, <2>6, <2>7, <2>8, <2>9, <2>10, <2>11, <2>12, StepKinds
          DEF Next, Crosses
<1>2. IInv /\ [Next]_vars =>
        [\A t \in Task : task[t] = "COMPLETED" /\ task'[t] # "COMPLETED" =>
           \/ crossed'
           \/ UndoneByRework(t)]_vars
  BY <1>1
<1> QED BY <1>2, InvariantHolds, PTL DEF Spec, CompletedUndoneOnlyByRework

(***************************************************************************)
(* Something is open.                                                      *)
(***************************************************************************)

\* Of any tasks, one comes first.
LEMMA FirstTask ==
  ASSUME NEW S \in SUBSET Task, S # {}
  PROVE  \E t \in S : \A u \in S : StepOrder[t] <= StepOrder[u]
<1> DEFINE Earlier == {ss \in Nat \X Nat : ss[1] < ss[2]}
           Orders == {StepOrder[t] : t \in S}
<1>1. IsWellFoundedOn(Earlier, Nat)
  BY NatLessThanWellFounded DEF OpToRel
<1>2. \A m, n \in Nat : m < n => <<m, n>> \in Earlier
  OBVIOUS
<1>3. Orders \subseteq Nat /\ Orders # {}
  BY StepOrderUnique
<1> HIDE DEF Earlier
<1>4. PICK n \in Orders : \A m \in Orders : <<m, n>> \notin Earlier
  <2> HIDE DEF Orders
  <2> QED BY <1>1, <1>3, WFMin
<1>5. PICK t \in S : n = StepOrder[t]
  OBVIOUS
<1>6. \A u \in S : ~(StepOrder[u] < StepOrder[t])
  BY <1>2, <1>3, <1>4, <1>5
<1>7. \A u \in S : StepOrder[u] \in Nat
  BY StepOrderUnique
<1> QED BY <1>5, <1>6, <1>7

\* An advance that leaves work to do leaves a task open: the first of the
\* blocked ones waits for nothing any more.
LEMMA AdvanceOpensSome ==
  ASSUME NEW st \in Statuses, ~AllDone(st), \A t \in Task : Opened(st)[t] # "CANCELLED"
  PROVE  \E t \in Task : Opened(st)[t] \in Live \ {"COMPLETED"}
<1>1. \A t \in Task : /\ Opened(st)[t] = IF t \in ReadyTasks(st) THEN "READY" ELSE st[t]
                      /\ t \in ReadyTasks(st) => st[t] \in Unopened
  BY DEF Opened, ReadyTasks
<1>2. \A t \in Task : st[t] \in (Live \ {"COMPLETED"}) \cup {"BLOCKED", "COMPLETED", "SKIPPED"}
  BY <1>1 DEF Statuses, UsedStatus, TaskStatus, Live, Unopened
<1>3. CASE \E t \in Task : st[t] \in Live \ {"COMPLETED"}
  BY <1>1, <1>3 DEF Live, Unopened
<1>4. CASE \A t \in Task : st[t] \notin Live \ {"COMPLETED"}
  <2> DEFINE Waiting == {t \in Task : st[t] = "BLOCKED"}
  <2>1. \A t \in Task \ Waiting : st[t] \in {"COMPLETED", "SKIPPED"}
    BY <1>2, <1>4
  <2>2. Waiting # {}
    BY <2>1 DEF AllDone, CountsAsDone
  <2>3. PICK t \in Waiting : \A u \in Waiting : StepOrder[t] <= StepOrder[u]
    BY <2>2, FirstTask
  <2>4. DependenciesMet(t, st)
    <3> SUFFICES ASSUME NEW d \in Dependency, d.task = t PROVE Satisfies(d.kind, st[d.on])
      BY DEF DependenciesMet
    <3>1. d.on \in Task /\ StepOrder[d.on] < StepOrder[t] /\ t \in Task
      BY DependencyOrdered
    <3>2. StepOrder[d.on] \in Nat /\ StepOrder[t] \in Nat
      BY <3>1, StepOrderUnique
    <3>3. d.on \notin Waiting
      BY <2>3, <3>1, <3>2
    <3> QED BY <2>1, <3>1, <3>3 DEF Satisfies
  <2>5. t \in ReadyTasks(st)
    BY <2>4 DEF ReadyTasks, Unopened
  <2> QED BY <1>1, <2>5 DEF Live
<1> QED BY <1>3, <1>4

\* The templates the repository seeds begin with their only review.  A review
\* that comes after an inspection may be blocked by hand while the inspection
\* it waits for is blocked too, and then nothing is left open.
ReviewsComeFirst == \A d \in Dependency : d.task \notin Verification

\* For every template whose reviews wait for nothing: a running workflow in
\* which nothing was cancelled, and which no rework has crossed, has a task
\* that is open, or a blocked review that waits for its correction.
THEOREM SomethingStaysOpen ==
  ASSUME ReviewsComeFirst
  PROVE  Spec => []SomethingIsOpen
<1>1. ASSUME IInv, SomethingIsOpen, [Next]_vars,
             ~crossed', inst' = "RUNNING", \A t \in Task : task'[t] # "CANCELLED"
      PROVE  \/ \E t \in Task : task'[t] \in Live \ {"COMPLETED"}
             \/ \E t \in Verification : task'[t] = "BLOCKED" /\ DependenciesMet(t, task')
  <2>1. task \in Statuses
    BY <1>1 DEF IInv, TypeOK, Statuses
  <2>2. ASSUME NEW u \in Task, NEW target \in AdvanceTargets, Advance(u, target)
        PROVE  \E t \in Task : task'[t] \in Live \ {"COMPLETED"}
    <3> DEFINE st == [task EXCEPT ![u] = target]
    <3>1. st \in Statuses
      BY <2>1 DEF Statuses, AdvanceTargets, UsedStatus, TaskStatus
    <3>2. task' = Opened(st) /\ inst' = AdvancedInstance(inst, st)
      BY <2>2 DEF Advance
    <3> HIDE DEF st
    <3>3. ~AllDone(st)
      BY <1>1, <3>2 DEF AdvancedInstance
    <3> QED BY <1>1, <3>1, <3>2, <3>3, AdvanceOpensSome
  <2>3. ASSUME NEW source \in Task, NEW target \in Task, SendBack(source, target)
        PROVE  task'[target] = "REWORK"
    BY <2>1, <2>3, SentBackType DEF SendBack
  <2>4. ASSUME NEW q \in Inspection, NEW target \in Task, QcRework(q, target)
        PROVE  \E t \in Task : task'[t] = "REWORK"
    BY <2>3, <2>4, StepKinds DEF QcRework
  <2>5. ASSUME NEW q \in Inspection, QcReworkDefault(q)
        PROVE  \E t \in Task : task'[t] = "REWORK"
    BY <2>4, <2>5 DEF QcReworkDefault, QcRework
  <2>6. ASSUME NEW g \in Gate, RejectVendorApproval(g)
        PROVE  \E t \in Task : task'[t] = "REWORK"
    BY <2>3, <2>6, StepKinds, DefaultReworkTargetIsTask DEF RejectVendorApproval
  <2>7. ASSUME NEW q \in Inspection, QcHold(q) PROVE task'[q] = "ON_HOLD" /\ q \in Task
    BY <2>1, <2>7, StepKinds DEF QcHold, Statuses
  <2>8. ASSUME NEW t \in Task, FlagForCorrection(t)
        PROVE  t \in Verification /\ task'[t] = "BLOCKED" /\ DependenciesMet(t, task')
    BY <2>1, <2>8 DEF FlagForCorrection, Statuses, DependenciesMet, ReviewsComeFirst
  <2>9. ASSUME NEW t \in Task, ResolveCorrection(t) PROVE task'[t] = "READY"
    BY <2>1, <2>9 DEF ResolveCorrection, Statuses
  <2>10. ASSUME CancelInstance PROVE FALSE
    BY <1>1, <2>10 DEF CancelInstance
  <2>11. ASSUME NEW t \in Task, NEW status \in TaskStatus, FloorWrite(t, status)
         PROVE  task'[t] \in Live \ {"COMPLETED"}
    <3>1. status \in Live \ {"COMPLETED"}
      BY <2>11 DEF FloorWrite, FloorMoves, AssignMoves, ReassignMoves, UnassignMoves,
         StartMoves, PauseMoves, HoldMoves, ResumeMoves, ClaimMoves, Live
    <3> QED BY <2>1, <2>11, <3>1 DEF FloorWrite, Statuses
  <2>12. CASE UNCHANGED vars
    BY <1>1, <2>12 DEF vars, SomethingIsOpen
  <2>14. CASE Crosses
    BY <1>1, <2>14, CrossingInvariant
  <2>13. {"REWORK", "ON_HOLD", "READY"} \subseteq Live \ {"COMPLETED"}
    BY DEF Live
  <2> QED BY <1>1, <2>2, <2>4, <2>5, <2>6, <2>7, <2>8, <2>9, <2>10, <2>11, <2>12, <2>13, <2>14
          DEF Next, Crosses
<1>2. IInv /\ SomethingIsOpen /\ [Next]_vars => SomethingIsOpen'
  BY <1>1 DEF SomethingIsOpen, DependenciesMet
<1>3. Init => SomethingIsOpen
  <2> SUFFICES ASSUME Init, inst = "RUNNING" PROVE \E t \in Task : task[t] \in Live \ {"COMPLETED"}
    BY DEF SomethingIsOpen
  <2>1. PICK created : task = Opened(created) /\ ReadyTasks(created) # {}
    BY DEF Init
  <2>2. \A t \in ReadyTasks(created) : t \in Task /\ task[t] = "READY"
    BY <2>1 DEF Opened, ReadyTasks
  <2> QED BY <2>1, <2>2 DEF Live
<1> QED BY <1>2, <1>3, InvariantHolds, PTL DEF Spec
=============================================================================
