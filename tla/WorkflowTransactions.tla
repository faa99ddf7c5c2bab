------------------------ MODULE WorkflowTransactions ------------------------
(***************************************************************************)
(* The engine as the database runs it.  A request is a transaction at READ *)
(* COMMITTED, the isolation the code never changes: each statement sees    *)
(* what is committed when it starts, no row read is locked, and a row that *)
(* a transaction wrote stays locked until it ends.  Here advance,          *)
(* cancelInstance and the status writes of the production services are cut *)
(* at their statements, and several clients interleave.                    *)
(*                                                                         *)
(* The rows a transaction writes with its last statements are written by   *)
(* its commit: it needs their locks, keeps them to the end, and nobody     *)
(* sees them before.                                                       *)
(***************************************************************************)
EXTENDS WorkflowEngine

CONSTANT Client

VARIABLE tx   \* the transaction each client is in, and what it has read

allVars == <<vars, tx>>

Idle == [phase |-> "idle"]

Moves(c, transaction) == tx' = [tx EXCEPT ![c] = transaction]

\* Another client holds the row of task t: it has written it and not ended.
Locked(t, c) ==
  \E other \in Client \ {c} : tx[other].phase \in {"written", "decided"} /\ tx[other].task = t

TransactionsInit == Init /\ tx = [c \in Client |-> Idle]

(***************************************************************************)
(* advance.                                                                *)
(***************************************************************************)
ReadInstance(c, t, target) ==
  /\ tx[c] = Idle
  /\ inst \notin InstanceTerminal
  /\ Moves(c, [phase |-> "begun", task |-> t, target |-> target, inst |-> inst])
  /\ UNCHANGED vars

\* Mutant: the transition of the task is not asserted.
TakeOwnTask(c) ==
  /\ tx[c].phase = "begun"
  /\ Moves(c, [tx[c] EXCEPT !.phase = "checked"])
  /\ UNCHANGED vars

CheckOwnTask(c) ==
  /\ tx[c].phase = "begun"
  /\ TaskMayMove(task[tx[c].task], tx[c].target)
  /\ Moves(c, [tx[c] EXCEPT !.phase = "checked"])
  /\ UNCHANGED vars

\* The update names the row by id only, whatever its status has become.
WriteOwnTask(c) ==
  /\ tx[c].phase = "checked"
  /\ ~Locked(tx[c].task, c)
  /\ Moves(c, [tx[c] EXCEPT !.phase = "written"])
  /\ UNCHANGED vars

\* Mutant: the task is read before its own update.
StatusesBeforeWrite(c) == task

\* The committed statuses of the other tasks, and the own one.
StatusesSeen(c) == [task EXCEPT ![tx[c].task] = tx[c].target]

ReadAllTasks(c) ==
  /\ tx[c].phase = "written"
  /\ Moves(c, [phase |-> "decided", task |-> tx[c].task, target |-> tx[c].target,
               inst |-> tx[c].inst, seen |-> StatusesSeen(c)])
  /\ UNCHANGED vars

\* What the advance of c leaves: its own task, and READY for what it saw ready.
Advanced(c) ==
  [t \in Task |-> IF t = tx[c].task THEN tx[c].target
                  ELSE IF t \in ReadyTasks(tx[c].seen) THEN "READY"
                  ELSE task[t]]

CommitAdvance(c) ==
  LET decided == AdvancedInstance(tx[c].inst, tx[c].seen)
  IN  /\ tx[c].phase = "decided"
      /\ InstanceMayMove(tx[c].inst, decided)
      /\ \A t \in ReadyTasks(tx[c].seen) : ~Locked(t, c)
      /\ task' = Advanced(c)
      /\ inst' = IF decided = tx[c].inst THEN inst ELSE decided
      /\ Remember(Advanced(c), {}, {})
      /\ Moves(c, Idle)

(***************************************************************************)
(* cancelInstance: the tasks to cancel are listed first and then updated   *)
(* by id.                                                                  *)
(***************************************************************************)
BeginCancel(c) ==
  /\ tx[c] = Idle
  /\ inst \notin InstanceTerminal
  /\ Moves(c, [phase |-> "cancelling"])
  /\ UNCHANGED vars

ListOpenTasks(c) ==
  /\ tx[c].phase = "cancelling"
  /\ Moves(c, [phase |-> "listed", open |-> {t \in Task : task[t] \notin TaskTerminal}])
  /\ UNCHANGED vars

CommitCancel(c) ==
  /\ tx[c].phase = "listed"
  /\ \A t \in tx[c].open : ~Locked(t, c)
  /\ task' = [t \in Task |-> IF t \in tx[c].open THEN "CANCELLED" ELSE task[t]]
  /\ inst' = "CANCELLED"
  /\ Remember(task', {}, {})
  /\ Moves(c, Idle)

(***************************************************************************)
(* The production services check a status they read before their           *)
(* transaction begins, and then write the row by its id.                   *)
(***************************************************************************)
\* Mutant: a service that checks nothing before it writes.
TakeFloorMove(c, t, status) ==
  /\ tx[c] = Idle
  /\ Moves(c, [phase |-> "moving", task |-> t, target |-> status])
  /\ UNCHANGED vars

CheckFloorMove(c, t, status) ==
  /\ tx[c] = Idle
  /\ <<task[t], status>> \in FloorMoves
  /\ Moves(c, [phase |-> "moving", task |-> t, target |-> status])
  /\ UNCHANGED vars

CommitFloorMove(c) ==
  LET t == tx[c].task
  IN  /\ tx[c].phase = "moving"
      /\ ~Locked(t, c)
      /\ task' = [task EXCEPT ![t] = tx[c].target]
      /\ Remember(task', {}, IF task[t] = "BLOCKED" THEN {t} ELSE {})
      /\ UNCHANGED inst
      /\ Moves(c, Idle)

\* A transaction fails, loses a deadlock or its connection, or throws.
Abort(c) ==
  /\ tx[c] # Idle
  /\ Moves(c, Idle)
  /\ UNCHANGED vars

AdvanceStatements(c) ==
  CheckOwnTask(c) \/ WriteOwnTask(c) \/ ReadAllTasks(c) \/ CommitAdvance(c)

TransactionsNext ==
  \E c \in Client :
    \/ \E t \in Task, target \in AdvanceTargets : ReadInstance(c, t, target)
    \/ AdvanceStatements(c)
    \/ BeginCancel(c)
    \/ ListOpenTasks(c)
    \/ CommitCancel(c)
    \/ \E t \in Task, status \in TaskStatus : CheckFloorMove(c, t, status)
    \/ CommitFloorMove(c)
    \/ Abort(c)

TransactionsSpec == TransactionsInit /\ [][TransactionsNext]_allVars

\* Clients that only complete tasks, the same one twice included.
CompleteNext ==
  \E c \in Client :
    \/ \E t \in Task : ReadInstance(c, t, "COMPLETED")
    \/ AdvanceStatements(c)
    \/ Abort(c)

CompleteSpec == TransactionsInit /\ [][CompleteNext]_allVars

(***************************************************************************)
(* Properties.  Two of them are the specification of WorkflowEngine, Spec, *)
(* under requests that come one at a time (each of which may fail after    *)
(* any statement), and under concurrent completions of a chain of tasks.   *)
(***************************************************************************)

\* The tasks and instance keep to the statuses of the engine, and what a
\* transaction has read is a status function of the instance.
TransactionsTypeOK ==
  /\ TypeOK
  /\ \A c \in Client :
       /\ tx[c].phase \in {"begun", "checked", "written", "decided", "moving"} => tx[c].task \in Task
       /\ tx[c].phase = "decided" => tx[c].seen \in [Task -> UsedStatus]
       /\ tx[c].phase = "listed" => tx[c].open \subseteq Task

\* When no transaction is running, a task whose prerequisites have all
\* finished has been opened: the activation that follows a completion is not
\* lost, however the completions overlap.
FinishedPrerequisitesOpen ==
  (\A c \in Client : tx[c] = Idle) =>
    \A t \in Task : task[t] = "BLOCKED" => ~DependenciesMet(t, task)
=============================================================================
