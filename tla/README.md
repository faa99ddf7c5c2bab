# Formal models of geeta-backend

geeta-backend is the server of a print shop: vendors configure and order print
products, staff take each order item through a production workflow, orders are
dispatched in batches, and money moves through prepaid wallets that are
recharged by UPI. It is TypeScript on Express and Prisma over PostgreSQL. This
directory keeps TLA+ models of its core, the TLC configurations that check them
on small instances, and TLAPS proofs of the theorems that matter most. Paths
below are relative to `src/` (so `src/src/modules/...` is code, `src/docs/...`
documentation).

## 1. Inventory

How requests run: every HTTP request is an async handler of one or more Node
processes. A handler reads with Prisma, and writes in interactive transactions
(`prisma.$transaction`) at PostgreSQL's default isolation, READ COMMITTED. No
handler sets another isolation level; only the wallet and credit ledgers lock a
row before they read it. Between processes, and between the `await`s of one
process, any two handlers interleave at their statements. After a commit,
handlers emit events on an in-process bus, enqueue jobs and send notifications;
these are lost when the process ends, or handled late and beside other requests.

| Component | State it keeps | Operations | How it interacts | What is hard | What makes it correct |
|---|---|---|---|---|---|
| Workflow engine (`modules/workflow`) | one instance per order item, one task per template step, each with a status | create, advance (complete, skip, cancel), QC outcome, gate rejection, flag, resolve, cancel | called by orders, execution, QC, design approval, dispatch, cancellation, print engine | concurrent advances; rework after completed work; handlers that never look at the instance | tasks run in dependency order; ended workflows are settled and frozen; activations are not lost |
| Assignment, execution, QC (`modules/production`) | assignments, work sessions, inspections; they write the task's status themselves | assign, reassign, unassign, start, pause, hold, resume, complete, inspect | advance the engine in a second transaction | check-then-write across transactions; failure between the two commits | task and session agree; one active assignment per task |
| Design approval (`modules/design-approval`) | rounds of designs, requests to the vendor | claim, submit, approve, reject | advances or rejects at the vendor's gate | repeated rounds | a gate opens only for the approved design |
| Orders (`modules/orders`) | order status, items, receipts, amendments | place, amend, pay, derive status from tasks | creates workflows, debits wallets | status derived from stale reads; prices computed before the transaction | ready means produced; finished orders are booked; every price change is paid once |
| Cancellation (`modules/order-cancellation`) | requests PENDING, APPROVED, REJECTED | request, approve, reject, override | cancels workflows; writes the order | approve racing reject; stale checks | cancelled orders have no work; an order that waits can be decided |
| Dispatch (`modules/dispatch`) | batches AWAITING_READY, HELD, READY, DISPATCHED; one invoice each | bill, hold, release, dispatch, defer an order | debits wallets, advances the dispatch task, creates consignments | hold and release racing billing | a batch is billed once and dispatched only when billed |
| Delivery (`services/delivery`) | consignments, attempts | accept, pick up, hand over, fail, return, assign, reroute, cancel | fed by dispatch; writes the orders | writes by id after a check; late pushes to the orders | attempts are counted; delivered means handed over |
| Wallet ledger (`services/ledger`) | balance per user, append-only transactions | credit, debit | called by every component that moves money | overlapping movements of one wallet | the ledger accounts for the balance; never negative |
| Recharges (`modules/payments`, `services/razorpay`) | payment status, QR code at the gateway, webhook log | create, webhook, poll, cancel | credits the ledger | repeated, late and reordered webhooks; crash between credit and log | money taken is credited exactly once |
| Credit ledger | limit and outstanding amount per actor | set limit, draw, repay | orders on credit | overlapping draws | never above the limit |
| Accounting, financial events | append-only events, journal entries projected from them | record, project | written in ledger transactions | restart of the projection | entries balance |
| Catalog, pricing, print engine, storage, support, reports, accounts, notifications | large data, CRUD and reads | | | little protocol | unit tests |

`PROJECT.json` lists every component with its files and status, and the hazards
at the lines where they bite.

## 2. Modules

| Module | Models | Extends |
|---|---|---|
| `TaskStateMachine` | the status tables of tasks and instances, and when a status satisfies a dependency (`task-state-machine.ts`, `workflow-instance-state-machine.ts`) | |
| `WorkflowEngine` | the workflow of one order item, one action per transaction (`workflow.engine.ts`, `dependency-engine.ts`, status writes of the production services) | `TaskStateMachine` |
| `WorkflowTransactions` | `advance`, `cancelInstance` and the floor writes cut at their statements, for several clients, at READ COMMITTED | `WorkflowEngine` |
| `ProductionFloor` | assignments, work sessions, holds, inspections and the handlers that write them with the task (`assignment.service.ts`, `execution.service.ts`, `qc.service.ts`, `design-approval.service.ts`) | `WorkflowEngine` |
| `ProductionStages` | what an order sees of a workflow: phase, stages, correction (`workflow-dispatch.util.ts`) | |
| `ProductionProgress` | abstract specification of a workflow seen from its order: complete stays complete | `ProductionStages` |
| `EngineProgress` | the mapping by which the engine implements `ProductionProgress` | `WorkflowEngine`, instantiates `ProductionProgress` |
| `OrderLifecycle` | the status of an order: cancellation, synchronization, booking, dispatch, delivery (`order-cancellation.service.ts`, `order-status-sync.service.ts`, `dispatch-readiness.service.ts`) | `ProductionProgress` |
| `Delivery` | the consignment of a batch, its attempts, and the status its orders show (`services/delivery`, `delivery-portal`, `admin-delivery`) | |
| `OrderMoney` | placing and amending orders, and what the wallet pays for them (`orders.service.ts`, `order-amendment.service.ts`) | `WalletLedger` |
| `WalletLedger` | lock, read, write of a wallet (`wallet-ledger.service.ts`) | |
| `Recharge` | payments, the gateway, webhooks, polling, cancellation, crediting and spending (`payments.service.ts`) | `WalletLedger` |
| `DispatchBilling` | booking orders into batches, billing, holding, releasing, dispatching, and moving orders and batches (`dispatch.service.ts`, `dispatch-readiness.service.ts`, `shift-assignment.service.ts`) | `WalletLedger` |
| `MCWorkflowEngine` (over `EngineProgress`), `MCWorkflowTransactions`, `MCProductionFloor`, `MCRecharge`, `MCDispatchBilling`, `MCOrderLifecycle`, `MCDelivery`, `MCOrderMoney` | small templates, payments, batches, orders and wallets for TLC | the module they check |
| `WorkflowEngineProofs`, `WalletLedgerProofs`, `RechargeProofs`, `OrderLifecycleProofs`, `OrderMoneyProofs`, `DispatchBillingProofs`, `DeliveryProofs` | theorems and their proofs | the module they prove about |
| `WorkflowViewsProofs` | the same for the view of the order, the floor and the transactions of the engine | `EngineProgress`, `ProductionFloor`, `WorkflowTransactions`, `WorkflowEngineProofs` |

### State and actions

**WorkflowEngine.** `inst` is the status column of the instance, `task` that of
its tasks. `flagged` and `early` are history variables: they remember which
tasks were blocked by a review flag and which were opened by a person instead
of by their dependencies (reassign and unassign accept BLOCKED tasks, rework
targets any task, resolving a flag opens any BLOCKED task), so that the
properties can say what the engine itself guarantees. `crossed` remembers that a
rework went from one workflow to another: `applyQcRework` takes the target a manager
names by its id (1194) and updates it by its id (864), whichever instance it is of.
The model is of one instance, so the two ends of such a rework are two actions:
`QcReworkElsewhere` blocks this workflow by the position of a task it does not have,
`ReworkFromOutside` puts a task of this one into REWORK whatever its status and its
instance's. `Advance` is the whole of
`advance`: the task, everything that became ready, the instance. `Init` is
`createForProductionOrder`, with the choice of which `skipWhen` rules matched.
`FloorWrite` is the union of the status writes of assignment, execution and
design approval, as pairs of statuses; the rows they keep beside it are in
`ProductionFloor`. Timeline, history rows, timestamps and notifications are left out.
`PENDING` and `WAITING` appear in the tables and are never written.

**WorkflowTransactions.** `tx[c]` is the transaction of client `c` and what it
has read. A statement sees what is committed; a row written stays locked; the
rows written by the last statements are written at the commit, which needs
their locks. A transaction may fail after any statement. `CompleteNext` is the
subset of `TransactionsNext` for the runs that ask about overlapping completions.

**ProductionFloor.** `assigned`, `session`, `onHold` and `inspecting` are the rows
the floor keeps beside the engine's `task` and `inst`: the active assignment, the
active work session and its status, its open hold, the inspection in progress.
Each handler is one action, its checks as guards, its writes together with
`FloorWrite`. Completing a task, flagging it and submitting an inspection commit
twice (`completeTask` ends the session, then calls the engine): `finishing[t]` is
what the second commit has still to do, `SecondCommit` does it by the engine's own
action, `SecondCommitFails` never does, and any other step may come between.
`lost` remembers tasks that were left that way. `Staffed` are the tasks whose
department has operators (`Assign` finds nobody otherwise); which operator,
machine or priority it is, intervals and notes are left out, since no decision
reads them and managers may act for any operator.

**ProductionStages, ProductionProgress, EngineProgress.** An order reads the tasks
of its item only through three questions: which stages are active, whether a
review waits for a correction, and whether everything before dispatch is finished
and dispatch open. `View` is the answers. `ProductionProgress` is what the engine
promises of them: until production is complete anything may happen; then it never
comes back. `EngineProgress` computes the view from `task` (`EngineView`) and
instantiates the promise with it. `reopened` says that the workflow was written to
past its own rules, after which nothing is promised; for the engine's atomic
transactions it is `crossed`. Where the order's code asks each question of
every instance of an order, the models have orders of one item.

**OrderLifecycle.** `status`, `booked` and `request` are the order, its row in a
dispatch batch and its cancellation requests; `view` is the production of its item
by `ProductionProgress`. Every handler is `call[c]`: its checks are one step, each
later read one more, its transaction the last, and none of them locks anything or
looks again (`CommitApproval` approves whatever became of the request). `Produce` is
what production does meanwhile. Besides the steps of an engine whose transactions do
not overlap, it may open again what was complete or over (and sets `reopened`): an
advance or an assignment that read its task before the workflow was finished or
cancelled writes it by id afterwards (`workflow.engine.ts:303`,
`assignment.service.ts:591`), and an inspection of another workflow may pick it.
`CancelsOrder` leaves a workflow alone that has ended, so what was opened in it since
stays. A handler may fail before any of its commits, any number of times (`Fail`), and
a booking may find no window that takes it (`BookRefused`: no shift is active, or the
next window's batch is closed). A request that was decided stands for the next one that
is made (`Free`), so there may be any number of them. `abandoned` remembers an override that
failed after it had taken the requests away. `TaskEvent`, `SyncOrderStatus` and
`ListBatches` may start at any time, so events are early, late, repeated or lost.
The policy is the pair `DirectStage`, `RequestStage` of stages. The statuses
PENDING_PAYMENT, DRAFT and ON_HOLD are in the tables and no handler here writes
them.

**Delivery.** `status`, `holder`, `attempts` and `attemptCount` are the row of the
consignment and its attempts; `deliveryStatus` and `completed` what its orders
show. `call[c]` is a handler between its steps: loaded (who may act), checked (the
status in the transaction, and the number of the attempt), sync and push (the
orders are told later). `accept` is one conditional update and one step. The
services a delivery person is tagged for are left out: every agent handles the one
service there is. `CreateForBatch` comes from dispatch, `RouteUnroutedBatch` from an
admin.

**OrderMoney.** `total` is `totalAmount` of an order, `change` its price snapshots
and amendments: what each replaced and the new price. `plan[c]` is what a handler
read before its transaction, the wallet session of `WalletLedger` its transaction,
committed by `CommitOrder`, `CommitAmendment` or `CommitFreeAmendment` together
with the order's rows. `Close` ends what the amendment gate lets through. Entries
of the ledger refer to the price change they settle (`ORD-` and `AMD-` references).
Retail orders have no wallet; receipts at the counter are not modelled.

**WalletLedger.** `session[c]` is the ledger call of client `c`: locked, then
read (`lockWallet` selects the row FOR UPDATE and reads it with a second
statement), then committed by `CreditWallet`, `DebitWallet`, or released.
`ledger[w]` is the rows of `wallet_transactions` with their `balanceBefore` and
`balanceAfter`. Amounts are positive (both services throw otherwise).

**Recharge.** `payment`, `processed` and the ledger are the database; `qr`,
`captured` and `raised` are the gateway, modelled from how the code uses it: a
code is single-use, closes when paid, by time or on demand, and raises events
that are delivered any number of times, in any order, until they are answered. `mispaid`
is the money captured in another amount than the payment's, which is never credited
(`AmountMismatch`); `refused` the events that arrived when the configured secret was
another one (`RefuseSignature`), which are logged as processed.
`request[c]` is the handler that client `c` is in, step by step; the crediting
transaction holds the row of the payment from its first update on. `Fail` ends a
handler anywhere: a crash, a lost connection, a lost deadlock. The answer to a
webhook is logged in a statement of its own after the credit committed, so a
failure between the two makes the gateway deliver it again.

**DispatchBilling.** One vendor, its orders, batches and wallet. `window` numbers
the pairs of day and shift in their order, so `nextShiftAfter` is `+ 1`; `status`,
`charge` and `invoice` are the batch's columns and its invoice row, `link` the
booking of each order, `order` its status. `call[c]` is the handler of client `c`
after its reads. The reads of a handler are one step (two in billing: the batch,
then the balance, since another billing in between matters); its first write is
a step of its own where a count depends on it (`Unlink`); the writes that follow,
up to the commit, are one. `LinkLocked` is the row lock of a deleted booking, and
`UNUSED` and `DELETED` are ids without a row: an id is never used again, and a
handler that still holds it fails. The billing of a retail customer is a billing
with nothing due. An amount is what the vendor owes for the delivery; the invoice also
lists the orders' prices, which were paid when they were placed. The clock may select any
window. Orders need delivery; the
workflow tasks completed and the consignment created after a dispatch are not
in this module, nor is the state of the shifts themselves.

## 3. What the runs check

| Run | Instance | Question |
|---|---|---|
| `engine` | five tasks: review, vendor gate, print, an optional check that may start with the print, dispatch after both | `TypeOK`, `PrerequisitesFinished`, `EndedIsSettled`, `SomethingIsOpen`, `EndedIsFrozen`, `CompletedUndoneOnlyByRework` under every sequence of handler calls; and that the engine implements `ProductionProgress` (`ProgressSpec`) |
| `serial` | join of two branches, one client | the statement-level model implements the atomic one when requests do not overlap, failures after any statement included (`Spec` as a property) |
| `chain` | chain of four, three clients that complete | concurrent completions of a chain still implement `Spec`, and no activation is lost |
| `recharge` | one payment, two handlers, one wallet with spending, one failure | `CreditedOnce`, `CreditedMeansCaptured`, `LedgerAccountsForBalance`, and the liveness property `CapturedIsCredited` |
| `dispatch` | two orders, two batches, two windows, two handlers, one wallet | `BilledOnce`, `DispatchedIsBilled`, whatever handlers overlap and fail |
| `floor` | three tasks: design, review, check; one task at a time between two commits | `FloorTypeOK`, `WorkCanGoOn`, `SomeoneCanAct`, also after a rework has crossed |
| `orders` | one order, two handlers, two requests at a time, failures without a bound | `CancelledHasNoWork`, `ReadyIsProduced`, `RequestedIsDecidable`, and the liveness property `FinishedIsBooked` |
| `delivery` | one consignment, two delivery people, two handlers, three attempts | `DeliveryTypeOK`, `AttemptsNumbered`, `DeliveredIsRecorded` |
| `money` | two orders of a vendor, two handlers, prices 1 and 2, three prices per order | `EveryChangeIsPaid`, `TotalIsCharged` |
| `join`, `orders_late`, `dispatch_held` | as above; `join` with a fan-out and a join | disagreements with a document or a comment of the code, see section 6 |

**Bounds and why they are enough.** The template of `engine` has every kind of step the
engine distinguishes (review, gate, inspection, mandatory, optional, skippable,
dispatch), both kinds of dependency, a fan-out and a join; the statuses make the state
finite. Its constraint `UpToTheCrossing` looks at a workflow that a rework has crossed
once and not beyond: from there on only `TypeOK` claims anything, and the theorem
`TypeCorrect` has no such bound (nor has `floor`). The theorems of section 5 hold for
every template. In the transaction runs the interleavings of interest need two clients
(two advances, or an advance and a cancellation); `chain` has three so that a repeated
completion meets a completion of the next step. In `recharge` one payment is enough for
the credit-once question, since payments share only the wallet, whose other users are
the spenders; two clients give every pair of overlapping handlers. `MaxEntries` bounds
when a debit may start and `MaxFailures` the handlers that fail; the safety properties
do not depend on them. In `dispatch` two batches are what a move needs, two orders what
a batch that is left but not emptied needs; the top-up pays for two billings, so that a
batch could be paid twice; handlers fail without a bound. Its symmetry is over orders,
batch ids and clients, and it checks no liveness. `floor` has one task each for a design
that is claimed, sessions and inspections, which are the three ways to work (the
vendor's gate, where nobody works, is in `engine`); `MaxInterrupted` = 1 lets one task
at a time stand between two commits, or be left there, while every other handler goes
on. In `orders` two handlers give every pair of stale handlers and two requests the case
of two that are pending at once; failures, refused bookings and the requests made in all
are not bounded. One stage in work suffices, since stages only decide what status is
written; the policy allows direct cancellation before production and requests after, as
the first release did (migration 20260902193000 forbids requests by default now; the
rules are data). In `delivery` three attempts allow two failures and a handover, or two
that compute the same number. In `money` `MaxChanges` = 3 is a placement and two
amendments, so both may read one total, and top-ups stop at `MaxEntries` rows; its
symmetry, and that of `delivery`, is over clients and over orders or agents, and neither
checks liveness.

**Deadlock** is not checked: a finished workflow, a settled payment, a vendor whose
batches are dispatched, an order whose prices have reached their bound have nothing
left to do.

**Fairness.** The safety runs have none. `RechargeSpec` assumes that a handler
under way goes on unless it fails (`SF` of `Serve`: the event loop serves every
handler, and PostgreSQL grants row locks in the order they are asked for, so a
handler that waits repeatedly gets its turn) and that the gateway repeats the
event of a captured payment until it is answered (Razorpay redelivers an
unanswered webhook; the code relies on that and answers 500 on failure). Nothing
is assumed of customers, polls or other events, and failures are bounded.
The strong fairness of the event is that of a gateway that does not give up; the
code has no other way to learn of the money once nobody polls.
`OrderFairness` assumes that a handler that was started goes on or fails (`WF` of
`Continue`). The code guarantees no more: nothing makes a dispatcher open the board,
the board shows a hundred rows, and a booking that no window takes is refused again at
the next look. So the run checks `ServedSpec`, which adds `Unhindered`: the board is opened
again and again with the order on it (`SF` of `ListBatches`; strong, because in the
model the finite set of handlers could keep a look from starting), and not every
booking fails or is refused (`SF` of `Book`). Opening the board is how the code itself
makes up for lost events (`dispatch.service.ts:145`, "Reconciliation check"). Nothing is
assumed of events.

## 4. Properties worth reading

- `PrerequisitesFinished` — sending work back must also block everything built
  on it. It fails if `blockDownstreamAndReworkTarget` leaves completed tasks.
- `EndedIsFrozen` — most handlers do not look at the instance. It holds because
  an ended instance has only terminal tasks (`EndedIsSettled`), which no handler of the
  same workflow picks. A rework from another workflow does pick them: the property
  ends where one has crossed, as do the others of the engine.
- `SomethingIsOpen` — a running workflow never comes to consist of finished and blocked
  tasks, cancellations of single tasks aside. It needs the reviews of a template to come
  first (section 5): flagging a review that waits for an earlier one leaves both blocked.
- `SomeoneCanAct` — and somebody is let near what is open: a manager may complete it,
  reassign it, or a designer claim it. Open is not enough, since a task in REWORK, or
  an inspection ON_HOLD, is taken up only by way of an assignment that is still there.
  The property names those that have none (`Stranded`) and shows that there is no other
  way to be stuck; a paused or held task always has somebody assigned.
- `ProgressSpec` — production that is complete stays complete, although rework,
  rejections and flags reopen finished tasks. Booking an order on the strength of an
  earlier look at its tasks is sound only as far as it goes.
- `WorkCanGoOn` — a task in progress, paused or on hold has the assignment, the
  session and the hold its operator needs to go on. It fails if any handler moves one
  of the rows without the others; requests that died halfway are named.
- `FinishedPrerequisitesOpen` — holds for chains, fails for joins.
- `CancelledHasNoWork`, `ReadyIsProduced` — the status is written from stale reads
  by eight kinds of handlers, so several plausible statements about it are false
  (section 6). These two survive the overlaps of those handlers, because what is over or
  complete stays so and each write happens with, or after, what it asserts. They do not
  survive the overlaps inside production: a late advance opens a task of a cancelled
  order, a late assignment reopens an order that is ready. `reopened` names those cases.
- `RequestedIsDecidable` — an order never waits for a decision nobody can make.
- `FinishedIsBooked` — with every event lost, looking at the board is enough, provided
  that it shows the order and that not every booking is refused (`Unhindered`).
- `AttemptsNumbered` — the number of an attempt is computed from an unlocked read;
  the unique index and the counter written with it keep the count right.
- `EveryChangeIsPaid` — for each change of a price the vendor's wallet moved by
  exactly it, once, and for nothing else.
- `TotalIsCharged` — the sum over all of an order's entries is its total, unless two
  amendments were computed from the same total, in which case it is not.
- `CreditedOnce` and `CreditedMeansCaptured` — through duplicate webhooks, the
  poll, late events that overwrite SUCCESS, and crashes. They rest on two
  things: the update of the payment row serialises the crediting transactions,
  and the ledger is consulted after it.
- `BilledOnce` — a batch is paid exactly when it is invoiced, once, by the amount
  of the invoice. The status of the batch does not give this, since it is read
  unlocked and overwritten; the unique invoice in the transaction of the debit does.
- `DispatchedIsBilled` — the same for goods: the check of READY is stale, but a
  batch that was ever READY has its invoice for good.
- `CapturedIsCredited` — money taken reaches the wallet through crashes, lost answers,
  cancellation and expiry. Two cases do not, and the property names them: the amount is
  another one than the payment's (each repetition throws), or both events of the capture
  came with a signature that was refused, since these are logged as processed and
  their repetitions answered as duplicates.

## 5. What is proved

Eight modules hold proofs; every theorem is about all values of the constants
that satisfy the assumptions, and every proof has one step per action. Each
invariant was first checked by TLC on the instance of its component.

**`WorkflowEngineProofs`.** Assumptions (of `WorkflowEngine`): the constants that
classify steps are sets of steps (`StepKinds`), step orders are distinct
(`StepOrderUnique`, the unique key of `workflow_template_steps`), and
dependencies point to earlier steps (`DependencyOrdered`). The seeded templates and
the default chain are ordered that way; the template editor does not enforce it
(`system-workflows.service.ts:383` stores the ids it is given), so the theorems
say nothing of a template with a dependency on a later step or a cycle, whose
tasks could never open. The inductive invariant is

    IInv == TypeOK /\ PrerequisitesFinished /\ EndedIsSettled

and the three parts need each other: a task is opened late only outside a
settled instance, and sending work back keeps `PrerequisitesFinished` because
everything downstream of the target, transitively, is blocked in the same
transaction. Theorems: `TypeCorrect`, `PrerequisitesStayFinished`,
`EndedStaysSettled`; `EndedStaysFrozen` (the action property that a finished
or cancelled workflow never changes) and `CompletedWorkStays` (completed work is
undone only by sending it back), which follow from the invariant; and
`SomethingStaysOpen`, that a running workflow has an open task or a review that waits.
Each says so of workflows that no rework has crossed; what has crossed stays so.
The argument of the last is the advance: among the blocked tasks that remain, the one
with the lowest step order waits only for tasks that are done, so it was opened
with the commit. It assumes `ReviewsComeFirst`: no review depends on another step. The
seeded templates begin with their only review
(`prisma/seed/master/production.constants.ts:142`); the editor does not ask for it,
and without it the statement is false: with a review placed after a check, an
inspection before it can be sent back to the later review by a manager, who names
any target; when that review is then unassigned and flagged, both are blocked and
neither waits for a correction that its dependencies allow.

**`WorkflowViewsProofs`.** Three views of the engine.

*The order.* Assumption: `DispatchSteps` (a template has a step besides
dispatch, and dispatch steps are no reviews, gates or inspections).
`EngineKeepsProgress` is the refinement `Spec => ProgressSpec`. Its core is the lemma
`FinishedSetStays`: when every step before dispatch is terminal, no action reopens
one unless a rework crosses, which needs the engine's `IInv`.

*The floor.* Assumption: `FloorConstants`. The invariant is `FloorInv`:
the shape of the rows (`FloorRowsOK`), and `Steady`: `WorkCanGoOn` with
`PausedIsNotHeld`, that no paused task has a session on hold.
The lemma `FloorStepsAreEngineSteps` says that the floor's handlers move the workflow
only by the engine's actions, as they are written, so the engine's theorems hold of the
floor. `FloorTypeCorrect`, `BegunWorkCanGoOn` and `SomeoneStaysAble` are the run's
invariants. The last one takes its open task from `SomethingStaysOpen`, and that a paused
or held task can be reassigned from `HeldStaysAssigned`, an invariant of its own; it
assumes `ReviewsComeFirst` as well.

*The database.* `TransactionsTypeCorrect` holds of any clients that do anything.
`OneAtATimeIsTheEngine` says that with one client the statements add up to the actions
of `WorkflowEngine`: what it read is still so (`Current`), hence each commit is one
action and all else a stutter. With any number of clients that only complete, two
statements hold where the template allows it.
`ActivationIsNotLost` assumes `OnePrerequisite`, that no task waits for more than one
other; its invariant `OpeningOK` says that a client about to commit opens everything
that waits for its task. The run `join` shows what happens otherwise.
`ChainCompletionsAreTheEngine` assumes `ChainOfTasks`: each task but the first waits for
the one just before it, and only the first may be skipped at creation. Then completions
that overlap in any way implement `Spec`. Its invariant `ChainOK` says that tasks finish
in their order (so at most one is open), that row locks keep writers of the same task
apart, and that a client about to commit either completes the open task and saw all
others as they are (`Completes`), or repeats a completion and changes nothing
(`Repeats`), which a stale `COMPLETED` of the instance would break. The default chain
that the engine builds for a template without explicit dependencies is such a chain
when nothing behind its first step is skipped.

**`WalletLedgerProofs`.** Assumption: amounts are positive (`AmountsArePositive`;
both services throw otherwise). The ledger accounting for the balance is not
inductive: a writer uses the balance it read one statement earlier. The
strengthening `LockInvariant` says that at most one session holds a wallet and
that the balance it read is still the wallet's. Theorems: `LedgerTypeCorrect`
(a balance is never negative) and `LedgerAccounts` (the rows chain, and the last
one carries the balance). They do not depend on how many clients there are.

**`RechargeProofs`.** Assumption: `RechargeConstants`. The property "no payment is
credited twice" needs five facts about handlers in the middle of their work:
`RowOwnedOnce` (one transaction at a time holds a payment's row),
`CreditIsFirst` (one that is about to credit holds the row and no credit of the
payment exists), `SessionServesRequest` (its wallet session is for the payment's
wallet and amount), `OnlyCapturedIsFinalized` (a handler on its way to a credit
saw captured money in the payment's amount) and the ledger's own invariant, which
`RechargesKeepAccounts` carries over to the recharges. Theorems:
`PaymentsCreditedOnce`, `CreditsAreCaptured`, `RechargeTypeCorrect`, and the one
just named. So each safety property of the `recharge` run is proved, for any
number of payments, wallets and handlers.

**`OrderLifecycleProofs`.** Assumption: `OrderConstants`. `OrderInv` adds
`StoredIsProduced` to the four invariants: what a handler or a request keeps to write
later is ready only if production is complete *now*, which stays true because
complete stays complete until `reopened`, and `reopened` stays for good. Theorems:
`OrderInvariantHolds`, `OrderTypeCorrect`,
`CancelledStopsWork`, `ReadyOnlyWhenProduced`, `RequestsStayDecidable`, for any policy,
any number of handlers, requests and failures.

**`DeliveryProofs`.** No assumption but the constants' names. `DeliveryInv` adds
`CallsInv`: a number a handler computed is taken by now or the next one, and an
outcome still to be pushed was recorded. Theorems: `DeliveryInvariantHolds`,
`DeliveryTypeCorrect`, `AttemptsStayNumbered`, `DeliveredStaysRecorded`.

**`OrderMoneyProofs`.** Assumptions: `OrderMoneyConstants`, `AmountsArePositive`.
`MoneyInvariant` is the ledger's invariant, the shape of the rows, and
`EveryChangeIsPaid`. Theorems: `MoneyInvariantHolds`, `MoneyTypeCorrect`,
`ChangesArePaid`, and `OrdersCostWhatWasCharged`, that the sum over an order's entries
is its total. The last one needs what a running total is: its recursive function exists,
is unique and grows by the term that is added (`RunningTotalIs`, `RunningTotalGrows`),
proved by taking the least number that fails, since induction as a rule is out of reach
(below). It also needs that the total is the last price (`LastPrice`) and that only
placed orders are amended (`AmendsPlaced`).

**`DispatchBillingProofs`.** Assumptions: `DispatchConstants`, `AmountsArePositive`. The
invariant

    DispatchInvariant == LedgerInvariant /\ DispatchTypeOK /\ CallsOK
                         /\ PayerOnly /\ InvoicedOK /\ BilledOnce

says of the handlers in the middle of their calls what they may still rely on
(`CallsOK`), that only the vendor's wallet is used (`PayerOnly`), and that a
batch that is billed, or that a handler is about to dispatch, has its invoice
(`InvoicedOK`), which never goes away. Theorems, for any number of batches, orders,
windows and handlers: `DispatchTypeCorrect`, `BatchesBilledOnce`, `DispatchedStaysBilled`
(an action property) and `DispatchKeepsAccounts`.

So every invariant, every action property and every refinement that a passing run
checks is also proved, in general or, for `SomethingIsOpen`, `SomeoneCanAct` and the runs on
`WorkflowTransactions`, for the templates and clients their theorems name. Stays with
TLC: the liveness properties `CapturedIsCredited` and `FinishedIsBooked` (fairness and
ENABLED are beyond the prover), and the three violations of section 6. Induction
theorems of the library take an operator as a parameter, which the provers at hand
cannot instantiate; where a proof needs induction it uses a least element instead
(`FirstTask`, `FromZeroOn`).

## 6. Disagreements found

- `join`: two tasks that complete at once, and that a third waits for, each miss
  the other, and neither opens the third. It stays BLOCKED until somebody advances a
  finished task once more by hand (COMPLETED to COMPLETED is accepted while the instance
  runs), resolves a correction it never had, or reassigns it.
- `orders_late`: a late event that read an order before it was cancelled (or
  dispatched) writes READY_FOR_DISPATCH over it and books it, against the comment
  at `dispatch-readiness.service.ts:77`.
- `dispatch_held`: a billing that saw too little money marks a batch HELD that
  another one has paid and invoiced meanwhile; it can be neither billed nor
  dispatched afterwards.

Noticed while modelling, and not the subject of a run.

*Workflow.* A step skipped at creation opens its successor before the steps ahead of it
are done, though templates without explicit dependencies are documented as sequential
(`workflow.engine.ts:171`). A cancellation that overlaps a completion turns COMPLETED
into CANCELLED (746); an advance or an assignment that overlaps a cancellation, or the
last completion, writes a task of an ended workflow. The target of a rework may be a
task of another workflow, an ended one too (1194). A flag is lifted by another task's
advance (387); `resolveTaskCorrection` opens any BLOCKED task (1132); a mandatory task
cancelled alone keeps its instance RUNNING until it is cancelled itself (427);
`allowSkip` of a template step is documented and never read.

*Floor.* Reassigning or unassigning a task somebody works on leaves the session
open: it can then be neither started nor paused nor completed until a manager
advances it (`assignment.service.ts:206`). A QC task put ON_HOLD, or a task sent to
REWORK, that nobody is assigned to is accepted by no handler of the floor, though
`workflow.engine.ts:823` says its department picks it up again. A
designer's claim may meet a stale session. A request that dies between the two
commits of `completeTask` or `submitResult` leaves the task where no handler but the
manager's takes it up.

*Orders.* Direct cancellation and approval do not look again in their
transactions: an order may be cancelled after production started, and a rejection
that overlaps an approval revives the order while its workflow stays cancelled. A
cancelled order keeps its place in a batch and becomes DISPATCHED with it. An order
that is IMPROPER_ORDER when its production finishes is not booked by `evaluateOrder`,
whose list lacks that status (`dispatch-readiness.service.ts:78`). The
synchronization may write an older status over a newer one. An override that fails
after it superseded the requests leaves the order CANCELLATION_REQUESTED with no
request to decide (`order-cancellation.service.ts:650`).

*Money.* A cancellation overlapping the credit of a payment marks it CANCELLED
though it was credited (`payments.service.ts:169`). A counter payment checks the
outstanding amount before its transaction (`order-payment.service.ts:32`). A webhook
with an invalid signature is logged as processed (`payments.service.ts:280`), so the
genuine event of that id is a duplicate afterwards.
Two amendments computed from the same total charge the difference twice: without the
condition `AmendedInTurn`, TLC breaks `TotalIsCharged` in 14 states. The amendment gate
is asked before the transaction too, so an order that closes meanwhile is amended.

*Dispatch and delivery.* An order deferred past a billed batch joins the batch of the
window after it, billed or not (`dispatch.service.ts:750`). A window whose batch is
closed sends an order to the next one without a look at that one's batch, so the booking
fails on the unique key, at each retry (`shift-assignment.service.ts:153`); two removals
that overlap leave an empty batch (676). `transition` and `reroute` write by id what
they checked before, so a closed consignment can be reopened (a handover against a
return, a reroute against a cancellation), and a release that overlaps a pickup leaves
PICKED_UP goods with nobody, though the comment at `delivery-assignment.service.ts:110`
says two people cannot both win. `routeUnroutedBatch` ends in a move from UNASSIGNED to
UNASSIGNED, which is always refused: it throws after it created the consignment. A retry
does not tell the orders, which keep showing FAILED while the goods are under way again.

## 7. Plan

1. Done: the workflow engine, its transactions and the floor; the order's status,
   its money; recharges, billing and delivery; what they promise each other; and the
   proofs of section 5.
2. `CreditLedger` with proofs like the wallet's, and the receipts of counter
   payments, which check a sum before their transaction.
3. Orders of several items: `OrderLifecycle` over a set of views, and the composition
   of `OrderLifecycle` with `DispatchBilling`, so that a batch holds real orders.
4. The projection of financial events into journal entries, with its restart.
5. Two workflows in one module, so that a rework that crosses has both its ends, and
   production that overlaps as the order's module assumes it may.
6. Further proofs: completions together with floor writes and cancellations, in the
   templates and overlaps for which the engine is still what they add up to.

Not planned: catalog, pricing, print engine, storage, reports and notifications,
for the reasons `PROJECT.json` gives.
