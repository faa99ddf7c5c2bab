--------------------------- MODULE OrderLifecycle ---------------------------
(***************************************************************************)
(* The status of one order, and everything that writes it: the vendor who  *)
(* cancels or asks to, the managers who decide, the synchronization with   *)
(* the production of its item, the booking for dispatch, the dispatcher    *)
(* and the delivery.  An order has one item, so one workflow.              *)
(*                                                                         *)
(* Every handler reads without locks, decides, and writes by id in a later *)
(* transaction, whatever the order has become by then.  Production is what *)
(* ProductionProgress says of it, which may be opened again past the rules *)
(* of its workflow; events that report it start handlers at any time, late *)
(* and more than once.                                                     *)
(***************************************************************************)
EXTENDS ProductionProgress, Integers

CONSTANTS
  Client,         \* BOUND: handlers at work at the same time
  Request,        \* BOUND: cancellation requests that wait for a decision, or
                  \* that a handler deals with, at the same time
  DirectStage,    \* policy: stages in which the vendor may cancel
  RequestStage    \* policy: stages in which the vendor may ask to

VARIABLES
  status,     \* status of the order
  delivery,   \* whether the order is to be delivered, not picked up
  booked,     \* no, in a dispatch batch, or gone with it
  request,    \* state of each cancellation request, and the status before it
  call,       \* what each handler has read and goes on to do
  abandoned   \* history: an override superseded the requests and failed

orderVars ==
  <<view, reopened, status, delivery, booked, request, call, abandoned>>

PolicyStage ==
  [DRAFT |-> "VERIFICATION", ORDER_PLACED |-> "VERIFICATION",
   PENDING_PAYMENT |-> "VERIFICATION", DESIGN |-> "VERIFICATION",
   UNDER_ARTWORK_REVIEW |-> "VERIFICATION", IMPROPER_ORDER |-> "VERIFICATION",
   ARTWORK_APPROVED |-> "ARTWORK_APPROVED", CONFIRMED |-> "ARTWORK_APPROVED",
   IN_PRODUCTION |-> "PRODUCTION", QUALITY_CHECK |-> "PRODUCTION",
   ON_HOLD |-> "PRODUCTION", READY_FOR_DISPATCH |-> "PRODUCTION",
   DISPATCHED |-> "DISPATCH", DELIVERED |-> "COMPLETED", COMPLETED |-> "COMPLETED"]

OrderStatus == DOMAIN PolicyStage \cup {"CANCELLATION_REQUESTED", "CANCELLED"}

\* resolveCancellationPolicy allows the action: never for an order that is
\* cancelled or waits for a decision.
Allowed(stages) == status \in DOMAIN PolicyStage /\ PolicyStage[status] \in stages

StatusRank ==
  [ORDER_PLACED |-> 0, PENDING_PAYMENT |-> 1, DESIGN |-> 2, UNDER_ARTWORK_REVIEW |-> 3,
   ARTWORK_APPROVED |-> 4, CONFIRMED |-> 5, IN_PRODUCTION |-> 6, QUALITY_CHECK |-> 7,
   READY_FOR_DISPATCH |-> 8]

RankOf(s) == IF s \in DOMAIN StatusRank THEN StatusRank[s] ELSE -1

ASSUME OrderConstants ==
  /\ Stage \subseteq {"DESIGN", "UNDER_ARTWORK_REVIEW", "IN_PRODUCTION", "QUALITY_CHECK"}
  /\ DirectStage \cap RequestStage = {}

Syncable == {"ORDER_PLACED", "DESIGN", "UNDER_ARTWORK_REVIEW", "IMPROPER_ORDER",
             "ARTWORK_APPROVED", "CONFIRMED", "IN_PRODUCTION", "QUALITY_CHECK"}

Advanceable == {"ORDER_PLACED", "DESIGN", "UNDER_ARTWORK_REVIEW", "IN_PRODUCTION",
                "QUALITY_CHECK", "CONFIRMED", "ARTWORK_APPROVED", "READY_FOR_DISPATCH"}

NoCall == [step |-> "none"]

\* A row that is APPROVED or REJECTED is never looked at again, but written
\* again by a handler that saw it pending.
Decided == [state |-> "DECIDED"]

Pending == {r \in Request : request[r].state = "PENDING"}

OrderInit ==
  /\ ProgressInit
  /\ status \in {"ORDER_PLACED", "UNDER_ARTWORK_REVIEW"}
  /\ delivery \in BOOLEAN
  /\ booked = "no"
  /\ request = [r \in Request |-> Decided]
  /\ call = [c \in Client |-> NoCall]
  /\ abandoned = FALSE

Begins(c, k) ==
  /\ call[c] = NoCall
  /\ call' = [call EXCEPT ![c] = k]
  /\ UNCHANGED <<view, reopened, status, delivery, booked, request, abandoned>>

Goes(c, k) ==
  /\ call' = [call EXCEPT ![c] = k]
  /\ UNCHANGED <<view, reopened, status, delivery, booked, request, abandoned>>

Ends(c) == call' = [call EXCEPT ![c] = NoCall]

\* The departments work on the item.  A transaction of the engine or of an
\* assignment that read its task before the workflow ended writes it by id
\* afterwards, and an inspection of another workflow may pick it for rework:
\* both open what was over or complete.
Produce ==
  /\ ProgressNext
  /\ view' # view
  /\ reopened' = (reopened \/ ~MayBecome(view, view'))
  /\ UNCHANGED <<status, delivery, booked, request, call, abandoned>>

(***************************************************************************)
(* Cancellation.                                                           *)
(***************************************************************************)

\* Mutant: the workflow of a cancelled order goes on.
CancelsOrderOnly == status' = "CANCELLED" /\ UNCHANGED <<view, reopened>>

\* The order and its workflow in one transaction.  A workflow that has ended
\* is left alone, also when it was opened again since.
CancelsOrder ==
  /\ status' = "CANCELLED"
  /\ view' = Over \/ (reopened /\ view' = view)
  /\ UNCHANGED reopened

VendorDirectCancel(c) ==
  /\ Pending = {}
  /\ Allowed(DirectStage)
  /\ Begins(c, [step |-> "direct"])

\* The row of a cancellation that nobody has to decide is APPROVED from the
\* start, and nothing reads it.
CommitDirectCancel(c) ==
  /\ call[c].step = "direct"
  /\ CancelsOrder
  /\ Ends(c)
  /\ UNCHANGED <<delivery, booked, request, abandoned>>

\* Requests nobody deals with any more stand for those not yet written.
Free ==
  {r \in Request :
     /\ request[r] = Decided
     /\ \A c \in Client : "request" \in DOMAIN call[c] => call[c].request # r}

VendorRequestCancellation(c) ==
  /\ Free # {}
  /\ Pending = {}
  /\ Allowed(RequestStage)
  /\ Begins(c, [step |-> "request", request |-> CHOOSE r \in Free : TRUE, previous |-> status])

\* Mutant: the status to restore is read back after it was changed.
CommitRequestAfter(c) ==
  /\ call[c].step = "request"
  /\ status' = "CANCELLATION_REQUESTED"
  /\ request' = [request EXCEPT ![call[c].request] =
       [state |-> "PENDING", previous |-> status']]
  /\ Ends(c)
  /\ UNCHANGED <<view, reopened, delivery, booked, abandoned>>

CommitRequest(c) ==
  /\ call[c].step = "request"
  /\ request' = [request EXCEPT ![call[c].request] =
       [state |-> "PENDING", previous |-> call[c].previous]]
  /\ status' = "CANCELLATION_REQUESTED"
  /\ Ends(c)
  /\ UNCHANGED <<view, reopened, delivery, booked, abandoned>>

ApproveRequest(c, r) ==
  /\ r \in Pending
  /\ Begins(c, [step |-> "approve", request |-> r])

CommitApproval(c) ==
  /\ call[c].step = "approve"
  /\ request' = [request EXCEPT ![call[c].request] = Decided]
  /\ CancelsOrder
  /\ Ends(c)
  /\ UNCHANGED <<delivery, booked, abandoned>>

RejectRequest(c, r) ==
  /\ r \in Pending
  /\ Begins(c, [step |-> "reject", request |-> r, previous |-> request[r].previous])

\* Mutant: the order stays where it is.
RejectsOnly(c) ==
  /\ call[c].step = "reject"
  /\ request' = [request EXCEPT ![call[c].request] = Decided]
  /\ Ends(c)
  /\ UNCHANGED <<view, reopened, status, delivery, booked, abandoned>>

CommitRejection(c) ==
  /\ call[c].step = "reject"
  /\ request' = [request EXCEPT ![call[c].request] = Decided]
  /\ status' = call[c].previous
  /\ Ends(c)
  /\ UNCHANGED <<view, reopened, delivery, booked, abandoned>>

AdminOverrideCancel(c) ==
  /\ status # "CANCELLED"
  /\ Begins(c, [step |-> "supersede"])

\* The pending requests are approved before the transaction that cancels.
SupersedeRequests(c) ==
  /\ call[c].step = "supersede"
  /\ request' = [r \in Request |-> IF r \in Pending THEN Decided ELSE request[r]]
  /\ call' = [call EXCEPT ![c] = [step |-> "override"]]
  /\ UNCHANGED <<view, reopened, status, delivery, booked, abandoned>>

CommitOverride(c) ==
  /\ call[c].step = "override"
  /\ CancelsOrder
  /\ abandoned' = FALSE
  /\ Ends(c)
  /\ UNCHANGED <<delivery, booked, request>>

(***************************************************************************)
(* Synchronization of the order's status with production, started by the   *)
(* events of its tasks.                                                    *)
(***************************************************************************)
SyncOrderStatus(c) ==
  /\ status \in Syncable
  /\ Begins(c, [step |-> "sync", saw |-> status])

\* The most advanced stage in work, none when no stage is.
HighestStage == {s \in view.stages : \A other \in view.stages : RankOf(other) <= RankOf(s)}

SyncTargets == IF view.correction THEN {"IMPROPER_ORDER"} ELSE HighestStage

\* Forward, except into and out of a correction.
SyncAllowed(from, to) ==
  to = "IMPROPER_ORDER" \/ from = "IMPROPER_ORDER" \/ RankOf(to) > RankOf(from)

\* What remains to do once the tasks are read.  Production that awaits
\* dispatch is booked; a dispatch task that is paused or on hold does not
\* count as active, and a synchronization that finds nothing active ends.
ReadTasks(c) ==
  LET saw == call[c].saw
      news == SyncTargets \ {saw}
  IN  /\ call[c].step = "sync"
      /\ \/ /\ news = {}
            /\ view.phase # "produced"
            /\ Goes(c, NoCall)
         \/ /\ news = {}
            /\ OpenDispatchWork(view)
            /\ Goes(c, [step |-> "evaluate"])
         \/ \E to \in news :
              IF SyncAllowed(saw, to)
              THEN Goes(c, [step |-> "stage", to |-> to])
              ELSE Goes(c, NoCall)

\* A second look, by which production may have finished.
ReadProgress(c) ==
  /\ call[c].step = "stage"
  /\ Goes(c, IF OpenDispatchWork(view) THEN [step |-> "evaluate"]
             ELSE [step |-> "write", to |-> call[c].to])

WriteStatus(c) ==
  /\ call[c].step = "write"
  /\ status' = call[c].to
  /\ Ends(c)
  /\ UNCHANGED <<view, reopened, delivery, booked, request, abandoned>>

(***************************************************************************)
(* Booking for dispatch: evaluateOrder, started by events, by the          *)
(* synchronization, and by every look at the dispatcher's board.           *)
(***************************************************************************)
TaskEvent(c) == Begins(c, [step |-> "evaluate"])

\* Mutant: only orders that have the status are looked for.
OnlyReadyOnTheBoard == delivery /\ booked = "no" /\ status = "READY_FOR_DISPATCH"

OnTheBoard ==
  /\ delivery
  /\ booked = "no"
  /\ status = "READY_FOR_DISPATCH" \/ view.phase = "produced"

ListBatches(c) ==
  /\ OnTheBoard
  /\ Begins(c, [step |-> "evaluate"])

EvaluateOrder(c) ==
  /\ call[c].step = "evaluate"
  /\ Goes(c, IF status \in Advanceable THEN [step |-> "evaluated"] ELSE NoCall)

\* Mutant: a queued dispatch step is enough, whatever else is unfinished.
ReadInstancesUnfinished(c) ==
  /\ call[c].step = "evaluated"
  /\ Goes(c, IF view.phase # "over" THEN [step |-> "book"] ELSE NoCall)

ReadInstances(c) ==
  /\ call[c].step = "evaluated"
  /\ Goes(c, IF Complete(view) /\ OpenDispatchWork(view) THEN [step |-> "book"] ELSE NoCall)

\* The batch itself is the concern of DispatchBilling.
Book(c) ==
  /\ call[c].step = "book"
  /\ status' = IF delivery THEN "READY_FOR_DISPATCH" ELSE "COMPLETED"
  /\ booked' = IF delivery /\ booked = "no" THEN "batch" ELSE booked
  /\ Ends(c)
  /\ UNCHANGED <<view, reopened, delivery, request, abandoned>>

\* No window takes the order, because none is configured or because the
\* client has a closed batch in the next one: the booking throws, and its
\* transaction leaves no trace.
BookRefused(c) ==
  /\ call[c].step = "book"
  /\ delivery /\ booked = "no"
  /\ Goes(c, NoCall)

(***************************************************************************)
(* Dispatch and delivery write the status of every order of the batch.     *)
(***************************************************************************)

\* A dispatcher adds an order to a batch whatever its status.
AddOrderToBatch ==
  /\ booked = "no"
  /\ booked' = "batch"
  /\ UNCHANGED <<view, reopened, status, delivery, request, call, abandoned>>

MarkDispatched ==
  /\ booked = "batch"
  /\ booked' = "gone"
  /\ status' = "DISPATCHED"
  /\ UNCHANGED <<view, reopened, delivery, request, call, abandoned>>

SyncOrderDeliveryStatus ==
  /\ booked = "gone"
  /\ status' = "DELIVERED"
  /\ UNCHANGED <<view, reopened, delivery, booked, request, call, abandoned>>

\* A handler throws, its transaction times out, or its process ends.  What
\* only reads on its way to book fails when it comes to book.
Fail(c) ==
  /\ call[c].step \notin {"none", "evaluate", "evaluated"}
  /\ abandoned' = (abandoned \/ call[c].step = "override")
  /\ Ends(c)
  /\ UNCHANGED <<view, reopened, status, delivery, booked, request>>

\* What a handler does once it was started.
Continue(c) ==
  \/ CommitDirectCancel(c) \/ CommitRequest(c) \/ CommitApproval(c) \/ CommitRejection(c)
  \/ SupersedeRequests(c) \/ CommitOverride(c)
  \/ ReadTasks(c) \/ ReadProgress(c) \/ WriteStatus(c)
  \/ EvaluateOrder(c) \/ ReadInstances(c) \/ Book(c)
  \/ BookRefused(c)

Start(c) ==
  \/ VendorDirectCancel(c) \/ VendorRequestCancellation(c) \/ AdminOverrideCancel(c)
  \/ \E r \in Request : ApproveRequest(c, r) \/ RejectRequest(c, r)
  \/ SyncOrderStatus(c) \/ TaskEvent(c) \/ ListBatches(c)

OrderNext ==
  \/ \E c \in Client : Start(c) \/ Continue(c) \/ Fail(c)
  \/ Produce \/ AddOrderToBatch \/ MarkDispatched \/ SyncOrderDeliveryStatus

\* A handler that was started goes on or fails.
OrderFairness == \A c \in Client : WF_orderVars(Continue(c))

OrderSpec == OrderInit /\ [][OrderNext]_orderVars /\ OrderFairness

\* Nothing keeps the order from dispatch for good: dispatchers look at their
\* board again and again, the order is not behind the first hundred of it for
\* good, other handlers do not keep a look from starting, as the finite set of
\* clients could, and not every booking fails or is refused by the windows.
Unhindered ==
  /\ SF_orderVars(\E c \in Client : ListBatches(c))
  /\ SF_orderVars(\E c \in Client : Book(c))

ServedSpec == OrderSpec /\ Unhindered

(***************************************************************************)
(* Properties.                                                             *)
(***************************************************************************)

RequestState ==
  {Decided} \cup [state : {"PENDING"}, previous : DOMAIN PolicyStage]

CallStep ==
  {NoCall} \cup [step : {"direct", "supersede", "override", "evaluate", "evaluated", "book"}]
  \cup [step : {"approve"}, request : Request]
  \cup [step : {"request", "reject"}, request : Request, previous : DOMAIN PolicyStage]
  \cup [step : {"sync"}, saw : Syncable]
  \cup [step : {"stage", "write"}, to : Stage \cup {"IMPROPER_ORDER"}]

\* Every row and every handler keeps its shape; what a rejection restores is
\* never a cancellation or a wait for one.
OrderTypeOK ==
  /\ view \in View /\ reopened \in BOOLEAN
  /\ status \in OrderStatus
  /\ delivery \in BOOLEAN
  /\ booked \in {"no", "batch", "gone"}
  /\ request \in [Request -> RequestState]
  /\ call \in [Client -> CallStep]
  /\ abandoned \in BOOLEAN

\* A cancelled order has no work left in any department, whichever handlers
\* of the order cancel it, revive it and book it at the same time.  Only a
\* write of production past its own rules opens work in it.
CancelledHasNoWork == status = "CANCELLED" => view = Over \/ reopened

\* An order that is ready for dispatch or for pickup has finished production,
\* although the tasks were read before the status was written, and although a
\* rejected cancellation restores a status read long before.  Only a write of
\* production past its own rules takes that back.
ReadyIsProduced ==
  status \in {"READY_FOR_DISPATCH", "COMPLETED"} => Complete(view) \/ reopened

\* An order that waits for a decision about its cancellation has a request
\* that managers can decide, unless an override took it away and failed.
RequestedIsDecidable ==
  status = "CANCELLATION_REQUESTED" =>
    \/ Pending # {}
    \/ \E c \in Client : call[c].step = "override"
    \/ abandoned

Finished == view.phase = "produced" /\ status \in Advanceable /\ delivery

\* Whatever events are lost, and whichever handlers overlap, fail or are
\* refused, the board brings an order that finished production into a batch,
\* unless its status or its dispatch work takes it off the board.
FinishedIsBooked == Finished ~> booked # "no" \/ ~Finished

\* Dispatch never takes back an order that was cancelled or is gone: a late
\* event does not book it again.
TerminalIsNotRebatched ==
  [][(status \in {"CANCELLED", "DISPATCHED", "DELIVERED"})
       => status' # "READY_FOR_DISPATCH"]_orderVars
=============================================================================
