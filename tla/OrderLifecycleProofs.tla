------------------------ MODULE OrderLifecycleProofs ------------------------
(***************************************************************************)
(* For any number of handlers and requests, and for every cancellation     *)
(* policy: what the status of an order says of its production holds,       *)
(* although every handler writes on the strength of what it read before,   *)
(* until somebody opens the production past the rules of its workflow.     *)
(***************************************************************************)
EXTENDS OrderLifecycle, TLAPS

ReadyStatus == {"READY_FOR_DISPATCH", "COMPLETED"}

\* What ReadyIsProduced and CancelledHasNoWork say of production: as it should
\* be, or written to past its own rules.
Produced == Complete(view) \/ reopened

NoWork == view = Over \/ reopened

\* The statuses written down to be restored, and the decision to book, were
\* taken from an order that had finished production.
StoredIsProduced ==
  /\ \A r \in Pending : request[r].previous \in ReadyStatus => Produced
  /\ \A c \in Client :
       /\ call[c].step \in {"request", "reject"} /\ call[c].previous \in ReadyStatus
            => Produced
       /\ call[c].step = "book" => Produced

OrderInv ==
  OrderTypeOK /\ CancelledHasNoWork /\ ReadyIsProduced /\ StoredIsProduced /\ RequestedIsDecidable

\* The statuses that the policy knows.
LEMMA PolicyStatuses ==
  DOMAIN PolicyStage =
    {"DRAFT", "ORDER_PLACED", "PENDING_PAYMENT", "DESIGN", "UNDER_ARTWORK_REVIEW",
     "IMPROPER_ORDER", "ARTWORK_APPROVED", "CONFIRMED", "IN_PRODUCTION", "QUALITY_CHECK",
     "ON_HOLD", "READY_FOR_DISPATCH", "DISPATCHED", "DELIVERED", "COMPLETED"}
BY DEF PolicyStage

LEMMA SyncableKnown == Syncable \subseteq DOMAIN PolicyStage
BY PolicyStatuses DEF Syncable

LEMMA StatusKinds ==
  /\ Stage \cup {"IMPROPER_ORDER"} \subseteq DOMAIN PolicyStage
  /\ (Stage \cup {"IMPROPER_ORDER"}) \cap ReadyStatus = {}
  /\ "CANCELLED" \notin DOMAIN PolicyStage
  /\ "CANCELLATION_REQUESTED" \notin DOMAIN PolicyStage
BY PolicyStatuses, OrderConstants DEF ReadyStatus

\* What a handler carries, by the step it is at.
LEMMA Carried ==
  ASSUME OrderTypeOK, NEW c \in Client
  PROVE  /\ call[c].step \in {"request", "reject"} =>
              call[c].request \in Request /\ call[c].previous \in DOMAIN PolicyStage
         /\ call[c].step = "approve" => call[c].request \in Request
         /\ call[c].step = "sync" => call[c].saw \in Syncable
         /\ call[c].step \in {"stage", "write"} => call[c].to \in Stage \cup {"IMPROPER_ORDER"}
<1>1. call[c] \in CallStep
  BY DEF OrderTypeOK
<1> QED BY <1>1 DEF CallStep, NoCall

\* A pending request has the status to restore.
LEMMA PendingStored ==
  ASSUME OrderTypeOK, NEW r \in Pending
  PROVE  request[r].previous \in DOMAIN PolicyStage
<1>1. request[r] \in RequestState /\ request[r].state = "PENDING"
  BY DEF OrderTypeOK, Pending
<1> QED BY <1>1 DEF RequestState, Decided

\* What happens to production in a step of the order's handlers.
Stops == view' = Over /\ reopened' = reopened

Same == UNCHANGED <<view, reopened>>

\* Neither is ever taken back.
LEMMA ProgressStays ==
  ASSUME Same \/ ProgressNext \/ Stops, OrderTypeOK
  PROVE  /\ view' \in View
         /\ reopened' \in BOOLEAN
         /\ Produced => Produced'
         /\ NoWork => NoWork'
<1>1. Over \in View /\ Complete(Over)
  BY DEF Over, View, Phase, Complete
<1>2. view \in View /\ reopened \in BOOLEAN
  BY DEF OrderTypeOK
<1>3. CASE ProgressNext
  BY <1>3, <1>1, <1>2
  DEF ProgressNext, MayBecome, Complete, OpenDispatchWork, Over, Produced, NoWork
<1>4. CASE Same \/ Stops
  BY <1>4, <1>1, <1>2 DEF Same, Stops, Complete, Produced, NoWork
<1> QED BY <1>3, <1>4

\* What has to be shown of a step: it keeps the types and the decidable
\* requests, cancels an order only with its work, and stores or writes a status
\* that says the production is complete only when it is.
StoresProduced ==
  /\ \A r \in Request : \/ request'[r] = request[r]
                        \/ request'[r].state # "PENDING"
                        \/ request'[r].previous \in ReadyStatus => Produced
  /\ \A c \in Client : \/ call'[c] = call[c]
                       \/ /\ call'[c].step \in {"request", "reject"}
                               /\ call'[c].previous \in ReadyStatus => Produced
                          /\ call'[c].step = "book" => Produced

SaysProduced ==
  /\ status' \in ReadyStatus => Produced
  /\ status' = "CANCELLED" => status = "CANCELLED" \/ NoWork'

LEMMA Keeps ==
  ASSUME OrderInv, OrderTypeOK', RequestedIsDecidable', StoresProduced, SaysProduced,
         Same \/ ProgressNext \/ Stops
  PROVE  OrderInv'
<1>1. (Produced => Produced') /\ (NoWork => NoWork')
  BY ProgressStays DEF OrderInv
<1>2. CancelledHasNoWork'
  BY <1>1 DEF OrderInv, CancelledHasNoWork, SaysProduced, NoWork
<1>3. ReadyIsProduced'
  BY <1>1 DEF ReadyIsProduced, SaysProduced, ReadyStatus, Produced
<1>4. StoredIsProduced'
  BY <1>1 DEF OrderInv, StoredIsProduced, StoresProduced, Pending
<1> QED BY <1>2, <1>3, <1>4 DEF OrderInv

\* A handler that only decides what to do next.
LEMMA DecisionKeeps ==
  ASSUME OrderInv, NEW c \in Client, NEW k \in CallStep,
         call' = [call EXCEPT ![c] = k],
         UNCHANGED <<view, reopened, status, delivery, booked, request, abandoned>>,
         k.step \in {"request", "reject"} /\ k.previous \in ReadyStatus => Produced,
         k.step = "book" => Produced,
         call[c].step # "override"
  PROVE  OrderInv'
<1>1. OrderTypeOK'
  BY DEF OrderInv, OrderTypeOK
<1>2. \A d \in Client : call'[d] = IF d = c THEN k ELSE call[d]
  BY DEF OrderInv, OrderTypeOK
<1>3. RequestedIsDecidable'
  BY <1>2 DEF OrderInv, RequestedIsDecidable, Pending
<1>4. StoresProduced
  BY <1>2 DEF StoresProduced
<1>5. SaysProduced
  BY DEF OrderInv, ReadyIsProduced, SaysProduced, ReadyStatus, Produced
<1> QED BY <1>1, <1>3, <1>4, <1>5, Keeps DEF Same

LEMMA InitKeeps == OrderInit => OrderInv
<1> SUFFICES ASSUME OrderInit PROVE OrderInv
  OBVIOUS
<1>1. OrderTypeOK
  <2>1. view \in View /\ reopened \in BOOLEAN /\ status \in OrderStatus
    BY PolicyStatuses DEF OrderInit, ProgressInit, OrderStatus
  <2>2. request \in [Request -> RequestState] /\ call \in [Client -> CallStep]
    BY DEF OrderInit, RequestState, CallStep
  <2>3. delivery \in BOOLEAN /\ booked \in {"no", "batch", "gone"} /\ abandoned \in BOOLEAN
    BY DEF OrderInit
  <2> QED BY <2>1, <2>2, <2>3 DEF OrderTypeOK
<1>2. StoredIsProduced
  BY DEF OrderInit, StoredIsProduced, Pending, Decided, NoCall
<1> QED
  BY <1>1, <1>2 DEF OrderInit, OrderInv, CancelledHasNoWork, ReadyIsProduced, RequestedIsDecidable

\* The start of a handler.
LEMMA StartKeeps ==
  ASSUME OrderInv, NEW c \in Client, Start(c)
  PROVE  OrderInv'
<1>1. ASSUME NEW k \in CallStep, Begins(c, k),
             k.step \in {"request", "reject"} /\ k.previous \in ReadyStatus => Produced,
             k.step # "book"
      PROVE  OrderInv'
  <2>1. call[c].step # "override"
    BY <1>1 DEF Begins, NoCall
  <2>2. /\ call' = [call EXCEPT ![c] = k]
        /\ UNCHANGED <<view, reopened, status, delivery, booked, request, abandoned>>
    BY <1>1 DEF Begins
  <2> QED BY <1>1, <2>1, <2>2, DecisionKeeps
<1>2. CASE VendorDirectCancel(c)
  <2>1. [step |-> "direct"] \in CallStep
    BY DEF CallStep
  <2> QED BY <1>1, <1>2, <2>1 DEF VendorDirectCancel
<1>3. CASE AdminOverrideCancel(c)
  <2>1. [step |-> "supersede"] \in CallStep
    BY DEF CallStep
  <2> QED BY <1>1, <1>3, <2>1 DEF AdminOverrideCancel
<1>4. CASE VendorRequestCancellation(c)
  <2> DEFINE r == CHOOSE q \in Free : TRUE
  <2> DEFINE k == [step |-> "request", request |-> r, previous |-> status]
  <2>1. k \in CallStep
    BY <1>4 DEF CallStep, VendorRequestCancellation, Allowed, Free
  <2>2. status \in ReadyStatus => Produced
    BY DEF OrderInv, ReadyIsProduced, ReadyStatus, Produced
  <2> QED BY <1>1, <1>4, <2>1, <2>2 DEF VendorRequestCancellation
<1>5. ASSUME NEW r \in Request, ApproveRequest(c, r) PROVE OrderInv'
  <2>1. [step |-> "approve", request |-> r] \in CallStep
    BY DEF CallStep
  <2> QED BY <1>1, <1>5, <2>1 DEF ApproveRequest
<1>6. ASSUME NEW r \in Request, RejectRequest(c, r) PROVE OrderInv'
  <2> DEFINE k == [step |-> "reject", request |-> r, previous |-> request[r].previous]
  <2>1. r \in Pending
    BY <1>6 DEF RejectRequest
  <2>2. k \in CallStep
    BY <2>1, PendingStored DEF CallStep, OrderInv
  <2>3. request[r].previous \in ReadyStatus => Produced
    BY <2>1 DEF OrderInv, StoredIsProduced
  <2> QED BY <1>1, <1>6, <2>2, <2>3 DEF RejectRequest
<1>7. CASE SyncOrderStatus(c)
  <2>1. [step |-> "sync", saw |-> status] \in CallStep
    BY <1>7 DEF CallStep, SyncOrderStatus
  <2> QED BY <1>1, <1>7, <2>1 DEF SyncOrderStatus
<1>8. CASE TaskEvent(c) \/ ListBatches(c)
  <2>1. [step |-> "evaluate"] \in CallStep
    BY DEF CallStep
  <2> QED BY <1>1, <1>8, <2>1 DEF TaskEvent, ListBatches
<1> QED BY <1>2, <1>3, <1>4, <1>5, <1>6, <1>7, <1>8 DEF Start

\* A handler that ends without writing the order.
LEMMA EndKeeps ==
  ASSUME OrderInv, NEW c \in Client, Ends(c)
  PROVE  /\ call' \in [Client -> CallStep]
         /\ call'[c] = NoCall
         /\ \A d \in Client : d # c => call'[d] = call[d]
BY DEF OrderInv, OrderTypeOK, Ends, CallStep

\* A handler that writes the order and ends: what it must have made sure of.
LEMMA WriteKeeps ==
  ASSUME OrderInv, NEW c \in Client, Ends(c),
         status' \in OrderStatus \ {"CANCELLATION_REQUESTED"}, SaysProduced,
         Same \/ Stops,
         delivery' = delivery, booked' \in {"no", "batch", "gone"},
         abandoned' \in BOOLEAN, request' \in [Request -> RequestState],
         \A r \in Request : request'[r] = request[r] \/ request'[r].state # "PENDING"
  PROVE  OrderInv'
<1>1. view' \in View /\ reopened' \in BOOLEAN
  BY ProgressStays DEF OrderInv
<1>2. OrderTypeOK'
  BY <1>1, EndKeeps DEF OrderInv, OrderTypeOK
<1>3. StoresProduced
  BY EndKeeps DEF StoresProduced, NoCall
<1>4. RequestedIsDecidable'
  BY DEF RequestedIsDecidable
<1> QED BY <1>2, <1>3, <1>4, Keeps DEF Same

LEMMA DecideRequest ==
  ASSUME OrderInv, NEW r \in Request, request' = [request EXCEPT ![r] = Decided]
  PROVE  /\ request' \in [Request -> RequestState]
         /\ \A q \in Request : request'[q] = request[q] \/ request'[q].state # "PENDING"
BY DEF OrderInv, OrderTypeOK, RequestState, Decided

\* The end of a cancellation, in each of its forms.
LEMMA CancellationKeeps ==
  ASSUME OrderInv, NEW c \in Client,
         \/ CommitDirectCancel(c) \/ CommitRequest(c) \/ CommitApproval(c)
         \/ CommitRejection(c) \/ SupersedeRequests(c) \/ CommitOverride(c)
  PROVE  OrderInv'
<1>1. OrderTypeOK
  BY DEF OrderInv
<1>2. "CANCELLED" \in OrderStatus
  BY DEF OrderStatus
<1>3. \A r \in Request : request[r] \in RequestState
  BY <1>1 DEF OrderTypeOK
<1>4. CASE CommitDirectCancel(c) \/ CommitOverride(c)
  <2>1. status' = "CANCELLED" /\ (Stops \/ Same) /\ SaysProduced
    BY <1>4 DEF CommitDirectCancel, CommitOverride, CancelsOrder, SaysProduced, ReadyStatus,
       Stops, Same, NoWork
  <2>2. booked' = booked /\ delivery' = delivery /\ request' = request
        /\ abandoned' \in BOOLEAN /\ Ends(c)
    BY <1>1, <1>4 DEF CommitDirectCancel, CommitOverride, OrderTypeOK
  <2> QED BY <1>1, <1>2, <2>1, <2>2, WriteKeeps DEF OrderTypeOK
<1>5. CASE CommitApproval(c)
  <2>1. status' = "CANCELLED" /\ (Stops \/ Same) /\ SaysProduced
    BY <1>5 DEF CommitApproval, CancelsOrder, SaysProduced, ReadyStatus,
       Stops, Same, NoWork
  <2>2. call[c].request \in Request
    BY <1>1, <1>5, Carried DEF CommitApproval
  <2>3. /\ request' \in [Request -> RequestState]
        /\ \A r \in Request : request'[r] = request[r] \/ request'[r].state # "PENDING"
    BY <1>5, <2>2, DecideRequest DEF CommitApproval
  <2>4. booked' = booked /\ delivery' = delivery
        /\ abandoned' = abandoned /\ Ends(c)
    BY <1>5 DEF CommitApproval
  <2> QED BY <1>1, <1>2, <2>1, <2>3, <2>4, WriteKeeps DEF OrderTypeOK
<1>6. CASE CommitRejection(c)
  <2>1. call[c].request \in Request /\ call[c].previous \in DOMAIN PolicyStage
    BY <1>1, <1>6, Carried DEF CommitRejection
  <2>2. status' = call[c].previous /\ Same
    BY <1>6 DEF CommitRejection, Same
  <2>3. status' \in ReadyStatus => Produced
    BY <1>6, <2>2 DEF CommitRejection, OrderInv, StoredIsProduced
  <2>4. status' \in OrderStatus \ {"CANCELLATION_REQUESTED", "CANCELLED"}
    BY <2>1, <2>2, PolicyStatuses DEF OrderStatus
  <2>5. /\ request' \in [Request -> RequestState]
        /\ \A r \in Request : request'[r] = request[r] \/ request'[r].state # "PENDING"
    BY <1>6, <2>1, DecideRequest DEF CommitRejection
  <2>6. booked' = booked /\ delivery' = delivery
        /\ abandoned' = abandoned /\ Ends(c)
    BY <1>6 DEF CommitRejection
  <2> QED BY <1>1, <2>2, <2>3, <2>4, <2>5, <2>6, WriteKeeps DEF OrderTypeOK, SaysProduced, Same
<1>7. CASE CommitRequest(c)
  <2> DEFINE q == call[c].request
             row == [state |-> "PENDING", previous |-> call[c].previous]
  <2>1. q \in Request /\ call[c].previous \in DOMAIN PolicyStage
    BY <1>1, <1>7, Carried DEF CommitRequest
  <2>2. row \in RequestState
    BY <2>1 DEF RequestState
  <2>3. /\ request' = [request EXCEPT ![q] = row] /\ status' = "CANCELLATION_REQUESTED"
        /\ Ends(c) /\ UNCHANGED <<view, reopened, delivery, booked, abandoned>>
    BY <1>7 DEF CommitRequest
  <2>4. /\ request' \in [Request -> RequestState]
        /\ request'[q] = row
        /\ \A r \in Request : r # q => request'[r] = request[r]
    BY <1>1, <2>1, <2>2, <2>3 DEF OrderTypeOK
  <2>5. OrderTypeOK'
    BY <1>1, <2>3, <2>4, EndKeeps DEF OrderTypeOK, OrderStatus
  <2>6. RequestedIsDecidable'
    BY <2>1, <2>4 DEF RequestedIsDecidable, Pending
  <2>7. call[c].previous \in ReadyStatus => Produced
    BY <1>7 DEF CommitRequest, OrderInv, StoredIsProduced
  <2>8. StoresProduced
    BY <2>3, <2>4, <2>7, EndKeeps DEF StoresProduced, NoCall
  <2>9. SaysProduced
    BY <2>3 DEF SaysProduced, ReadyStatus
  <2> QED BY <2>3, <2>5, <2>6, <2>8, <2>9, Keeps DEF Same
<1>8. CASE SupersedeRequests(c)
  <2> DEFINE k == [step |-> "override"]
  <2>1. /\ request' = [r \in Request |-> IF r \in Pending THEN Decided ELSE request[r]]
        /\ call' = [call EXCEPT ![c] = k]
        /\ UNCHANGED <<view, reopened, status, delivery, booked, abandoned>>
    BY <1>8 DEF SupersedeRequests
  <2>2. k \in CallStep /\ Decided \in RequestState
    BY DEF CallStep, RequestState
  <2>3. /\ call'[c] = k
        /\ \A d \in Client : d # c => call'[d] = call[d]
        /\ call' \in [Client -> CallStep]
    BY <1>1, <2>1, <2>2 DEF OrderTypeOK
  <2>4. request' \in [Request -> RequestState]
    BY <1>3, <2>1, <2>2
  <2>5. OrderTypeOK'
    BY <1>1, <2>1, <2>3, <2>4 DEF OrderTypeOK
  <2>6. RequestedIsDecidable'
    BY <2>3 DEF RequestedIsDecidable
  <2>7. StoresProduced
    BY <2>1, <2>3 DEF StoresProduced, Decided
  <2>8. SaysProduced
    BY <2>1 DEF OrderInv, ReadyIsProduced, SaysProduced, ReadyStatus, Produced
  <2> QED BY <2>1, <2>5, <2>6, <2>7, <2>8, Keeps DEF Same
<1> QED BY <1>4, <1>5, <1>6, <1>7, <1>8

\* Synchronization and booking.
LEMMA ProgressHandlersKeep ==
  ASSUME OrderInv, NEW c \in Client,
         \/ ReadTasks(c) \/ ReadProgress(c) \/ WriteStatus(c)
         \/ EvaluateOrder(c) \/ ReadInstances(c) \/ Book(c) \/ BookRefused(c)
  PROVE  OrderInv'
<1>1. OrderTypeOK
  BY DEF OrderInv
<1>2. ASSUME NEW k \in CallStep, Goes(c, k), call[c].step # "override",
             k.step \notin {"request", "reject"}, k.step = "book" => Produced
      PROVE  OrderInv'
  BY <1>2, DecisionKeeps DEF Goes
<1>3. NoCall \in CallStep /\ [step |-> "evaluate"] \in CallStep
      /\ [step |-> "evaluated"] \in CallStep /\ [step |-> "book"] \in CallStep
  BY DEF CallStep
<1>4. CASE ReadTasks(c)
  <2>1. \A to \in SyncTargets : to \in Stage \cup {"IMPROPER_ORDER"}
    BY <1>1 DEF SyncTargets, HighestStage, OrderTypeOK, View
  <2>2. \A to \in SyncTargets : [step |-> "stage", to |-> to] \in CallStep
    BY <2>1 DEF CallStep
  <2>3. \/ Goes(c, NoCall) \/ Goes(c, [step |-> "evaluate"])
        \/ \E to \in SyncTargets : Goes(c, [step |-> "stage", to |-> to])
    BY <1>4 DEF ReadTasks
  <2>4. call[c].step # "override"
    BY <1>4 DEF ReadTasks
  <2> QED BY <1>2, <1>3, <2>2, <2>3, <2>4 DEF NoCall
<1>5. CASE ReadProgress(c)
  <2> DEFINE k == [step |-> "write", to |-> call[c].to]
  <2>1. call[c].step = "stage" /\ (Goes(c, k) \/ Goes(c, [step |-> "evaluate"]))
    BY <1>5 DEF ReadProgress
  <2>2. k \in CallStep
    BY <1>1, <2>1, Carried DEF CallStep
  <2> QED BY <1>2, <1>3, <2>1, <2>2
<1>6. CASE WriteStatus(c)
  <2>1. status' \in Stage \cup {"IMPROPER_ORDER"}
    BY <1>1, <1>6, Carried DEF WriteStatus
  <2>2. status' \in OrderStatus \ {"CANCELLATION_REQUESTED", "CANCELLED"}
        /\ status' \notin ReadyStatus
    BY <2>1, StatusKinds DEF OrderStatus
  <2>3. Ends(c) /\ UNCHANGED <<view, reopened, delivery, booked, request, abandoned>>
    BY <1>6 DEF WriteStatus
  <2> QED BY <1>1, <2>2, <2>3, WriteKeeps DEF OrderTypeOK, SaysProduced, Same
<1>7. CASE EvaluateOrder(c)
  <2>1. call[c].step = "evaluate" /\ (Goes(c, NoCall) \/ Goes(c, [step |-> "evaluated"]))
    BY <1>7 DEF EvaluateOrder
  <2> QED BY <1>2, <1>3, <2>1 DEF NoCall
<1>8. CASE ReadInstances(c)
  <2>1. call[c].step = "evaluated"
        /\ (Goes(c, NoCall) \/ (Produced /\ Goes(c, [step |-> "book"])))
    BY <1>8 DEF ReadInstances, Produced
  <2> QED BY <1>2, <1>3, <2>1 DEF NoCall
<1>9. CASE Book(c)
  <2>1. Produced
    BY <1>9 DEF Book, OrderInv, StoredIsProduced
  <2>2. status' \in ReadyStatus /\ booked' \in {"no", "batch", "gone"}
    BY <1>1, <1>9 DEF Book, ReadyStatus, OrderTypeOK
  <2>3. status' \in OrderStatus \ {"CANCELLATION_REQUESTED", "CANCELLED"}
    BY <2>2, PolicyStatuses DEF ReadyStatus, OrderStatus
  <2>4. Ends(c) /\ UNCHANGED <<view, reopened, delivery, request, abandoned>>
    BY <1>9 DEF Book
  <2> QED BY <1>1, <2>1, <2>2, <2>3, <2>4, WriteKeeps DEF OrderTypeOK, SaysProduced, Same
<1>10. CASE BookRefused(c)
  BY <1>2, <1>3, <1>10 DEF BookRefused, NoCall
<1> QED BY <1>4, <1>5, <1>6, <1>7, <1>8, <1>9, <1>10

\* What happens around the handlers: production, the dispatchers, failures.
LEMMA SurroundingsKeep ==
  ASSUME OrderInv,
         \/ Produce \/ AddOrderToBatch \/ MarkDispatched \/ SyncOrderDeliveryStatus
         \/ \E c \in Client : Fail(c)
  PROVE  OrderInv'
<1>1. OrderTypeOK
  BY DEF OrderInv
<1>2. CASE Produce
  <2>1. ProgressNext /\ UNCHANGED <<status, delivery, booked, request, call, abandoned>>
    BY <1>2 DEF Produce
  <2>2. OrderTypeOK'
    BY <1>1, <2>1, ProgressStays DEF OrderTypeOK
  <2>3. RequestedIsDecidable' /\ StoresProduced
    BY <2>1 DEF OrderInv, RequestedIsDecidable, Pending, StoresProduced
  <2>4. SaysProduced
    BY <2>1 DEF OrderInv, ReadyIsProduced, SaysProduced, ReadyStatus, Produced
  <2> QED BY <2>1, <2>2, <2>3, <2>4, Keeps DEF Same
<1>3. CASE AddOrderToBatch \/ MarkDispatched \/ SyncOrderDeliveryStatus
  <2>1. UNCHANGED <<view, reopened, delivery, request, call, abandoned>>
        /\ booked' \in {"batch", "gone"} /\ status' \in {status, "DISPATCHED", "DELIVERED"}
    BY <1>1, <1>3 DEF AddOrderToBatch, MarkDispatched, SyncOrderDeliveryStatus, OrderTypeOK
  <2>2. OrderTypeOK'
    BY <1>1, <2>1, PolicyStatuses DEF OrderTypeOK, OrderStatus
  <2>3. RequestedIsDecidable' /\ StoresProduced
    BY <2>1 DEF OrderInv, RequestedIsDecidable, Pending, StoresProduced
  <2>4. SaysProduced
    BY <2>1 DEF OrderInv, ReadyIsProduced, SaysProduced, ReadyStatus, Produced
  <2> QED BY <2>1, <2>2, <2>3, <2>4, Keeps DEF Same
<1>4. ASSUME NEW c \in Client, Fail(c) PROVE OrderInv'
  <2>1. UNCHANGED <<view, reopened, status, delivery, booked, request>> /\ Ends(c)
        /\ abandoned' = (abandoned \/ call[c].step = "override")
    BY <1>4 DEF Fail
  <2>2. abandoned' \in BOOLEAN
    BY <2>1
  <2>3. OrderTypeOK'
    BY <1>1, <2>1, <2>2, EndKeeps DEF OrderTypeOK
  <2>4. RequestedIsDecidable'
    <3> SUFFICES ASSUME status = "CANCELLATION_REQUESTED", Pending = {}
                 PROVE  (\E d \in Client : call'[d].step = "override") \/ abandoned'
      BY <2>1 DEF RequestedIsDecidable, Pending
    <3>1. (\E d \in Client : call[d].step = "override") \/ abandoned
      BY DEF OrderInv, RequestedIsDecidable
    <3> QED BY <2>1, <3>1, EndKeeps
  <2>5. StoresProduced
    BY <2>1, EndKeeps DEF StoresProduced, NoCall
  <2>6. SaysProduced
    BY <2>1 DEF OrderInv, ReadyIsProduced, SaysProduced, ReadyStatus, Produced
  <2> QED BY <2>1, <2>3, <2>4, <2>5, <2>6, Keeps DEF Same
<1> QED BY <1>2, <1>3, <1>4

LEMMA NextKeeps == OrderInv /\ [OrderNext]_orderVars => OrderInv'
<1> SUFFICES ASSUME OrderInv, [OrderNext]_orderVars PROVE OrderInv'
  OBVIOUS
<1>1. CASE UNCHANGED orderVars
  BY <1>1 DEF orderVars, OrderInv, OrderTypeOK, CancelledHasNoWork, ReadyIsProduced,
              StoredIsProduced, Produced, RequestedIsDecidable, Pending
<1>2. CASE OrderNext
  BY <1>2, StartKeeps, CancellationKeeps, ProgressHandlersKeep, SurroundingsKeep
  DEF OrderNext, Continue
<1> QED BY <1>1, <1>2

THEOREM OrderInvariantHolds == OrderSpec => []OrderInv
BY InitKeeps, NextKeeps, PTL DEF OrderSpec

\* Every handler and every row keeps its shape: nothing ever restores a
\* cancellation or a wait for a decision.
THEOREM OrderTypeCorrect == OrderSpec => []OrderTypeOK
<1>1. OrderInv => OrderTypeOK
  BY DEF OrderInv
<1> QED BY <1>1, OrderInvariantHolds, PTL

\* No department works on a cancelled order, as long as nothing writes to its
\* workflow past the rules: the order's own handlers never bring that about.
THEOREM CancelledStopsWork == OrderSpec => []CancelledHasNoWork
<1>1. OrderInv => CancelledHasNoWork
  BY DEF OrderInv
<1> QED BY <1>1, OrderInvariantHolds, PTL

\* An order that is said to be ready has finished production, with the same
\* exception.
THEOREM ReadyOnlyWhenProduced == OrderSpec => []ReadyIsProduced
<1>1. OrderInv => ReadyIsProduced
  BY DEF OrderInv
<1> QED BY <1>1, OrderInvariantHolds, PTL

\* An order never waits for a decision that nobody can make, but for an
\* override that failed half-way.
THEOREM RequestsStayDecidable == OrderSpec => []RequestedIsDecidable
<1>1. OrderInv => RequestedIsDecidable
  BY DEF OrderInv
<1> QED BY <1>1, OrderInvariantHolds, PTL
=============================================================================
