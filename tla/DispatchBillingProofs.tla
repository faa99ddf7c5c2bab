----------------------- MODULE DispatchBillingProofs -----------------------
(***************************************************************************)
(* Proofs about DispatchBilling, for any number of orders, batches,        *)
(* windows and handlers and any charges: a batch is paid exactly when it   *)
(* is invoiced, once, and goods leave only with an invoice.                *)
(***************************************************************************)
EXTENDS DispatchBilling, WalletLedgerProofs

(***************************************************************************)
(* What a handler is doing, and what it has kept of what it read.          *)
(***************************************************************************)
BatchStatus == {"UNUSED", "DELETED", "AWAITING_READY", "HELD_INSUFFICIENT_BALANCE"} \cup Billed

Target == Batch \cup {NoBatch}

Booking == [step : {"evaluated"}, order : Order]
           \cup [step : {"link"}, order : Order, batch : Target, at : Nat, books : BOOLEAN]

Billing == [step : {"peek", "hold", "pay"}, batch : Batch, amount : Charge \ {0}]
           \cup [step : {"invoice"}, batch : Batch, amount : Charge \cap {0}]

Leaving == [step : {"dispatch"}, batch : Batch]

Moving == [step : {"unlink"}, order : Order, batch : Batch, seen : BatchStatus,
           at : Window, target : Target]
          \cup [step : {"move"}, order : Order, batch : Batch, seen : BatchStatus,
                at : Window, target : Target, remaining : SUBSET Order]
          \cup [step : {"shift"}, batch : Batch, target : Target, at : Window]

Call == {NoCall} \cup Booking \cup Billing \cup Leaving \cup Moving

\* An order that leaves a batch, and a batch that is merged, go elsewhere.
GoesElsewhere(k) == k.step \in {"unlink", "move", "shift"} => k.target # k.batch

CallsOK ==
  /\ call \in [Client -> Call]
  /\ \A c \in Client : GoesElsewhere(call[c])

\* The steps, and the fields of each.
LEMMA CallKinds ==
  ASSUME NEW k \in Call
  PROVE  /\ k = NoCall => k.step = "none"
         /\ k.step \in {"evaluated", "link", "unlink", "move"} => k.order \in Order
         /\ k.step \in {"peek", "hold", "pay", "invoice", "dispatch", "unlink", "move", "shift"} =>
              k.batch \in Batch
         /\ k.step = "link" => k.batch \in Target
         /\ k.step \in {"peek", "hold", "pay"} => k.amount \in Charge /\ k.amount # 0
         /\ k.step = "invoice" => k.amount \in Charge /\ k.amount = 0
         /\ k.step \in {"unlink", "move", "shift"} => k.target \in Target /\ k.at \in Window
         /\ k.step \in {"unlink", "move"} => k.seen \in BatchStatus
         /\ k.step = "move" => k.remaining \subseteq Order
BY DEF Call, Booking, Billing, Leaving, Moving, NoCall

\* A call that is begun, or replaced by the next one, keeps the calls in shape.
LEMMA CallsMove ==
  ASSUME CallsOK, NEW c \in Client, NEW k \in Call, Calls(c, k), GoesElsewhere(k)
  PROVE  CallsOK'
BY DEF CallsOK, Calls

\* A call that ends.
LEMMA CallsEnd ==
  ASSUME CallsOK, NEW c \in Client, Ends(c)
  PROVE  CallsOK'
<1>1. NoCall \in Call /\ GoesElsewhere(NoCall)
  BY DEF Call, NoCall, GoesElsewhere
<1> QED BY <1>1, CallsMove DEF Ends

\* Every step keeps the calls in shape.
LEMMA CallsStep ==
  DispatchTypeOK /\ CallsOK /\ [DispatchNext]_dispatchVars => CallsOK'
<1> SUFFICES ASSUME DispatchTypeOK, CallsOK, [DispatchNext]_dispatchVars PROVE CallsOK'
  OBVIOUS
<1>1. /\ status \in [Batch -> BatchStatus]
      /\ window \in [Batch -> Window]
      /\ charge \in [Batch -> Charge \cup {NoCharge}]
      /\ link \in [Order -> Target]
      /\ \A o \in Order : link[o] # NoBatch => link[o] \in Batch
  BY DispatchConstants DEF DispatchTypeOK, BatchStatus, Target
<1>2. Window \subseteq Nat /\ \A w \in Window : w + 1 \in Nat
  BY DispatchConstants DEF Window
<1>3. ASSUME NEW c \in Client, NEW o \in Order, EvaluateOrder(c, o) PROVE CallsOK'
  <2> DEFINE k == [step |-> "evaluated", order |-> o]
  <2>1. k \in Call /\ GoesElsewhere(k)
    BY DEF Call, Booking, GoesElsewhere
  <2> QED BY <1>3, <2>1, CallsMove DEF EvaluateOrder
<1>4. ASSUME NEW c \in Client, NEW o \in Order, NEW b \in Target, NEW at \in Nat,
             NEW books \in BOOLEAN,
             Calls(c, [step |-> "link", order |-> o, batch |-> b, at |-> at, books |-> books])
      PROVE  CallsOK'
  <2> DEFINE k == [step |-> "link", order |-> o, batch |-> b, at |-> at, books |-> books]
  <2>1. k \in Call /\ GoesElsewhere(k)
    BY DEF Call, Booking, GoesElsewhere
  <2> QED BY <1>4, <2>1, CallsMove
<1>5. ASSUME NEW c \in Client, NEW w \in Window, AssignToShift(c, w) PROVE CallsOK'
  <2>1. call[c].order \in Order
    BY <1>5, CallKinds DEF AssignToShift, CallsOK
  <2>2. PICK b \in Target, at \in Nat :
          Calls(c, [step |-> "link", order |-> call[c].order, batch |-> b, at |-> at,
                    books |-> TRUE])
    BY <1>2, <1>5 DEF AssignToShift, At, Target
  <2> QED BY <2>1, <2>2, <1>4
<1>6. ASSUME NEW c \in Client, NEW b \in Batch, NEW amount \in Charge,
             SetDeliveryCharge(c, b, amount)
      PROVE  CallsOK'
  <2> DEFINE k == [step |-> IF amount = 0 THEN "invoice" ELSE "peek",
                   batch |-> b, amount |-> amount]
  <2>1. k \in Call /\ GoesElsewhere(k)
    BY DEF Call, Billing, GoesElsewhere
  <2> QED BY <1>6, <2>1, CallsMove DEF SetDeliveryCharge
<1>7. ASSUME NEW c \in Client, NEW b \in Batch, ReleaseHeldBatch(c, b) PROVE CallsOK'
  BY <1>1, <1>6, <1>7 DEF ReleaseHeldBatch
<1>8. ASSUME NEW c \in Client, NEW b \in Batch, LookToDispatch(c, b) PROVE CallsOK'
  <2> DEFINE k == [step |-> "dispatch", batch |-> b]
  <2>1. k \in Call /\ GoesElsewhere(k)
    BY DEF Call, Leaving, GoesElsewhere
  <2> QED BY <1>8, <2>1, CallsMove DEF LookToDispatch
<1>9. ASSUME NEW c \in Client, NEW o \in Order, NEW target \in Target, link[o] # NoBatch,
             target # link[o], Leaves(c, o, target)
      PROVE  CallsOK'
  <2> DEFINE k == [step |-> "unlink", order |-> o, batch |-> link[o], seen |-> status[link[o]],
                   at |-> window[link[o]], target |-> target]
  <2>1. k \in Call /\ GoesElsewhere(k)
    BY <1>1, <1>9 DEF Call, Moving, GoesElsewhere
  <2> QED BY <1>9, <2>1, CallsMove DEF Leaves
<1>10. ASSUME NEW c \in Client, NEW o \in Order, RemoveOrderFromBatch(c, o) PROVE CallsOK'
  BY <1>9, <1>10 DEF RemoveOrderFromBatch, Target
<1>11. ASSUME NEW c \in Client, NEW o \in Order, NEW b \in Batch, AddOrderToBatch(c, o, b)
       PROVE  CallsOK'
  <2>1. CASE link[o] = NoBatch
    <3>1. window[b] \in Nat /\ b \in Target /\ FALSE \in BOOLEAN
      BY <1>1, <1>2 DEF Target
    <3> QED BY <1>4, <1>11, <2>1, <3>1 DEF AddOrderToBatch
  <2>2. CASE link[o] # NoBatch
    BY <1>9, <1>11, <2>2 DEF AddOrderToBatch, Target
  <2> QED BY <2>1, <2>2
<1>12. ASSUME NEW c \in Client, Unlink(c) PROVE CallsOK'
  <2> DEFINE old == call[c]
             k == [step |-> "move", order |-> old.order, batch |-> old.batch,
                   seen |-> old.seen, at |-> old.at, target |-> old.target,
                   remaining |-> OrdersOf(old.batch) \ {old.order}]
  <2>1. old \in Call /\ GoesElsewhere(old) /\ old.step = "unlink"
    BY <1>12 DEF Unlink, CallsOK
  <2>2. k \in Call
    BY <2>1, CallKinds DEF Call, Moving, OrdersOf
  <2>3. GoesElsewhere(k)
    BY <2>1 DEF GoesElsewhere
  <2> QED BY <1>12, <2>2, <2>3, CallsMove DEF Unlink
<1>13. ASSUME NEW c \in Client, NEW b \in Batch, NEW w \in Window, ChangeBatchShift(c, b, w)
       PROVE  CallsOK'
  <2>1. PICK target \in Target :
          /\ target # b
          /\ Calls(c, [step |-> "shift", batch |-> b, target |-> target, at |-> w])
    BY <1>13, DispatchConstants DEF ChangeBatchShift, At, Target
  <2> DEFINE k == [step |-> "shift", batch |-> b, target |-> target, at |-> w]
  <2>2. k \in Call /\ GoesElsewhere(k)
    BY <2>1 DEF Call, Moving, GoesElsewhere
  <2> QED BY <2>1, <2>2, CallsMove
<1>14. ASSUME NEW c \in Client, PeekBalance(c) PROVE CallsOK'
  <2> DEFINE old == call[c]
             k == [old EXCEPT !.step = IF balance[Payer] < old.amount THEN "hold" ELSE "pay"]
  <2>1. old \in Call /\ old.step = "peek"
    BY <1>14 DEF PeekBalance, CallsOK
  <2>2. old \in [step : {"peek", "hold", "pay"}, batch : Batch, amount : Charge \ {0}]
    BY <2>1 DEF Call, Booking, Billing, Leaving, Moving, NoCall
  <2>3. k \in Billing /\ GoesElsewhere(k)
    BY <2>2 DEF Billing, GoesElsewhere
  <2> QED BY <1>14, <2>3, CallsMove DEF PeekBalance, Goes, Calls, Call
<1>15. ASSUME NEW c \in Client,
              \/ ConfirmBooking(c) \/ CommitLink(c) \/ CommitHold(c)
              \/ CommitPaidBilling(c) \/ CommitFreeBilling(c) \/ MarkDispatched(c)
              \/ CommitMove(c) \/ CommitMerge(c) \/ CommitShift(c) \/ Fail(c)
       PROVE  CallsOK'
  BY <1>15, CallsEnd DEF ConfirmBooking, CommitLink, CommitHold, CommitPaidBilling,
     CommitFreeBilling, IssueInvoice, MarkDispatched, CommitMove, CommitMerge, CommitShift, Fail
<1>16. ASSUME NEW c \in Client,
              \/ LockForBilling(c) \/ LockForTopUp(c) \/ Read(c)
              \/ \E amount \in TopUps : CommitTopUp(c, amount)
       PROVE  CallsOK'
  BY <1>16 DEF LockForBilling, LockForTopUp, Read, CommitTopUp, CallsOK
<1>17. CASE UNCHANGED dispatchVars
  BY <1>17 DEF dispatchVars, CallsOK
<1> QED BY <1>3, <1>5, <1>6, <1>7, <1>8, <1>10, <1>11, <1>12, <1>13, <1>14, <1>15, <1>16, <1>17
        DEF DispatchNext

(***************************************************************************)
(* The rows of batches and orders.                                         *)
(***************************************************************************)

\* Statuses that are written over without creating a batch, with a booking
\* at most of batches that go on existing, keep the rows in shape.
LEMMA RowsKept ==
  ASSUME DispatchTypeOK,
         status' \in [Batch -> BatchStatus], window' = window,
         charge' \in [Batch -> Charge \cup {NoCharge}],
         invoice' \in [Batch -> Charge \cup {NoInvoice}],
         link' \in [Order -> Target],
         order' \in [Order -> {"IN_PRODUCTION", "READY_FOR_DISPATCH", "DISPATCHED"}],
         \A b \in Batch : Exists(b)' => Exists(b),
         \A o \in Order : link'[o] # NoBatch => Exists(link[o])',
         \A b \in Batch : status'[b] = "HELD_INSUFFICIENT_BALANCE" => charge'[b] # NoCharge
  PROVE  DispatchTypeOK'
<1>1. \A x, y \in Batch : Exists(x)' /\ Exists(y)' /\ window'[x] = window'[y] => x = y
  BY DEF DispatchTypeOK
<1>2. window' \in [Batch -> Window]
  BY DEF DispatchTypeOK
<1>3. \A o \in Order : link'[o] # NoBatch => Exists(link[o])'
  OBVIOUS
<1> QED BY <1>1, <1>2, <1>3 DEF DispatchTypeOK, BatchStatus, Target

\* A new batch gets a window that no other has.
LEMMA RowsCreated ==
  ASSUME DispatchTypeOK, NEW b \in Batch, status[b] = "UNUSED", NEW w \in Window,
         NEW st \in [Batch -> BatchStatus], st[b] = "UNUSED",
         \A a \in Batch : st[a] \notin {"UNUSED", "DELETED"} => Exists(a) /\ window[a] # w,
         status' = [st EXCEPT ![b] = "AWAITING_READY"],
         window' = [window EXCEPT ![b] = w],
         charge' \in [Batch -> Charge \cup {NoCharge}], invoice' = invoice,
         link' \in [Order -> Target],
         order' \in [Order -> {"IN_PRODUCTION", "READY_FOR_DISPATCH", "DISPATCHED"}],
         \A o \in Order : link'[o] # NoBatch => Exists(link[o])',
         \A a \in Batch : st[a] = "HELD_INSUFFICIENT_BALANCE" => charge'[a] # NoCharge
  PROVE  DispatchTypeOK'
<1>1. status' \in [Batch -> BatchStatus] /\ window' \in [Batch -> Window]
  BY DEF DispatchTypeOK, BatchStatus
<1>2. ASSUME NEW x \in Batch, NEW y \in Batch, Exists(x)', Exists(y)', window'[x] = window'[y]
      PROVE  x = y
  <2>1. \A a \in Batch \ {b} :
          status'[a] = st[a] /\ window'[a] = window[a] /\ (Exists(a)' => Exists(a) /\ window[a] # w)
    BY DEF Exists, DispatchTypeOK
  <2>2. window'[b] = w
    BY DEF DispatchTypeOK
  <2>3. \A a \in Batch \ {b} : Exists(a)' => window'[a] # w
    BY <2>1
  <2>4. x = b <=> y = b
    BY <1>2, <2>2, <2>3
  <2>5. CASE x # b /\ y # b
    <3>1. Exists(x) /\ Exists(y) /\ window[x] = window[y]
      BY <1>2, <2>1, <2>5
    <3> QED BY <3>1 DEF DispatchTypeOK
  <2> QED BY <2>4, <2>5
<1>3. \A a \in Batch : status'[a] = "HELD_INSUFFICIENT_BALANCE" => charge'[a] # NoCharge
  OBVIOUS
<1> QED BY <1>1, <1>2, <1>3 DEF DispatchTypeOK, BatchStatus, Target

\* The facts a step on a batch that exists starts from.
LEMMA RowKinds ==
  ASSUME DispatchTypeOK
  PROVE  /\ status \in [Batch -> BatchStatus] /\ window \in [Batch -> Window]
         /\ charge \in [Batch -> Charge \cup {NoCharge}]
         /\ invoice \in [Batch -> Charge \cup {NoInvoice}]
         /\ link \in [Order -> Target]
         /\ order \in [Order -> {"IN_PRODUCTION", "READY_FOR_DISPATCH", "DISPATCHED"}]
         /\ \A o \in Order : link[o] # NoBatch => link[o] \in Batch /\ Exists(link[o])
BY DispatchConstants DEF DispatchTypeOK, BatchStatus, Target

\* A booking.
LEMMA LinkRows ==
  ASSUME DispatchTypeOK, CallsOK, NEW c \in Client, CommitLink(c)
  PROVE  DispatchTypeOK'
<1> DEFINE k == call[c]
<1>1. k.order \in Order /\ k.batch \in Target
  BY CallKinds DEF CommitLink, CallsOK
<1>2. order' \in [Order -> {"IN_PRODUCTION", "READY_FOR_DISPATCH", "DISPATCHED"}]
  BY <1>1, RowKinds DEF CommitLink
<1>3. charge' = charge /\ invoice' = invoice
  BY DEF CommitLink
<1> HIDE DEF k
<1>4. CASE /\ k.batch # NoBatch
           /\ Exists(k.batch)
           /\ link' = [link EXCEPT ![k.order] = k.batch]
           /\ UNCHANGED <<status, window>>
  <2>1. link' \in [Order -> Target]
    BY <1>1, <1>4, RowKinds
  <2>2. \A b : Exists(b)' <=> Exists(b)
    BY <1>4 DEF Exists
  <2>3. \A o \in Order : link'[o] # NoBatch => Exists(link[o])'
    BY <1>1, <1>4, <2>2, RowKinds DEF Exists
  <2>4. \A b \in Batch : status'[b] = "HELD_INSUFFICIENT_BALANCE" => charge'[b] # NoCharge
    BY <1>3, <1>4 DEF DispatchTypeOK
  <2> QED BY <1>2, <1>3, <1>4, <2>1, <2>2, <2>3, <2>4, RowKinds, RowsKept
<1>5. ASSUME NEW b \in Batch, k.at \in Window, At(status, k.at) = {}, status[b] = "UNUSED",
             status' = [status EXCEPT ![b] = "AWAITING_READY"],
             window' = [window EXCEPT ![b] = k.at],
             link' = [link EXCEPT ![k.order] = b]
      PROVE  DispatchTypeOK'
  <2>1. link' \in [Order -> Target]
    BY <1>1, <1>5, RowKinds DEF Target
  <2>2. \A a \in Batch : status[a] \notin {"UNUSED", "DELETED"} => Exists(a) /\ window[a] # k.at
    BY <1>5 DEF At, Exists
  <2>3. Exists(b)' /\ \A a \in Batch : Exists(a) => Exists(a)'
    BY <1>5, RowKinds DEF Exists
  <2>4. \A o \in Order : link'[o] # NoBatch => Exists(link[o])'
    BY <1>1, <1>5, <2>3, RowKinds DEF Exists
  <2>5. \A a \in Batch : status[a] = "HELD_INSUFFICIENT_BALANCE" => charge'[a] # NoCharge
    BY <1>3 DEF DispatchTypeOK
  <2>6. PICK s \in [Batch -> BatchStatus], w \in Window : s = status /\ w = k.at
    BY <1>5, RowKinds
  <2>7. /\ s[b] = "UNUSED" /\ status[b] = "UNUSED"
        /\ status' = [s EXCEPT ![b] = "AWAITING_READY"]
        /\ window' = [window EXCEPT ![b] = w]
    BY <1>5, <2>6
  <2>8. \A a \in Batch : s[a] \notin {"UNUSED", "DELETED"} => Exists(a) /\ window[a] # w
    BY <2>2, <2>6
  <2>9. \A a \in Batch : s[a] = "HELD_INSUFFICIENT_BALANCE" => charge'[a] # NoCharge
    BY <2>5, <2>6
  <2>10. charge' \in [Batch -> Charge \cup {NoCharge}] /\ invoice' = invoice
    BY <1>3, RowKinds
  <2> QED BY <1>2, <2>1, <2>4, <2>7, <2>8, <2>9, <2>10, RowsCreated
<1> QED BY <1>4, <1>5 DEF CommitLink, k

\* A charge that is held back, and an invoice.
LEMMA HoldRows ==
  ASSUME DispatchTypeOK, CallsOK, NEW c \in Client, CommitHold(c)
  PROVE  DispatchTypeOK'
<1>1. PICK b \in Batch, amount \in Charge : b = call[c].batch /\ amount = call[c].amount
  BY CallKinds DEF CommitHold, CallsOK
<1>2. /\ Exists(b)
      /\ status' = [status EXCEPT ![b] = "HELD_INSUFFICIENT_BALANCE"]
      /\ charge' = [charge EXCEPT ![b] = amount]
      /\ UNCHANGED <<window, invoice, link, order>>
  BY <1>1 DEF CommitHold
<1>3. status' \in [Batch -> BatchStatus] /\ charge' \in [Batch -> Charge \cup {NoCharge}]
  BY <1>2, RowKinds DEF BatchStatus
<1>4. \A a \in Batch : Exists(a)' <=> Exists(a)
  BY <1>2, RowKinds DEF Exists
<1>5. \A o \in Order : link'[o] # NoBatch => Exists(link[o])'
  BY <1>2, <1>4, RowKinds DEF Exists
<1>6. \A a \in Batch : status'[a] = "HELD_INSUFFICIENT_BALANCE" => charge'[a] # NoCharge
  BY <1>2, RowKinds, DispatchConstants DEF DispatchTypeOK
<1> QED BY <1>2, <1>3, <1>4, <1>5, <1>6, RowKinds, RowsKept

LEMMA InvoiceRows ==
  ASSUME DispatchTypeOK, CallsOK, NEW c \in Client, call[c].step \in {"pay", "invoice"},
         IssueInvoice(c)
  PROVE  DispatchTypeOK'
<1>1. PICK b \in Batch, amount \in Charge : b = call[c].batch /\ amount = call[c].amount
  BY CallKinds DEF CallsOK
<1>2. /\ Exists(b)
      /\ status' = [status EXCEPT ![b] = "READY"]
      /\ charge' = [charge EXCEPT ![b] = amount]
      /\ invoice' = [invoice EXCEPT ![b] = amount]
      /\ UNCHANGED <<window, link, order>>
  BY <1>1 DEF IssueInvoice
<1>3. /\ status' \in [Batch -> BatchStatus] /\ charge' \in [Batch -> Charge \cup {NoCharge}]
      /\ invoice' \in [Batch -> Charge \cup {NoInvoice}]
  BY <1>2, RowKinds DEF BatchStatus, Billed
<1>4. \A a \in Batch : Exists(a)' <=> Exists(a)
  BY <1>2, RowKinds DEF Exists
<1>5. \A o \in Order : link'[o] # NoBatch => Exists(link[o])'
  BY <1>2, <1>4, RowKinds DEF Exists
<1>6. \A a \in Batch : status'[a] = "HELD_INSUFFICIENT_BALANCE" => charge'[a] # NoCharge
  BY <1>2, RowKinds, DispatchConstants DEF DispatchTypeOK
<1> QED BY <1>2, <1>3, <1>4, <1>5, <1>6, RowKinds, RowsKept

\* A batch that leaves.
LEMMA DispatchedRows ==
  ASSUME DispatchTypeOK, CallsOK, NEW c \in Client, MarkDispatched(c)
  PROVE  DispatchTypeOK'
<1>1. PICK b \in Batch : b = call[c].batch
  BY CallKinds DEF MarkDispatched, CallsOK
<1>2. /\ Exists(b)
      /\ status' = [status EXCEPT ![b] = "DISPATCHED"]
      /\ order' = [o \in Order |-> IF link[o] = b THEN "DISPATCHED" ELSE order[o]]
      /\ UNCHANGED <<window, charge, invoice, link>>
  BY <1>1 DEF MarkDispatched
<1>3. /\ status' \in [Batch -> BatchStatus]
      /\ order' \in [Order -> {"IN_PRODUCTION", "READY_FOR_DISPATCH", "DISPATCHED"}]
  BY <1>2, RowKinds DEF BatchStatus, Billed
<1>4. \A a \in Batch : Exists(a)' <=> Exists(a)
  BY <1>2, RowKinds DEF Exists
<1>5. \A o \in Order : link'[o] # NoBatch => Exists(link[o])'
  BY <1>2, <1>4, RowKinds DEF Exists
<1>6. \A a \in Batch : status'[a] = "HELD_INSUFFICIENT_BALANCE" => charge'[a] # NoCharge
  BY <1>2, RowKinds DEF DispatchTypeOK
<1> QED BY <1>2, <1>3, <1>4, <1>5, <1>6, RowKinds, RowsKept

\* An order that moves: the batch it leaves goes on, with or without its
\* charge, or is deleted with the bookings left in it, and the batch the
\* order comes to exists or is created for a window of its own.
LEMMA MoveRows ==
  ASSUME DispatchTypeOK, CallsOK, NEW c \in Client, CommitMove(c)
  PROVE  DispatchTypeOK'
<1> DEFINE k == call[c]
           empty == k.remaining = {}
           reopens == ~empty /\ k.seen = "HELD_INSUFFICIENT_BALANCE"
           st == IF empty THEN [status EXCEPT ![k.batch] = "DELETED"]
                 ELSE IF reopens THEN [status EXCEPT ![k.batch] = "AWAITING_READY"]
                 ELSE status
           w == LaterWindow(st, k.at)
           Goal == IF k.target # NoBatch THEN {k.target} \cap {b \in Batch : Exists(b)}
                   ELSE IF At(st, w) # {} THEN At(st, w)
                   ELSE {b \in Batch : status[b] = "UNUSED" /\ w \in Window}
<1>1. PICK b \in Batch, o \in Order, target \in Target :
        b = k.batch /\ o = k.order /\ target = k.target /\ target # b
  BY CallKinds DEF CommitMove, CallsOK, GoesElsewhere
<1>2. /\ Exists(b)
      /\ charge' = IF reopens \/ empty THEN [charge EXCEPT ![b] = NoCharge] ELSE charge
      /\ invoice' = invoice /\ order' = order
  BY <1>1 DEF CommitMove
<1>3. PICK goal \in Goal :
        /\ status' = IF st[goal] = "UNUSED" THEN [st EXCEPT ![goal] = "AWAITING_READY"] ELSE st
        /\ window' = IF st[goal] = "UNUSED" THEN [window EXCEPT ![goal] = w] ELSE window
        /\ link' = [u \in Order |-> IF u = o THEN goal
                                    ELSE IF empty /\ link[u] = b THEN NoBatch
                                    ELSE link[u]]
  <2>1. \E goal \in Goal :
          /\ status' = IF st[goal] = "UNUSED" THEN [st EXCEPT ![goal] = "AWAITING_READY"] ELSE st
          /\ window' = IF st[goal] = "UNUSED" THEN [window EXCEPT ![goal] = w] ELSE window
          /\ link' = [u \in Order |-> IF u = k.order THEN goal
                                      ELSE IF empty /\ link[u] = k.batch THEN NoBatch
                                      ELSE link[u]]
    BY DEF CommitMove
  <2> HIDE DEF st, w, empty, Goal
  <2> QED BY <1>1, <2>1
<1>4. /\ st \in [Batch -> BatchStatus]
      /\ \A a \in Batch \ {b} : st[a] = status[a]
      /\ st[b] # "UNUSED"
      /\ st[b] = "DELETED" <=> empty
      /\ st[b] = "HELD_INSUFFICIENT_BALANCE" => ~reopens /\ ~empty /\ st[b] = status[b]
  BY <1>1, <1>2, RowKinds DEF Exists, BatchStatus
<1>5. /\ charge' \in [Batch -> Charge \cup {NoCharge}]
      /\ \A a \in Batch : st[a] = "HELD_INSUFFICIENT_BALANCE" => charge'[a] # NoCharge
  <2>1. \A a \in Batch : st[a] = "HELD_INSUFFICIENT_BALANCE" =>
          charge'[a] = charge[a] /\ status[a] = "HELD_INSUFFICIENT_BALANCE"
    BY <1>2, <1>4, RowKinds
  <2> QED BY <1>2, <2>1, RowKinds DEF DispatchTypeOK
<1> HIDE DEF st, reopens
<1>6. /\ goal \in Batch
      /\ st[goal] # "DELETED"
      /\ st[goal] = "UNUSED" => /\ status[goal] = "UNUSED"
                                /\ At(st, w) = {}
                                /\ w \in Window
  <2>1. CASE k.target # NoBatch
    BY <1>1, <1>4, <2>1 DEF Exists
  <2>2. CASE k.target = NoBatch /\ At(st, w) # {}
    BY <2>2 DEF At
  <2>3. CASE k.target = NoBatch /\ At(st, w) = {}
    BY <1>2, <1>4, <2>3 DEF Exists
  <2> QED BY <2>1, <2>2, <2>3
<1> HIDE DEF k, w, Goal
<1>7. link' \in [Order -> Target]
  BY <1>3, <1>6, RowKinds DEF Target
<1>8. /\ Exists(goal)'
      /\ \A a \in Batch : st[a] \notin {"UNUSED", "DELETED"} => Exists(a)'
  BY <1>3, <1>4, <1>6 DEF Exists
<1>9. \A u \in Order : link'[u] # NoBatch => Exists(link[u])'
  <2> SUFFICES ASSUME NEW u \in Order, link'[u] # NoBatch PROVE Exists(link[u])'
    OBVIOUS
  <2>1. CASE u = o
    BY <1>3, <1>8, <2>1 DEF Exists
  <2>2. CASE u # o
    <3>1. link'[u] = link[u] /\ link[u] # NoBatch /\ ~(empty /\ link[u] = b)
      BY <1>3, <2>2
    <3>2. link[u] \in Batch /\ Exists(link[u])
      BY <3>1, RowKinds
    <3>3. st[link[u]] \notin {"UNUSED", "DELETED"}
      BY <1>4, <3>1, <3>2 DEF Exists
    <3> QED BY <1>8, <3>1, <3>2, <3>3 DEF Exists
  <2> QED BY <2>1, <2>2
<1>10. \A a \in Batch : st[a] \notin {"UNUSED", "DELETED"} => Exists(a)
  BY <1>2, <1>4 DEF Exists
<1>11. CASE st[goal] = "UNUSED"
  <2>1. PICK s \in [Batch -> BatchStatus], v \in Window : s = st /\ v = w
    BY <1>4, <1>6, <1>11
  <2>2. /\ s[goal] = "UNUSED" /\ status[goal] = "UNUSED" /\ goal \in Batch
        /\ status' = [s EXCEPT ![goal] = "AWAITING_READY"]
        /\ window' = [window EXCEPT ![goal] = v]
    BY <1>3, <1>6, <1>11, <2>1
  <2>3. \A a \in Batch : s[a] \notin {"UNUSED", "DELETED"} => Exists(a) /\ window[a] # v
    BY <1>6, <1>10, <1>11, <2>1 DEF At
  <2>4. \A a \in Batch : s[a] = "HELD_INSUFFICIENT_BALANCE" => charge'[a] # NoCharge
    BY <1>5, <2>1
  <2>5. /\ order' \in [Order -> {"IN_PRODUCTION", "READY_FOR_DISPATCH", "DISPATCHED"}]
        /\ charge' \in [Batch -> Charge \cup {NoCharge}] /\ invoice' = invoice
    BY <1>2, <1>5, RowKinds
  <2> QED BY <1>7, <1>9, <2>2, <2>3, <2>4, <2>5, RowsCreated
<1>12. CASE st[goal] # "UNUSED"
  <2>1. status' = st /\ window' = window
    BY <1>3, <1>12
  <2>2. \A a \in Batch : Exists(a)' => Exists(a)
    BY <1>10, <2>1 DEF Exists
  <2> QED BY <1>2, <1>4, <1>5, <1>7, <1>9, <2>1, <2>2, RowKinds, RowsKept
<1> QED BY <1>11, <1>12

\* A batch that is merged into another, or moves to another window.
LEMMA MergeRows ==
  ASSUME DispatchTypeOK, CallsOK, NEW c \in Client, CommitMerge(c)
  PROVE  DispatchTypeOK'
<1>1. PICK b \in Batch, target \in Batch :
        b = call[c].batch /\ target = call[c].target /\ target # b
  BY CallKinds DEF CommitMerge, CallsOK, GoesElsewhere, Target
<1>2. /\ Exists(b) /\ Exists(target)
      /\ link' = [o \in Order |-> IF link[o] = b THEN target ELSE link[o]]
      /\ status' = [status EXCEPT ![b] = "DELETED"]
      /\ charge' = [charge EXCEPT ![b] = NoCharge]
      /\ UNCHANGED <<window, invoice, order>>
  BY <1>1 DEF CommitMerge
<1>3. /\ status' \in [Batch -> BatchStatus] /\ charge' \in [Batch -> Charge \cup {NoCharge}]
      /\ link' \in [Order -> Target]
  BY <1>2, RowKinds DEF BatchStatus, Target
<1>4. /\ \A a \in Batch : Exists(a)' => Exists(a)
      /\ \A a \in Batch \ {b} : Exists(a) => Exists(a)'
  BY <1>2, RowKinds DEF Exists
<1>5. \A o \in Order : link'[o] # NoBatch => Exists(link[o])'
  BY <1>1, <1>2, <1>4, RowKinds DEF Exists
<1>6. \A a \in Batch : status'[a] = "HELD_INSUFFICIENT_BALANCE" => charge'[a] # NoCharge
  BY <1>2, RowKinds DEF DispatchTypeOK
<1> QED BY <1>2, <1>3, <1>4, <1>5, <1>6, RowKinds, RowsKept

LEMMA ShiftRows ==
  ASSUME DispatchTypeOK, CallsOK, NEW c \in Client, CommitShift(c)
  PROVE  DispatchTypeOK'
<1>1. PICK b \in Batch, w \in Window : b = call[c].batch /\ w = call[c].at
  BY CallKinds DEF CommitShift, CallsOK
<1>2. /\ Exists(b) /\ At(status, w) \subseteq {b}
      /\ window' = [window EXCEPT ![b] = w]
      /\ status' = [status EXCEPT ![b] = "AWAITING_READY"]
      /\ charge' = [charge EXCEPT ![b] = NoCharge]
      /\ UNCHANGED <<invoice, link, order>>
  BY <1>1 DEF CommitShift
<1>3. /\ status' \in [Batch -> BatchStatus] /\ charge' \in [Batch -> Charge \cup {NoCharge}]
      /\ window' \in [Batch -> Window]
  BY <1>2, RowKinds DEF BatchStatus
<1>4. \A a \in Batch : Exists(a)' <=> Exists(a)
  BY <1>2, RowKinds DEF Exists
<1>5. \A o \in Order : link'[o] # NoBatch => Exists(link[o])'
  BY <1>2, <1>4, RowKinds DEF Exists
<1>6. \A a \in Batch : status'[a] = "HELD_INSUFFICIENT_BALANCE" => charge'[a] # NoCharge
  BY <1>2, RowKinds DEF DispatchTypeOK
<1>7. ASSUME NEW x \in Batch, NEW y \in Batch, Exists(x)', Exists(y)', window'[x] = window'[y]
      PROVE  x = y
  <2>1. \A a \in Batch \ {b} : Exists(a) => window[a] # w
    BY <1>2 DEF At, Exists
  <2>2. Exists(x) /\ Exists(y)
    BY <1>4, <1>7
  <2>3. window'[b] = w /\ \A a \in Batch \ {b} : window'[a] = window[a]
    BY <1>2, RowKinds
  <2>4. CASE x = b \/ y = b
    BY <1>7, <2>1, <2>2, <2>3, <2>4
  <2>5. CASE x # b /\ y # b
    BY <1>7, <2>2, <2>3, <2>5 DEF DispatchTypeOK
  <2> QED BY <2>4, <2>5
<1> QED BY <1>2, <1>3, <1>5, <1>6, <1>7, RowKinds DEF DispatchTypeOK, BatchStatus, Target

\* The steps that touch no row of a batch or an order.
OffBatches(c) ==
  \/ \E o \in Order : EvaluateOrder(c, o) \/ RemoveOrderFromBatch(c, o)
  \/ \E w \in Window : AssignToShift(c, w)
  \/ \E b \in Batch, amount \in Charge : SetDeliveryCharge(c, b, amount)
  \/ \E b \in Batch : ReleaseHeldBatch(c, b) \/ LookToDispatch(c, b)
  \/ \E o \in Order, b \in Batch : AddOrderToBatch(c, o, b)
  \/ \E b \in Batch, w \in Window : ChangeBatchShift(c, b, w)
  \/ PeekBalance(c) \/ LockForBilling(c) \/ Unlink(c) \/ Fail(c)
  \/ LockForTopUp(c) \/ Read(c)
  \/ \E amount \in TopUps : CommitTopUp(c, amount)

LEMMA OffBatchesStays ==
  ASSUME NEW c \in Client, OffBatches(c)
  PROVE  UNCHANGED batchVars
BY DEF OffBatches, EvaluateOrder, RemoveOrderFromBatch, AssignToShift, SetDeliveryCharge,
   ReleaseHeldBatch, LookToDispatch, AddOrderToBatch, ChangeBatchShift, PeekBalance,
   LockForBilling, Unlink, Fail, LockForTopUp, Read, CommitTopUp

\* Every step keeps the rows in shape.
LEMMA RowsStep == DispatchTypeOK /\ CallsOK /\ [DispatchNext]_dispatchVars => DispatchTypeOK'
<1> SUFFICES ASSUME DispatchTypeOK, CallsOK, [DispatchNext]_dispatchVars PROVE DispatchTypeOK'
  OBVIOUS
<1>1. ASSUME UNCHANGED batchVars PROVE DispatchTypeOK'
  BY <1>1 DEF batchVars, DispatchTypeOK, Exists
<1>2. ASSUME NEW c \in Client, OffBatches(c) PROVE UNCHANGED batchVars
  BY <1>2, OffBatchesStays
<1>3. ASSUME NEW c \in Client, ConfirmBooking(c) PROVE DispatchTypeOK'
  <2>1. call[c].order \in Order
    BY <1>3, CallKinds DEF ConfirmBooking, CallsOK
  <2> QED BY <1>3, <2>1 DEF ConfirmBooking, DispatchTypeOK, Exists
<1>4. ASSUME NEW c \in Client, CommitPaidBilling(c) \/ CommitFreeBilling(c) PROVE DispatchTypeOK'
  BY <1>4, InvoiceRows DEF CommitPaidBilling, CommitFreeBilling
<1>5. CASE UNCHANGED dispatchVars
  BY <1>1, <1>5 DEF dispatchVars
<1> QED BY <1>1, <1>2, <1>3, <1>4, <1>5, LinkRows, HoldRows, DispatchedRows, MoveRows, MergeRows,
           ShiftRows DEF DispatchNext, OffBatches

(***************************************************************************)
(* The ledger.                                                             *)
(***************************************************************************)

\* The steps that touch neither the ledger nor an invoice.
OffLedger(c) ==
  \/ \E o \in Order : EvaluateOrder(c, o) \/ RemoveOrderFromBatch(c, o)
  \/ \E w \in Window : AssignToShift(c, w)
  \/ \E b \in Batch, amount \in Charge : SetDeliveryCharge(c, b, amount)
  \/ \E b \in Batch : ReleaseHeldBatch(c, b) \/ LookToDispatch(c, b)
  \/ \E o \in Order, b \in Batch : AddOrderToBatch(c, o, b)
  \/ \E b \in Batch, w \in Window : ChangeBatchShift(c, b, w)
  \/ ConfirmBooking(c) \/ CommitLink(c) \/ PeekBalance(c) \/ CommitHold(c)
  \/ MarkDispatched(c) \/ Unlink(c) \/ CommitMove(c) \/ CommitMerge(c) \/ CommitShift(c)

LEMMA OffLedgerStays ==
  ASSUME NEW c \in Client, OffLedger(c)
  PROVE  UNCHANGED <<ledgerVars, invoice>>
BY DEF OffLedger, EvaluateOrder, RemoveOrderFromBatch, AssignToShift, SetDeliveryCharge,
   ReleaseHeldBatch, LookToDispatch, AddOrderToBatch, ChangeBatchShift, ConfirmBooking,
   CommitLink, PeekBalance, CommitHold, MarkDispatched, Unlink, CommitMove, CommitMerge,
   CommitShift, batchVars

\* Every step is a step of the ledger, or leaves it alone.
LEMMA LedgerStep ==
  LedgerTypeOK /\ CallsOK /\ [DispatchNext]_dispatchVars => [LedgerNext]_ledgerVars
<1> SUFFICES ASSUME LedgerTypeOK, CallsOK, [DispatchNext]_dispatchVars
             PROVE  [LedgerNext]_ledgerVars
  OBVIOUS
<1>1. ASSUME NEW c \in Client, OffLedger(c) \/ CommitFreeBilling(c) PROVE UNCHANGED ledgerVars
  BY <1>1, OffLedgerStays DEF CommitFreeBilling
<1>2. ASSUME NEW c \in Client, LockForBilling(c) \/ LockForTopUp(c) PROVE LedgerNext
  BY <1>2, DispatchConstants DEF LockForBilling, LockForTopUp, LedgerNext
<1>3. ASSUME NEW c \in Client, Read(c) PROVE LedgerNext
  BY <1>3 DEF Read, LedgerNext
<1>4. ASSUME NEW c \in Client, CommitPaidBilling(c) PROVE LedgerNext
  <2>1. call[c].batch \in Reference /\ call[c].amount \in Amount
    BY <1>4, CallKinds, DispatchConstants DEF CommitPaidBilling, CallsOK
  <2> QED BY <1>4, <2>1 DEF CommitPaidBilling, LedgerNext
<1>5. ASSUME NEW c \in Client, NEW amount \in TopUps, CommitTopUp(c, amount) PROVE LedgerNext
  BY <1>5, DispatchConstants DEF CommitTopUp, LedgerNext
<1>6. ASSUME NEW c \in Client, Fail(c) PROVE [LedgerNext]_ledgerVars
  <2>1. CASE session[c] # NoSession
    BY <1>6, <2>1 DEF Fail, ReleaseWallet, LedgerNext
  <2>2. CASE session[c] = NoSession
    <3>1. session' = session
      BY <1>6, <2>2 DEF Fail, LedgerTypeOK
    <3> QED BY <1>6, <3>1 DEF Fail, ledgerVars
  <2> QED BY <2>1, <2>2
<1>7. CASE UNCHANGED dispatchVars
  BY <1>7 DEF dispatchVars
<1> QED BY <1>1, <1>2, <1>3, <1>4, <1>5, <1>6, <1>7 DEF DispatchNext, OffLedger

\* Every call of the ledger is for the vendor's wallet.
PayerOnly == \A c \in Client : session[c] # NoSession => session[c].wallet = Payer

LEMMA PayerStep ==
  LedgerTypeOK /\ CallsOK /\ PayerOnly /\ [DispatchNext]_dispatchVars => PayerOnly'
<1> SUFFICES ASSUME LedgerTypeOK, CallsOK, PayerOnly, [DispatchNext]_dispatchVars
             PROVE  PayerOnly'
  OBVIOUS
<1>1. ASSUME NEW c \in Client, session' = [session EXCEPT ![c] = NoSession] PROVE PayerOnly'
  BY <1>1 DEF PayerOnly, LedgerTypeOK
<1>2. ASSUME NEW c \in Client, LockForBilling(c) \/ LockForTopUp(c) PROVE PayerOnly'
  BY <1>2 DEF LockForBilling, LockForTopUp, LockWallet, PayerOnly, LedgerTypeOK, NoSession
<1>3. ASSUME NEW c \in Client, Read(c) PROVE PayerOnly'
  <2>1. session[c] # NoSession
    BY <1>3 DEF Read, ReadWallet, NoSession
  <2> QED BY <1>3, <2>1 DEF Read, ReadWallet, PayerOnly, LedgerTypeOK, NoSession
<1>4. ASSUME NEW c \in Client,
             \/ CommitPaidBilling(c) \/ Fail(c)
             \/ \E amount \in TopUps : CommitTopUp(c, amount)
      PROVE  PayerOnly'
  BY <1>1, <1>4 DEF CommitPaidBilling, CommitTopUp, DebitWallet, CreditWallet, Post, Fail
<1>5. ASSUME UNCHANGED ledgerVars PROVE PayerOnly'
  BY <1>5 DEF ledgerVars, PayerOnly
<1>6. ASSUME NEW c \in Client, OffLedger(c) \/ CommitFreeBilling(c) PROVE UNCHANGED ledgerVars
  BY <1>6, OffLedgerStays DEF CommitFreeBilling
<1>7. CASE UNCHANGED dispatchVars
  BY <1>5, <1>7 DEF dispatchVars
<1> QED BY <1>2, <1>3, <1>4, <1>5, <1>6, <1>7 DEF DispatchNext, OffLedger

(***************************************************************************)
(* Invoices.                                                               *)
(***************************************************************************)

\* A billed batch has its invoice, and so has one that is about to leave.
InvoicedOK ==
  /\ \A b \in Batch : status[b] \in Billed => invoice[b] # NoInvoice
  /\ \A c \in Client : call[c].step = "dispatch" => invoice[call[c].batch] # NoInvoice

\* An invoice is never taken back.
LEMMA InvoicesStay ==
  DispatchTypeOK /\ CallsOK /\ [DispatchNext]_dispatchVars =>
    /\ invoice' \in [Batch -> Charge \cup {NoInvoice}]
    /\ \A b \in Batch : invoice[b] # NoInvoice => invoice'[b] = invoice[b]
<1> SUFFICES ASSUME DispatchTypeOK, CallsOK, [DispatchNext]_dispatchVars
             PROVE  /\ invoice' \in [Batch -> Charge \cup {NoInvoice}]
                    /\ \A b \in Batch : invoice[b] # NoInvoice => invoice'[b] = invoice[b]
  OBVIOUS
<1>1. invoice' \in [Batch -> Charge \cup {NoInvoice}]
  BY RowsStep DEF DispatchTypeOK
<1>2. ASSUME NEW c \in Client, IssueInvoice(c)
      PROVE  \A b \in Batch : invoice[b] # NoInvoice => invoice'[b] = invoice[b]
  BY <1>2, RowKinds DEF IssueInvoice
<1>3. CASE \E c \in Client : CommitPaidBilling(c) \/ CommitFreeBilling(c)
  BY <1>1, <1>2, <1>3 DEF CommitPaidBilling, CommitFreeBilling
<1>4. ASSUME NEW c \in Client, OffLedger(c) PROVE invoice' = invoice
  BY <1>4, OffLedgerStays
<1>5. ASSUME NEW c \in Client,
             \/ LockForBilling(c) \/ LockForTopUp(c) \/ Read(c) \/ Fail(c)
             \/ \E amount \in TopUps : CommitTopUp(c, amount)
      PROVE  invoice' = invoice
  BY <1>5 DEF LockForBilling, LockForTopUp, Read, Fail, CommitTopUp, batchVars
<1>6. CASE UNCHANGED dispatchVars
  BY <1>1, <1>6 DEF dispatchVars, batchVars
<1> QED BY <1>1, <1>3, <1>4, <1>5, <1>6 DEF DispatchNext, OffLedger

\* Which steps bill a batch, and which look at one to dispatch it.
LEMMA NewlyBilled ==
  ASSUME DispatchTypeOK, CallsOK, [DispatchNext]_dispatchVars,
         NEW b \in Batch, status'[b] \in Billed, status[b] \notin Billed
  PROVE  invoice'[b] # NoInvoice \/ \E c \in Client : call[c].step = "dispatch" /\ call[c].batch = b
<1>1. "AWAITING_READY" \notin Billed /\ "DELETED" \notin Billed
      /\ "HELD_INSUFFICIENT_BALANCE" \notin Billed
  BY DEF Billed
<1>2. status \in [Batch -> BatchStatus]
  BY RowKinds
<1>3. ASSUME NEW c \in Client, call[c].step \in {"pay", "invoice"}, IssueInvoice(c)
      PROVE  invoice'[b] # NoInvoice
  <2>1. call[c].batch \in Batch /\ call[c].amount \in Charge
    BY <1>3, CallKinds DEF CallsOK
  <2>2. b = call[c].batch
    BY <1>2, <1>3, <2>1 DEF IssueInvoice
  <2> QED BY <1>3, <2>1, <2>2, RowKinds, DispatchConstants DEF IssueInvoice
<1>4. ASSUME NEW c \in Client, CommitPaidBilling(c) \/ CommitFreeBilling(c)
      PROVE  invoice'[b] # NoInvoice
  BY <1>3, <1>4 DEF CommitPaidBilling, CommitFreeBilling
<1>5. ASSUME NEW c \in Client, MarkDispatched(c)
      PROVE  call[c].step = "dispatch" /\ call[c].batch = b
  BY <1>2, <1>5 DEF MarkDispatched
<1>6. ASSUME NEW c \in Client, CommitLink(c) PROVE FALSE
  BY <1>1, <1>2, <1>6 DEF CommitLink
<1>7. ASSUME NEW c \in Client, CommitHold(c) PROVE FALSE
  BY <1>1, <1>2, <1>7 DEF CommitHold
<1>8. ASSUME NEW c \in Client, CommitMerge(c) \/ CommitShift(c) PROVE FALSE
  BY <1>1, <1>2, <1>8 DEF CommitMerge, CommitShift
<1>9. ASSUME NEW c \in Client, CommitMove(c) PROVE FALSE
  BY <1>1, <1>2, <1>9 DEF CommitMove
<1>10. ASSUME NEW c \in Client, OffBatches(c) \/ ConfirmBooking(c) PROVE status' = status
  BY <1>10, OffBatchesStays DEF ConfirmBooking, batchVars
<1>11. CASE UNCHANGED dispatchVars
  BY <1>11 DEF dispatchVars, batchVars
<1> QED BY <1>4, <1>5, <1>6, <1>7, <1>8, <1>9, <1>10, <1>11 DEF DispatchNext, OffBatches

\* Only a batch that is READY is looked at to be dispatched.
LEMMA DispatchLooks ==
  ASSUME CallsOK, [DispatchNext]_dispatchVars, NEW d \in Client, call'[d].step = "dispatch"
  PROVE  call'[d] = call[d] \/ status[call'[d].batch] = "READY"
<1>1. ASSUME NEW c \in Client, NEW k, Calls(c, k)
      PROVE  call'[d] = IF c = d THEN k ELSE call[d]
  BY <1>1 DEF Calls, CallsOK
<1>2. ASSUME NEW c \in Client,
             \/ ConfirmBooking(c) \/ CommitLink(c) \/ CommitHold(c)
             \/ CommitPaidBilling(c) \/ CommitFreeBilling(c) \/ MarkDispatched(c)
             \/ CommitMove(c) \/ CommitMerge(c) \/ CommitShift(c) \/ Fail(c)
      PROVE  call'[d] = call[d]
  <2>1. Calls(c, NoCall) /\ NoCall.step # "dispatch"
    BY <1>2 DEF ConfirmBooking, CommitLink, CommitHold, CommitPaidBilling, CommitFreeBilling,
       IssueInvoice, MarkDispatched, CommitMove, CommitMerge, CommitShift, Fail, Ends, NoCall
  <2> QED BY <1>1, <2>1
<1>3. ASSUME NEW c \in Client, PeekBalance(c) PROVE call'[d] = call[d]
  <2> DEFINE k == [call[c] EXCEPT !.step = IF balance[Payer] < call[c].amount THEN "hold"
                                           ELSE "pay"]
  <2>1. call[c] \in Call /\ call[c].step = "peek"
    BY <1>3 DEF PeekBalance, CallsOK
  <2>2. call[c] \in [step : {"peek", "hold", "pay"}, batch : Batch, amount : Charge \ {0}]
    BY <2>1 DEF Call, Booking, Billing, Leaving, Moving, NoCall
  <2>3. k.step # "dispatch"
    BY <2>2
  <2>4. Calls(c, k)
    BY <1>3 DEF PeekBalance, Goes, Calls
  <2> QED BY <1>1, <2>3, <2>4
<1>4. ASSUME NEW c \in Client, NEW b \in Batch, LookToDispatch(c, b)
      PROVE  call'[d] = call[d] \/ status[call'[d].batch] = "READY"
  BY <1>1, <1>4 DEF LookToDispatch
<1>5. ASSUME NEW c \in Client,
             \/ \E o \in Order : EvaluateOrder(c, o) \/ RemoveOrderFromBatch(c, o)
             \/ \E w \in Window : AssignToShift(c, w)
             \/ \E o \in Order, b \in Batch : AddOrderToBatch(c, o, b)
             \/ \E b \in Batch, w \in Window : ChangeBatchShift(c, b, w)
             \/ Unlink(c)
      PROVE  call'[d] = call[d]
  <2>1. ASSUME NEW k, Calls(c, k), k.step # "dispatch" PROVE call'[d] = call[d]
    BY <1>1, <2>1
  <2>2. ASSUME NEW o \in Order, NEW target, Leaves(c, o, target) PROVE call'[d] = call[d]
    BY <2>1, <2>2 DEF Leaves
  <2>3. ASSUME NEW o, NEW b, NEW at, NEW books,
               Calls(c, [step |-> "link", order |-> o, batch |-> b, at |-> at,
                         books |-> books])
        PROVE  call'[d] = call[d]
    BY <2>1, <2>3
  <2>4. ASSUME NEW o \in Order, EvaluateOrder(c, o) \/ RemoveOrderFromBatch(c, o)
        PROVE  call'[d] = call[d]
    BY <2>1, <2>2, <2>4 DEF EvaluateOrder, RemoveOrderFromBatch
  <2>5. ASSUME NEW w \in Window, AssignToShift(c, w) PROVE call'[d] = call[d]
    BY <2>3, <2>5 DEF AssignToShift
  <2>6. ASSUME NEW o \in Order, NEW b \in Batch, AddOrderToBatch(c, o, b)
        PROVE  call'[d] = call[d]
    BY <2>2, <2>3, <2>6 DEF AddOrderToBatch
  <2>7. ASSUME NEW b \in Batch, NEW w \in Window, ChangeBatchShift(c, b, w)
        PROVE  call'[d] = call[d]
    <3>1. PICK target :
            Calls(c, [step |-> "shift", batch |-> b, target |-> target, at |-> w])
      BY <2>7 DEF ChangeBatchShift
    <3> QED BY <2>1, <3>1
  <2>8. CASE Unlink(c)
    BY <2>1, <2>8 DEF Unlink
  <2> QED BY <1>5, <2>4, <2>5, <2>6, <2>7, <2>8
<1>6. ASSUME NEW c \in Client, NEW b \in Batch,
             ReleaseHeldBatch(c, b) \/ \E amount \in Charge : SetDeliveryCharge(c, b, amount)
      PROVE  call'[d] = call[d]
  <2>1. PICK amount :
          Calls(c, [step |-> IF amount = 0 THEN "invoice" ELSE "peek",
                    batch |-> b, amount |-> amount])
    BY <1>6 DEF ReleaseHeldBatch, SetDeliveryCharge
  <2> QED BY <1>1, <2>1
<1>7. ASSUME NEW c \in Client,
             \/ LockForBilling(c) \/ LockForTopUp(c) \/ Read(c)
             \/ \E amount \in TopUps : CommitTopUp(c, amount)
      PROVE  call' = call
  BY <1>7 DEF LockForBilling, LockForTopUp, Read, CommitTopUp
<1>8. CASE UNCHANGED dispatchVars
  BY <1>8 DEF dispatchVars
<1> QED BY <1>2, <1>3, <1>4, <1>5, <1>6, <1>7, <1>8 DEF DispatchNext

\* Every step keeps what is billed, or about to leave, invoiced.
LEMMA InvoicedStep ==
  DispatchTypeOK /\ CallsOK /\ InvoicedOK /\ [DispatchNext]_dispatchVars => InvoicedOK'
<1> SUFFICES ASSUME DispatchTypeOK, CallsOK, InvoicedOK, [DispatchNext]_dispatchVars
             PROVE  InvoicedOK'
  OBVIOUS
<1>1. ASSUME NEW b \in Batch, status'[b] \in Billed PROVE invoice'[b] # NoInvoice
  <2>1. CASE status[b] \in Billed
    BY <2>1, InvoicesStay DEF InvoicedOK
  <2>2. CASE status[b] \notin Billed
    BY <1>1, <2>2, NewlyBilled, InvoicesStay DEF InvoicedOK
  <2> QED BY <2>1, <2>2
<1>2. ASSUME NEW c \in Client, call'[c].step = "dispatch"
      PROVE  invoice'[call'[c].batch] # NoInvoice
  <2>1. call'[c].batch \in Batch
    <3>1. call'[c] \in Call
      BY CallsStep DEF CallsOK
    <3> QED BY <1>2, <3>1, CallKinds
  <2>2. invoice[call'[c].batch] # NoInvoice
    BY <1>2, <2>1, DispatchLooks DEF InvoicedOK, Billed
  <2> QED BY <2>1, <2>2, InvoicesStay
<1> QED BY <1>1, <1>2 DEF InvoicedOK

(***************************************************************************)
(* What the wallet is debited for.                                         *)
(***************************************************************************)

\* What a posting adds to the debits of a batch.
LEMMA PostedDebits ==
  ASSUME LedgerTypeOK, PayerOnly, NEW c \in Client, session[c].phase = "read",
         NEW reference \in Reference, NEW after \in Nat, Post(c, reference, after)
  PROVE  \E n \in Nat :
           /\ n = Len(ledger[Payer])
           /\ \A b \in Batch : Debits(b)' = IF b = reference THEN Debits(b) \cup {n + 1}
                                            ELSE Debits(b)
           /\ \A i \in 1..n : ledger'[Payer][i] = ledger[Payer][i]
           /\ ledger'[Payer][n + 1].before - ledger'[Payer][n + 1].after
                = session[c].seen - after
<1>1. session[c].wallet = Payer
  BY DEF PayerOnly, NoSession
<1>2. PICK n \in Nat :
        /\ n = Len(ledger[Payer])
        /\ Len(ledger'[Payer]) = n + 1
        /\ ledger'[Payer][n + 1].for = reference
        /\ ledger'[Payer][n + 1].before - ledger'[Payer][n + 1].after
             = session[c].seen - after
        /\ \A i \in 1..n : ledger'[Payer][i] = ledger[Payer][i]
  BY <1>1, PostAppends
<1>3. ASSUME NEW b \in Batch
      PROVE  Debits(b)' = IF b = reference THEN Debits(b) \cup {n + 1} ELSE Debits(b)
  <2>1. Debits(b)' = {i \in 1..(n + 1) : ledger'[Payer][i].for = b}
    BY <1>2 DEF Debits
  <2>2. 1..(n + 1) = 1..n \cup {n + 1}
    BY <1>2
  <2>3. Debits(b) = {i \in 1..n : ledger[Payer][i].for = b}
    BY <1>2 DEF Debits
  <2> QED BY <1>2, <2>1, <2>2, <2>3
<1> QED BY <1>2, <1>3

\* Paying for a batch is a debit for it, the only one.
LEMMA PaidStep ==
  ASSUME LedgerTypeOK, DispatchTypeOK, CallsOK, PayerOnly, BilledOnce,
         NEW c \in Client, CommitPaidBilling(c)
  PROVE  BilledOnce'
<1> DEFINE paid == call[c].batch
           amount == call[c].amount
<1>1. paid \in Batch /\ amount \in Charge /\ amount # 0
  BY CallKinds DEF CommitPaidBilling, CallsOK
<1>2. amount \in Amount /\ paid \in Reference /\ amount # NoInvoice
  BY <1>1, DispatchConstants
<1>3. /\ session[c].phase = "read"
      /\ invoice[paid] = NoInvoice
      /\ invoice' = [invoice EXCEPT ![paid] = amount]
  BY DEF CommitPaidBilling, DebitWallet, IssueInvoice
<1>4. PICK after \in Nat : Post(c, paid, after) /\ session[c].seen - after = amount
  BY <1>1, <1>2, DebitPosts DEF CommitPaidBilling
<1>5. PICK n \in Nat :
        /\ n = Len(ledger[Payer])
        /\ \A b \in Batch : Debits(b)' = IF b = paid THEN Debits(b) \cup {n + 1} ELSE Debits(b)
        /\ \A i \in 1..n : ledger'[Payer][i] = ledger[Payer][i]
        /\ ledger'[Payer][n + 1].before - ledger'[Payer][n + 1].after = amount
  BY <1>2, <1>3, <1>4, PostedDebits
<1>6. invoice \in [Batch -> Charge \cup {NoInvoice}]
  BY DEF DispatchTypeOK
<1> HIDE DEF paid, amount
<1>7. ASSUME NEW b \in Batch
      PROVE  IF invoice'[b] \in {NoInvoice, 0}
             THEN Debits(b)' = {}
             ELSE \E i \in Debits(b)' :
                    /\ Debits(b)' = {i}
                    /\ ledger'[Payer][i].before - ledger'[Payer][i].after = invoice'[b]
  <2>1. CASE b = paid
    <3>1. Debits(b) = {}
      BY <1>3, <2>1 DEF BilledOnce
    <3>2. Debits(b)' = {n + 1}
      BY <1>5, <2>1, <3>1
    <3>3. invoice'[b] = amount
      BY <1>3, <1>6, <2>1
    <3> QED BY <1>1, <1>2, <1>5, <3>2, <3>3
  <2>2. CASE b # paid
    <3>1. invoice'[b] = invoice[b] /\ Debits(b)' = Debits(b)
      BY <1>3, <1>5, <1>6, <2>2
    <3>2. \A i \in Debits(b) : ledger'[Payer][i] = ledger[Payer][i]
      BY <1>5 DEF Debits
    <3> QED BY <3>1, <3>2 DEF BilledOnce
  <2> QED BY <2>1, <2>2
<1> QED BY <1>7 DEF BilledOnce

\* A top-up is a credit for no batch.
LEMMA TopUpStep ==
  ASSUME LedgerTypeOK, PayerOnly, BilledOnce,
         NEW c \in Client, NEW amount \in TopUps, CommitTopUp(c, amount)
  PROVE  BilledOnce'
<1>1. amount \in Amount /\ TopUp \in Reference /\ \A b \in Batch : b # TopUp
  BY DispatchConstants
<1>2. session[c].phase = "read" /\ invoice' = invoice
  BY DEF CommitTopUp, CreditWallet, batchVars
<1>3. PICK after \in Nat : Post(c, TopUp, after)
  BY <1>1, CreditPosts DEF CommitTopUp
<1>4. PICK n \in Nat :
        /\ n = Len(ledger[Payer])
        /\ \A b \in Batch : Debits(b)' = Debits(b)
        /\ \A i \in 1..n : ledger'[Payer][i] = ledger[Payer][i]
  <2>1. PICK n \in Nat :
          /\ n = Len(ledger[Payer])
          /\ \A b \in Batch : Debits(b)' = IF b = TopUp THEN Debits(b) \cup {n + 1}
                                           ELSE Debits(b)
          /\ \A i \in 1..n : ledger'[Payer][i] = ledger[Payer][i]
    BY <1>1, <1>2, <1>3, PostedDebits
  <2> QED BY <1>1, <2>1
<1>5. \A b \in Batch : \A i \in Debits(b) : ledger'[Payer][i] = ledger[Payer][i]
  BY <1>4 DEF Debits
<1> QED BY <1>2, <1>4, <1>5 DEF BilledOnce

\* Every step keeps the debits and the invoices together.
LEMMA BilledStep ==
  LedgerTypeOK /\ DispatchTypeOK /\ CallsOK /\ PayerOnly /\ BilledOnce
    /\ [DispatchNext]_dispatchVars => BilledOnce'
<1> SUFFICES ASSUME LedgerTypeOK, DispatchTypeOK, CallsOK, PayerOnly, BilledOnce,
                    [DispatchNext]_dispatchVars
             PROVE  BilledOnce'
  OBVIOUS
<1>1. ASSUME ledger' = ledger, invoice' = invoice PROVE BilledOnce'
  BY <1>1 DEF BilledOnce, Debits
<1>2. ASSUME NEW c \in Client, OffLedger(c) PROVE BilledOnce'
  BY <1>1, <1>2, OffLedgerStays DEF ledgerVars
<1>3. ASSUME NEW c \in Client, CommitFreeBilling(c) PROVE BilledOnce'
  <2>1. call[c].batch \in Batch /\ call[c].amount = 0
    BY <1>3, CallKinds DEF CommitFreeBilling, CallsOK
  <2>2. /\ ledger' = ledger
        /\ invoice[call[c].batch] = NoInvoice
        /\ invoice' = [invoice EXCEPT ![call[c].batch] = 0]
    BY <1>3, <2>1 DEF CommitFreeBilling, IssueInvoice, ledgerVars
  <2>3. \A b \in Batch : Debits(b)' = Debits(b)
    BY <2>2 DEF Debits
  <2>4. \A b \in Batch : invoice'[b] = IF b = call[c].batch THEN 0 ELSE invoice[b]
    BY <2>2 DEF DispatchTypeOK
  <2> QED BY <2>2, <2>3, <2>4 DEF BilledOnce
<1>4. ASSUME NEW c \in Client, CommitPaidBilling(c) PROVE BilledOnce'
  BY <1>4, PaidStep
<1>5. ASSUME NEW c \in Client, NEW amount \in TopUps, CommitTopUp(c, amount) PROVE BilledOnce'
  BY <1>5, TopUpStep
<1>6. ASSUME NEW c \in Client,
             LockForBilling(c) \/ LockForTopUp(c) \/ Read(c) \/ Fail(c)
      PROVE  BilledOnce'
  BY <1>1, <1>6 DEF LockForBilling, LockForTopUp, LockWallet, Read, ReadWallet, Fail, batchVars
<1>7. CASE UNCHANGED dispatchVars
  BY <1>1, <1>7 DEF dispatchVars, batchVars, ledgerVars
<1> QED BY <1>2, <1>3, <1>4, <1>5, <1>6, <1>7 DEF DispatchNext, OffLedger

(***************************************************************************)
(* The theorems.                                                           *)
(***************************************************************************)

DispatchInvariant ==
  LedgerInvariant /\ DispatchTypeOK /\ CallsOK /\ PayerOnly /\ InvoicedOK /\ BilledOnce

LEMMA DispatchInitInvariant == DispatchInit => DispatchInvariant
<1> SUFFICES ASSUME DispatchInit PROVE DispatchInvariant
  OBVIOUS
<1>1. LedgerInvariant
  BY LedgerInitInvariant DEF DispatchInit
<1>2. DispatchTypeOK
  <2>1. 1 \in Window
    BY DispatchConstants DEF Window
  <2> QED BY <2>1 DEF DispatchInit, DispatchTypeOK, Exists
<1>3. CallsOK
  BY DEF DispatchInit, CallsOK, Call, NoCall, GoesElsewhere
<1>4. PayerOnly
  BY DEF DispatchInit, LedgerInit, PayerOnly
<1>5. InvoicedOK
  BY DEF DispatchInit, InvoicedOK, Billed, NoCall
<1>6. BilledOnce
  <2>1. ledger[Payer] = <<>>
    BY DispatchConstants DEF DispatchInit, LedgerInit
  <2>2. \A b \in Batch : Debits(b) = {}
    BY <2>1 DEF Debits
  <2> QED BY <2>2 DEF DispatchInit, BilledOnce
<1> QED BY <1>1, <1>2, <1>3, <1>4, <1>5, <1>6 DEF DispatchInvariant

LEMMA DispatchNextInvariant ==
  DispatchInvariant /\ [DispatchNext]_dispatchVars => DispatchInvariant'
<1> SUFFICES ASSUME DispatchInvariant, [DispatchNext]_dispatchVars PROVE DispatchInvariant'
  OBVIOUS
<1>1. /\ LedgerInvariant /\ LedgerTypeOK /\ DispatchTypeOK /\ CallsOK
      /\ PayerOnly /\ InvoicedOK /\ BilledOnce
  BY DEF DispatchInvariant, LedgerInvariant
<1>2. LedgerInvariant'
  BY <1>1, LedgerStep, LedgerNextInvariant
<1> QED BY <1>1, <1>2, RowsStep, CallsStep, PayerStep, InvoicedStep, BilledStep
        DEF DispatchInvariant

LEMMA DispatchInvariantHolds == DispatchSpec => []DispatchInvariant
BY DispatchInitInvariant, DispatchNextInvariant, PTL DEF DispatchSpec

\* Whatever handlers overlap and wherever they fail, orders are booked into
\* batches that exist, one batch at a window, and a held batch keeps the
\* charge a top-up retries.
THEOREM DispatchTypeCorrect == DispatchSpec => []DispatchTypeOK
<1>1. DispatchInvariant => DispatchTypeOK
  BY DEF DispatchInvariant
<1> QED BY <1>1, DispatchInvariantHolds, PTL

\* The wallet is debited for a batch exactly when its invoice has something
\* due, once, and by that amount: setDeliveryCharge and the top-up that
\* releases held batches may bill the same batch at once.
THEOREM BatchesBilledOnce == DispatchSpec => []BilledOnce
<1>1. DispatchInvariant => BilledOnce
  BY DEF DispatchInvariant
<1> QED BY <1>1, DispatchInvariantHolds, PTL

\* Billing and top-ups, with their failures, are calls of the wallet ledger.
LEMMA DispatchKeepsLedger == DispatchSpec => LedgerSpec
<1>1. DispatchInit => LedgerInit
  BY DEF DispatchInit
<1>2. DispatchInvariant /\ [DispatchNext]_dispatchVars => [LedgerNext]_ledgerVars
  BY LedgerStep DEF DispatchInvariant, LedgerInvariant
<1> QED BY <1>1, <1>2, DispatchInvariantHolds, PTL DEF DispatchSpec, LedgerSpec

\* The rows of the ledger account for the vendor's balance.
THEOREM DispatchKeepsAccounts == DispatchSpec => []LedgerAccountsForBalance
BY DispatchKeepsLedger, LedgerAccounts, PTL

\* Goods leave only with a batch that has its invoice, though markDispatched
\* writes by id what it read before, and others may have written since.
THEOREM DispatchedStaysBilled == DispatchSpec => DispatchedIsBilled
<1>1. DispatchInvariant /\ [DispatchNext]_dispatchVars =>
        [\A o \in Order : order[o] # "DISPATCHED" /\ order'[o] = "DISPATCHED" =>
           link[o] # NoBatch /\ invoice[link[o]] # NoInvoice]_dispatchVars
  <2> SUFFICES ASSUME DispatchInvariant, [DispatchNext]_dispatchVars, NEW o \in Order,
                      order[o] # "DISPATCHED", order'[o] = "DISPATCHED"
               PROVE  link[o] # NoBatch /\ invoice[link[o]] # NoInvoice
    OBVIOUS
  <2>1. DispatchTypeOK /\ CallsOK /\ InvoicedOK
    BY DEF DispatchInvariant
  <2>2. ASSUME NEW c \in Client, MarkDispatched(c)
        PROVE  link[o] # NoBatch /\ invoice[link[o]] # NoInvoice
    <3>1. call[c].batch \in Batch /\ call[c].step = "dispatch"
      BY <2>1, <2>2, CallKinds DEF MarkDispatched, CallsOK
    <3>2. link[o] = call[c].batch
      BY <2>2 DEF MarkDispatched
    <3> QED BY <2>1, <3>1, <3>2, DispatchConstants DEF InvoicedOK
  <2>3. ASSUME NEW c \in Client, ConfirmBooking(c) PROVE FALSE
    <3>1. call[c].order \in Order
      BY <2>1, <2>3, CallKinds DEF ConfirmBooking, CallsOK
    <3> QED BY <2>1, <2>3, <3>1, RowKinds DEF ConfirmBooking
  <2>4. ASSUME NEW c \in Client, CommitLink(c) PROVE FALSE
    BY <2>1, <2>4, RowKinds DEF CommitLink
  <2>5. ASSUME NEW c \in Client, OffBatches(c) PROVE order' = order
    BY <2>5, OffBatchesStays DEF batchVars
  <2>6. ASSUME NEW c \in Client,
               \/ CommitHold(c) \/ CommitPaidBilling(c) \/ CommitFreeBilling(c)
               \/ CommitMove(c) \/ CommitMerge(c) \/ CommitShift(c)
        PROVE  order' = order
    BY <2>6 DEF CommitHold, CommitPaidBilling, CommitFreeBilling, IssueInvoice, CommitMove,
       CommitMerge, CommitShift
  <2>7. CASE UNCHANGED dispatchVars
    BY <2>7 DEF dispatchVars, batchVars
  <2> QED BY <2>2, <2>3, <2>4, <2>5, <2>6, <2>7 DEF DispatchNext, OffBatches
<1> QED BY <1>1, DispatchInvariantHolds, PTL DEF DispatchSpec, DispatchedIsBilled
=============================================================================
