--------------------------- MODULE DispatchBilling ---------------------------
(***************************************************************************)
(* Dispatch of finished orders.  The orders of one vendor are booked into  *)
(* batches, one per dispatch window; a dispatcher bills a batch for its    *)
(* delivery, which debits the vendor's wallet through WalletLedger and     *)
(* issues the batch's invoice; a batch the wallet cannot pay is held until *)
(* a top-up; a billed batch is dispatched.  Until it is billed, orders may *)
(* be moved between batches and batches between windows.                   *)
(*                                                                         *)
(* Every handler reads without locks and writes by id later.  The action   *)
(* Commit... of a handler is its last statements and the commit.  A retail *)
(* customer has no wallet and is billed as if nothing were due.            *)
(***************************************************************************)
EXTENDS WalletLedger

CONSTANTS
  Order,      \* orders of the vendor that have finished production
  Batch,      \* ids of batches
  Payer,      \* the vendor's wallet
  Charge,     \* what may be due for the delivery of a batch
  TopUp,      \* the reference of every credit
  TopUps,     \* amounts that are credited
  NoBatch, NoInvoice, NoCharge,
  MaxWindow,  \* bound: windows considered
  MaxEntries  \* bound: no top-up starts on a wallet with that many entries

ASSUME DispatchConstants ==
  /\ Payer \in Wallet
  /\ Reference = Batch \cup {TopUp}
  /\ TopUp \notin Batch
  /\ Charge \subseteq Nat
  /\ (Charge \ {0}) \cup TopUps \subseteq Amount
  /\ NoBatch \notin Batch
  /\ NoCharge \notin Charge
  /\ NoInvoice \notin Charge
  /\ MaxWindow \in Nat \ {0}
  /\ MaxEntries \in Nat

VARIABLES
  status,   \* of each batch: UNUSED before it is created, DELETED after
  window,   \* the shift and day of each batch, counted from the first
  charge,   \* deliveryCharge of each batch
  invoice,  \* what was due by the invoice of each batch
  link,     \* the batch each order is booked into
  order,    \* status of each order
  call      \* what each client is doing

batchVars == <<status, window, charge, invoice, link, order>>
dispatchVars == <<batchVars, call, ledgerVars>>

Billed == {"READY", "DISPATCHED"}

Window == 1..MaxWindow

NoCall == [step |-> "none"]

Idle(c) == call[c] = NoCall /\ session[c] = NoSession

Exists(b) == status[b] \notin {"UNUSED", "DELETED"}

OrdersOf(b) == {o \in Order : link[o] = b}

\* The batch at a window, when the statuses are st.
At(st, w) == {b \in Batch : st[b] \notin {"UNUSED", "DELETED"} /\ window[b] = w}

\* The row of the order's booking is deleted by a transaction under way.
LinkLocked(o, c) ==
  \E other \in Client \ {c} : call[other].step = "move" /\ call[other].order = o

Calls(c, k) == call' = [call EXCEPT ![c] = k]

Goes(c, step) == call' = [call EXCEPT ![c].step = step]

Ends(c) == Calls(c, NoCall)

DispatchInit ==
  /\ LedgerInit
  /\ status = [b \in Batch |-> "UNUSED"]
  /\ window = [b \in Batch |-> 1]
  /\ charge = [b \in Batch |-> NoCharge]
  /\ invoice = [b \in Batch |-> NoInvoice]
  /\ link = [o \in Order |-> NoBatch]
  /\ order = [o \in Order |-> "IN_PRODUCTION"]
  /\ call = [c \in Client |-> NoCall]

(***************************************************************************)
(* Booking: evaluateOrder, which any event of a finished workflow calls.   *)
(***************************************************************************)
EvaluateOrder(c, o) ==
  /\ Idle(c)
  /\ order[o] # "DISPATCHED"
  /\ Calls(c, [step |-> "evaluated", order |-> o])
  /\ UNCHANGED <<batchVars, ledgerVars>>

\* The order is in a batch already: only its status is written.
ConfirmBooking(c) ==
  /\ call[c].step = "evaluated"
  /\ link[call[c].order] # NoBatch
  /\ order' = [order EXCEPT ![call[c].order] = "READY_FOR_DISPATCH"]
  /\ Ends(c)
  /\ UNCHANGED <<status, window, charge, invoice, link, ledgerVars>>

\* The clock selects window w.  An open batch takes the order; a billed one
\* sends it to a new batch of the next window.
AssignToShift(c, w) ==
  LET o == call[c].order
      Books(b, at) == Calls(c, [step |-> "link", order |-> o, batch |-> b, at |-> at,
                                books |-> TRUE])
  IN  /\ call[c].step = "evaluated"
      /\ link[o] = NoBatch
      /\ \/ \E b \in At(status, w) : status[b] = "AWAITING_READY" /\ Books(b, w)
         \/ \E b \in At(status, w) : status[b] # "AWAITING_READY" /\ Books(NoBatch, w + 1)
         \/ At(status, w) = {} /\ Books(NoBatch, w)
      /\ UNCHANGED <<batchVars, ledgerVars>>

\* The unique keys allow one batch per window and one batch per order.
CommitLink(c) ==
  LET k == call[c]
  IN  /\ k.step = "link"
      /\ link[k.order] = NoBatch
      /\ \/ /\ k.batch # NoBatch
            /\ Exists(k.batch)
            /\ link' = [link EXCEPT ![k.order] = k.batch]
            /\ UNCHANGED <<status, window>>
         \/ /\ k.batch = NoBatch
            /\ k.at \in Window
            /\ At(status, k.at) = {}
            /\ \E b \in Batch :
                 /\ status[b] = "UNUSED"
                 /\ status' = [status EXCEPT ![b] = "AWAITING_READY"]
                 /\ window' = [window EXCEPT ![b] = k.at]
                 /\ link' = [link EXCEPT ![k.order] = b]
      /\ order' = IF k.books THEN [order EXCEPT ![k.order] = "READY_FOR_DISPATCH"] ELSE order
      /\ Ends(c)
      /\ UNCHANGED <<charge, invoice, ledgerVars>>

(***************************************************************************)
(* Billing: setDeliveryCharge, called by the dispatcher and, with the      *)
(* charge of a held batch, after a top-up.                                 *)
(***************************************************************************)
SetDeliveryCharge(c, b, amount) ==
  /\ Idle(c)
  /\ Exists(b)
  /\ status[b] \notin Billed
  /\ OrdersOf(b) # {}
  /\ Calls(c, [step |-> IF amount = 0 THEN "invoice" ELSE "peek",
               batch |-> b, amount |-> amount])
  /\ UNCHANGED <<batchVars, ledgerVars>>

\* By the time the list of held batches is worked off, the charge that was
\* listed may be an old one: SetDeliveryCharge allows any.
ReleaseHeldBatch(c, b) ==
  /\ status[b] = "HELD_INSUFFICIENT_BALANCE"
  /\ charge[b] # NoCharge
  /\ SetDeliveryCharge(c, b, charge[b])

PeekBalance(c) ==
  /\ call[c].step = "peek"
  /\ Goes(c, IF balance[Payer] < call[c].amount THEN "hold" ELSE "pay")
  /\ UNCHANGED <<batchVars, ledgerVars>>

\* Mutant: the charge is not retained.
HoldWithoutCharge(c) ==
  LET k == call[c]
  IN  /\ k.step = "hold"
      /\ Exists(k.batch)
      /\ status' = [status EXCEPT ![k.batch] = "HELD_INSUFFICIENT_BALANCE"]
      /\ Ends(c)
      /\ UNCHANGED <<charge, window, invoice, link, order, ledgerVars>>

\* The update names the batch by id, whatever its status is by now.
CommitHold(c) ==
  LET k == call[c]
  IN  /\ k.step = "hold"
      /\ Exists(k.batch)
      /\ status' = [status EXCEPT ![k.batch] = "HELD_INSUFFICIENT_BALANCE"]
      /\ charge' = [charge EXCEPT ![k.batch] = k.amount]
      /\ Ends(c)
      /\ UNCHANGED <<window, invoice, link, order, ledgerVars>>

LockForBilling(c) ==
  /\ call[c].step = "pay"
  /\ LockWallet(c, Payer)
  /\ UNCHANGED <<batchVars, call>>

\* Mutant: nothing keeps a batch from a second invoice.
InvoiceAgain(c) ==
  LET k == call[c]
  IN  /\ Exists(k.batch)
      /\ invoice' = [invoice EXCEPT ![k.batch] = k.amount]
      /\ status' = [status EXCEPT ![k.batch] = "READY"]
      /\ charge' = [charge EXCEPT ![k.batch] = k.amount]
      /\ Ends(c)
      /\ UNCHANGED <<window, link, order>>

\* The invoice is unique for its batch.  It also lists what the orders cost
\* their vendor at placement; what it leaves due is the delivery.
IssueInvoice(c) ==
  LET k == call[c]
  IN  /\ Exists(k.batch)
      /\ invoice[k.batch] = NoInvoice
      /\ invoice' = [invoice EXCEPT ![k.batch] = k.amount]
      /\ status' = [status EXCEPT ![k.batch] = "READY"]
      /\ charge' = [charge EXCEPT ![k.batch] = k.amount]
      /\ Ends(c)
      /\ UNCHANGED <<window, link, order>>

CommitPaidBilling(c) ==
  /\ call[c].step = "pay"
  /\ DebitWallet(c, call[c].batch, call[c].amount)
  /\ IssueInvoice(c)

CommitFreeBilling(c) ==
  /\ call[c].step = "invoice"
  /\ IssueInvoice(c)
  /\ UNCHANGED ledgerVars

(***************************************************************************)
(* Dispatching a billed batch.                                             *)
(***************************************************************************)

\* Mutant: a batch that was ever charged may leave.
LookToDispatchCharged(c, b) ==
  /\ Idle(c)
  /\ Exists(b)
  /\ charge[b] # NoCharge
  /\ Calls(c, [step |-> "dispatch", batch |-> b])
  /\ UNCHANGED <<batchVars, ledgerVars>>

LookToDispatch(c, b) ==
  /\ Idle(c)
  /\ status[b] = "READY"
  /\ Calls(c, [step |-> "dispatch", batch |-> b])
  /\ UNCHANGED <<batchVars, ledgerVars>>

\* The orders are those of the batch by now.
MarkDispatched(c) ==
  LET b == call[c].batch
  IN  /\ call[c].step = "dispatch"
      /\ Exists(b)
      /\ status' = [status EXCEPT ![b] = "DISPATCHED"]
      /\ order' = [o \in Order |-> IF link[o] = b THEN "DISPATCHED" ELSE order[o]]
      /\ Ends(c)
      /\ UNCHANGED <<window, charge, invoice, link, ledgerVars>>

(***************************************************************************)
(* Moving orders and batches: removeOrderFromBatch defers an order to the  *)
(* next window, addOrderToBatch brings one from anywhere, changeBatchShift *)
(* moves a whole batch or merges it into another.                          *)
(***************************************************************************)
Leaves(c, o, target) ==
  Calls(c, [step |-> "unlink", order |-> o, batch |-> link[o], seen |-> status[link[o]],
            at |-> window[link[o]], target |-> target])

RemoveOrderFromBatch(c, o) ==
  /\ Idle(c)
  /\ link[o] # NoBatch
  /\ status[link[o]] \notin Billed
  /\ Leaves(c, o, NoBatch)
  /\ UNCHANGED <<batchVars, ledgerVars>>

AddOrderToBatch(c, o, b) ==
  /\ Idle(c)
  /\ status[b] = "AWAITING_READY"
  /\ link[o] # b
  /\ IF link[o] = NoBatch
     THEN Calls(c, [step |-> "link", order |-> o, batch |-> b, at |-> window[b],
                    books |-> FALSE])
     ELSE status[link[o]] \notin Billed /\ Leaves(c, o, b)
  /\ UNCHANGED <<batchVars, ledgerVars>>

\* The row of the booking is deleted, and locked; the orders left are counted.
Unlink(c) ==
  LET k == call[c]
  IN  /\ k.step = "unlink"
      /\ link[k.order] = k.batch
      /\ ~LinkLocked(k.order, c)
      /\ Calls(c, [step |-> "move", order |-> k.order, batch |-> k.batch, seen |-> k.seen,
                   at |-> k.at, target |-> k.target,
                   remaining |-> OrdersOf(k.batch) \ {k.order}])
      /\ UNCHANGED <<batchVars, ledgerVars>>

\* A deferred order goes to the next window, to the one after it when the
\* batch there is not open; the batch of that one is taken as it is.
LaterWindow(st, w) ==
  IF \E b \in At(st, w + 1) : st[b] # "AWAITING_READY" THEN w + 2 ELSE w + 1

\* An emptied batch is deleted, with every booking it has by now, which an
\* invoice forbids; a batch that was held is open again and its charge is gone.
CommitMove(c) ==
  LET k == call[c]
      empty == k.remaining = {}
      reopens == ~empty /\ k.seen = "HELD_INSUFFICIENT_BALANCE"
      st == IF empty THEN [status EXCEPT ![k.batch] = "DELETED"]
            ELSE IF reopens THEN [status EXCEPT ![k.batch] = "AWAITING_READY"]
            ELSE status
      w == LaterWindow(st, k.at)
      Goal == IF k.target # NoBatch THEN {k.target} \cap {b \in Batch : Exists(b)}
              ELSE IF At(st, w) # {} THEN At(st, w)
              ELSE {b \in Batch : status[b] = "UNUSED" /\ w \in Window}
  IN  /\ k.step = "move"
      /\ Exists(k.batch)
      /\ empty => /\ invoice[k.batch] = NoInvoice
                  /\ \A o \in OrdersOf(k.batch) \ {k.order} : ~LinkLocked(o, c)
      /\ \E goal \in Goal :
           /\ status' = IF st[goal] = "UNUSED" THEN [st EXCEPT ![goal] = "AWAITING_READY"]
                        ELSE st
           /\ window' = IF st[goal] = "UNUSED" THEN [window EXCEPT ![goal] = w] ELSE window
           /\ link' = [o \in Order |-> IF o = k.order THEN goal
                                       ELSE IF empty /\ link[o] = k.batch THEN NoBatch
                                       ELSE link[o]]
      /\ charge' = IF reopens \/ empty THEN [charge EXCEPT ![k.batch] = NoCharge] ELSE charge
      /\ Ends(c)
      /\ UNCHANGED <<invoice, order, ledgerVars>>

ChangeBatchShift(c, b, w) ==
  /\ Idle(c)
  /\ Exists(b)
  /\ status[b] \notin Billed
  /\ window[b] # w
  /\ \A target \in At(status, w) : status[target] = "AWAITING_READY"
  /\ \E target \in IF At(status, w) = {} THEN {NoBatch} ELSE At(status, w) :
       Calls(c, [step |-> "shift", batch |-> b, target |-> target, at |-> w])
  /\ UNCHANGED <<batchVars, ledgerVars>>

CommitMerge(c) ==
  LET k == call[c]
  IN  /\ k.step = "shift"
      /\ k.target # NoBatch
      /\ Exists(k.batch) /\ Exists(k.target)
      /\ invoice[k.batch] = NoInvoice
      /\ \A o \in OrdersOf(k.batch) : ~LinkLocked(o, c)
      /\ link' = [o \in Order |-> IF link[o] = k.batch THEN k.target ELSE link[o]]
      /\ status' = [status EXCEPT ![k.batch] = "DELETED"]
      /\ charge' = [charge EXCEPT ![k.batch] = NoCharge]
      /\ Ends(c)
      /\ UNCHANGED <<window, invoice, order, ledgerVars>>

CommitShift(c) ==
  LET k == call[c]
  IN  /\ k.step = "shift"
      /\ k.target = NoBatch
      /\ Exists(k.batch)
      /\ At(status, k.at) \subseteq {k.batch}
      /\ window' = [window EXCEPT ![k.batch] = k.at]
      /\ status' = [status EXCEPT ![k.batch] = "AWAITING_READY"]
      /\ charge' = [charge EXCEPT ![k.batch] = NoCharge]
      /\ Ends(c)
      /\ UNCHANGED <<invoice, link, order, ledgerVars>>

\* A handler throws, its transaction times out, or its process ends.
Fail(c) ==
  /\ call[c] # NoCall
  /\ Ends(c)
  /\ session' = [session EXCEPT ![c] = NoSession]
  /\ UNCHANGED <<batchVars, balance, ledger>>

(***************************************************************************)
(* Top-ups, and the two kinds of ledger call.                              *)
(***************************************************************************)
LockForTopUp(c) ==
  /\ Idle(c)
  /\ Len(ledger[Payer]) < MaxEntries
  /\ LockWallet(c, Payer)
  /\ UNCHANGED <<batchVars, call>>

Read(c) ==
  /\ ReadWallet(c)
  /\ UNCHANGED <<batchVars, call>>

CommitTopUp(c, amount) ==
  /\ call[c] = NoCall
  /\ CreditWallet(c, TopUp, amount)
  /\ UNCHANGED <<batchVars, call>>

DispatchNext ==
  \E c \in Client :
    \/ \E o \in Order : EvaluateOrder(c, o) \/ RemoveOrderFromBatch(c, o)
    \/ \E w \in Window : AssignToShift(c, w)
    \/ \E b \in Batch, amount \in Charge : SetDeliveryCharge(c, b, amount)
    \/ \E b \in Batch : ReleaseHeldBatch(c, b) \/ LookToDispatch(c, b)
    \/ \E o \in Order, b \in Batch : AddOrderToBatch(c, o, b)
    \/ \E b \in Batch, w \in Window : ChangeBatchShift(c, b, w)
    \/ ConfirmBooking(c) \/ CommitLink(c)
    \/ PeekBalance(c) \/ CommitHold(c)
    \/ LockForBilling(c) \/ CommitPaidBilling(c) \/ CommitFreeBilling(c)
    \/ MarkDispatched(c)
    \/ Unlink(c) \/ CommitMove(c) \/ CommitMerge(c) \/ CommitShift(c)
    \/ Fail(c)
    \/ LockForTopUp(c) \/ Read(c)
    \/ \E amount \in TopUps : CommitTopUp(c, amount)

DispatchSpec == DispatchInit /\ [][DispatchNext]_dispatchVars

(***************************************************************************)
(* Properties.                                                             *)
(***************************************************************************)

\* Orders are booked into batches that exist, no two batches share a window,
\* and a held batch keeps the charge that a top-up retries.
DispatchTypeOK ==
  /\ status \in [Batch -> {"UNUSED", "DELETED", "AWAITING_READY",
                           "HELD_INSUFFICIENT_BALANCE"} \cup Billed]
  /\ window \in [Batch -> Window]
  /\ charge \in [Batch -> Charge \cup {NoCharge}]
  /\ invoice \in [Batch -> Charge \cup {NoInvoice}]
  /\ link \in [Order -> Batch \cup {NoBatch}]
  /\ order \in [Order -> {"IN_PRODUCTION", "READY_FOR_DISPATCH", "DISPATCHED"}]
  /\ \A o \in Order : link[o] # NoBatch => Exists(link[o])
  /\ \A a, b \in Batch : Exists(a) /\ Exists(b) /\ window[a] = window[b] => a = b
  /\ \A b \in Batch : status[b] = "HELD_INSUFFICIENT_BALANCE" => charge[b] # NoCharge

Debits(b) == {i \in 1..Len(ledger[Payer]) : ledger[Payer][i].for = b}

\* The wallet is debited for a batch exactly when the batch has an invoice
\* with something due, once, and by that amount, whichever dispatchers and
\* top-ups bill it at the same time and wherever one of them fails.
BilledOnce ==
  \A b \in Batch :
    IF invoice[b] \in {NoInvoice, 0}
    THEN Debits(b) = {}
    ELSE \E i \in Debits(b) :
           /\ Debits(b) = {i}
           /\ ledger[Payer][i].before - ledger[Payer][i].after = invoice[b]

\* Goods leave only with a batch that has its invoice, though the status that
\* said so was read before the transaction and may have been overwritten.
DispatchedIsBilled ==
  [][\A o \in Order : order[o] # "DISPATCHED" /\ order'[o] = "DISPATCHED" =>
       link[o] # NoBatch /\ invoice[link[o]] # NoInvoice]_dispatchVars

\* A batch that is held has no invoice, so that a top-up can still bill it.
HeldIsUnbilled ==
  \A b \in Batch : status[b] = "HELD_INSUFFICIENT_BALANCE" => invoice[b] = NoInvoice
=============================================================================
