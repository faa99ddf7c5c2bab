------------------------------ MODULE Recharge ------------------------------
(***************************************************************************)
(* Wallet recharges through the payment gateway.  A payment gets a QR code *)
(* that takes one payment.  The backend learns that it was paid from a     *)
(* webhook, which the gateway repeats until it is answered, or by asking   *)
(* the gateway when the customer's browser polls; it then credits the      *)
(* wallet through WalletLedger.  Failed attempts and closed codes arrive   *)
(* as webhooks too, in any order, and the customer may cancel.             *)
(*                                                                         *)
(* The gateway (QR codes, captured payments, events) is external.  The     *)
(* unique index on the payment of a wallet transaction is left out:        *)
(* CreditedOnce shows that the code never runs into it.                    *)
(***************************************************************************)
EXTENDS WalletLedger

CONSTANTS
  Payment,      \* recharge payments
  Owner,        \* the wallet of each payment
  Value,        \* its amount
  Spending,     \* the reference of every debit
  MaxEntries,   \* bound: no debit starts on a wallet with that many entries
  MaxFailures   \* bound: requests that fail half way

ASSUME RechargeConstants ==
  /\ Reference = Payment \cup {Spending}
  /\ Spending \notin Payment
  /\ Owner \in [Payment -> Wallet]
  /\ Value \in [Payment -> Amount]
  /\ MaxEntries \in Nat
  /\ MaxFailures \in Nat

VARIABLES
  payment,    \* status of each payment row
  qr,         \* the QR code: none, asked for, open or closed at the gateway
  captured,   \* payments whose money the gateway has taken
  mispaid,    \* those of them with another amount than the payment's
  raised,     \* events the gateway wants answered
  processed,  \* events logged as processed
  refused,    \* history: events logged so because their signature was invalid
  request,    \* what each client is doing
  failures    \* requests that failed

gatewayVars == <<qr, captured, mispaid, raised>>
rechargeVars ==
  <<payment, gatewayVars, processed, refused, request, failures, ledgerVars>>

\* A capture raises two events: payment.captured and qr_code.credited.
Capture == {"captured", "credited"}

Event == Capture \cup {"closed", "failed"}

NoRequest == [step |-> "none"]

Goes(c, step) == request' = [request EXCEPT ![c].step = step]

Ends(c) == request' = [request EXCEPT ![c] = NoRequest]

\* What was thrown is caught, and a webhook logged as not processed, even if
\* it was processed by another delivery meanwhile.
Throws(c) ==
  /\ processed' = processed \ {<<request[c].event, request[c].payment>>}
  /\ Ends(c)

RechargeInit ==
  /\ LedgerInit
  /\ payment = [p \in Payment |-> "NONE"]
  /\ qr = [p \in Payment |-> "none"]
  /\ captured = {}
  /\ mispaid = {}
  /\ raised = {}
  /\ processed = {}
  /\ refused = {}
  /\ request = [c \in Client |-> NoRequest]
  /\ failures = 0

(***************************************************************************)
(* Creation, and the gateway.                                              *)
(***************************************************************************)
CreatePayment(p) ==
  /\ payment[p] = "NONE"
  /\ payment' = [payment EXCEPT ![p] = "PENDING"]
  /\ qr' = [qr EXCEPT ![p] = "asked"]
  /\ UNCHANGED <<captured, mispaid, raised, processed, refused, request, failures, ledgerVars>>

\* The customer is shown the code only now.  Neither update looks at the
\* status, which may have become CANCELLED.
ShowQr(p) ==
  /\ qr[p] = "asked"
  /\ payment' = [payment EXCEPT ![p] = "PROCESSING"]
  /\ qr' = [qr EXCEPT ![p] = "open"]
  /\ UNCHANGED <<captured, mispaid, raised, processed, refused, request, failures, ledgerVars>>

CheckoutFails(p) ==
  /\ qr[p] = "asked"
  /\ payment' = [payment EXCEPT ![p] = "FAILED"]
  /\ qr' = [qr EXCEPT ![p] = "none"]
  /\ UNCHANGED <<captured, mispaid, raised, processed, refused, request, failures, ledgerVars>>

\* The code is single-use: the payment that is captured closes it.  It asks
\* for a fixed amount, on which the backend does not rely.
Pay(p) ==
  /\ qr[p] = "open"
  /\ qr' = [qr EXCEPT ![p] = "closed"]
  /\ captured' = captured \cup {p}
  /\ mispaid' \in {mispaid, mispaid \cup {p}}
  /\ raised' = raised \cup ((Capture \cup {"closed"}) \X {p})
  /\ UNCHANGED <<payment, processed, refused, request, failures, ledgerVars>>

AttemptFails(p) ==
  /\ qr[p] = "open"
  /\ raised' = raised \cup {<<"failed", p>>}
  /\ UNCHANGED <<payment, qr, captured, mispaid, processed, refused, request, failures, ledgerVars>>

QrExpires(p) ==
  /\ qr[p] = "open"
  /\ qr' = [qr EXCEPT ![p] = "closed"]
  /\ raised' = raised \cup {<<"closed", p>>}
  /\ UNCHANGED <<payment, captured, mispaid, processed, refused, request, failures, ledgerVars>>

(***************************************************************************)
(* Requests: a webhook, a poll of the payment's status, a cancellation.    *)
(***************************************************************************)
Idle(c) == request[c] = NoRequest /\ session[c] = NoSession

Begins(c, step, p, event) ==
  /\ request' = [request EXCEPT ![c] = [step |-> step, payment |-> p, event |-> event]]
  /\ UNCHANGED <<payment, gatewayVars, processed, refused, failures, ledgerVars>>

\* Mutant: a payment that was closed or cancelled is not credited any more.
WebhookStepUnlessClosed(event, status) ==
  IF status \in {"SUCCESS", "EXPIRED", "CANCELLED"} THEN "answer"
  ELSE IF event \in Capture THEN "finalize"
  ELSE "overwrite"

\* What a webhook does, from the status it reads.
WebhookStep(event, status) ==
  IF status = "SUCCESS" \/ (event \notin Capture /\ status = "CANCELLED") THEN "answer"
  ELSE IF event \in Capture THEN "finalize"
  ELSE "overwrite"

ReceiveWebhook(c, event, p) ==
  /\ Idle(c)
  /\ <<event, p>> \in raised \ processed
  /\ Begins(c, "received", p, event)

\* The signature is checked against the secret configured now.  An event that
\* does not pass is logged as processed, so its repetitions are duplicates.
\* (Of the other events, a refused one is as good as one never sent.)
RefuseSignature(event, p) ==
  /\ <<event, p>> \in raised \ processed
  /\ processed' = processed \cup {<<event, p>>}
  /\ refused' = refused \cup {<<event, p>>}
  /\ UNCHANGED <<payment, gatewayVars, request, failures, ledgerVars>>

\* Another amount than the payment's is never credited.
AmountMismatch(c) ==
  /\ request[c].step = "received"
  /\ request[c].event \in Capture /\ request[c].payment \in mispaid
  /\ Throws(c)
  /\ UNCHANGED <<payment, gatewayVars, refused, failures, ledgerVars>>

ReadStatus(c) ==
  /\ request[c].step = "received"
  /\ request[c].event \in Capture => request[c].payment \notin mispaid
  /\ Goes(c, WebhookStep(request[c].event, payment[request[c].payment]))
  /\ UNCHANGED <<payment, gatewayVars, processed, refused, failures, ledgerVars>>

Poll(c, p) ==
  /\ Idle(c)
  /\ payment[p] = "PROCESSING"
  /\ Begins(c, "fetch", p, "poll")

\* Mutant: a poll takes the payment for captured without asking.
AssumeCaptured(c) ==
  /\ request[c].step = "fetch"
  /\ Goes(c, "finalize")
  /\ UNCHANGED <<payment, gatewayVars, processed, refused, failures, ledgerVars>>

\* An error of the gateway, a poll too soon after another and another amount
\* than the payment's find nothing.
FetchCaptured(c) ==
  /\ request[c].step = "fetch"
  /\ \/ request[c].payment \in captured \ mispaid /\ Goes(c, "finalize")
     \/ Goes(c, "answer")
  /\ UNCHANGED <<payment, gatewayVars, processed, refused, failures, ledgerVars>>

\* A payment that is still PENDING has no code to close yet.
CancelPayment(c, p) ==
  /\ Idle(c)
  /\ payment[p] \in {"PENDING", "PROCESSING"}
  /\ Begins(c, IF payment[p] = "PENDING" THEN "overwrite" ELSE "close", p, "cancel")

\* A gateway that does not answer is only logged.
CloseQr(c) ==
  LET p == request[c].payment
  IN  /\ request[c].step = "close"
      /\ Goes(c, "overwrite")
      /\ \/ /\ qr[p] = "open"
            /\ qr' = [qr EXCEPT ![p] = "closed"]
            /\ raised' = raised \cup {<<"closed", p>>}
         \/ UNCHANGED <<qr, raised>>
      /\ UNCHANGED <<payment, captured, mispaid, processed, refused, failures, ledgerVars>>

\* Another client has updated the row of the payment and not committed.
RowLocked(p, c) ==
  \E other \in Client \ {c} :
    request[other].step \in {"marked", "credit"} /\ request[other].payment = p

Outcome(event) ==
  CASE event = "closed" -> "EXPIRED"
    [] event = "failed" -> "FAILED"
    [] event = "cancel" -> "CANCELLED"

\* The update names the payment by id, whatever its status is by now.
Overwrite(c) ==
  LET p == request[c].payment
  IN  /\ request[c].step = "overwrite"
      /\ ~RowLocked(p, c)
      /\ payment' = [payment EXCEPT ![p] = Outcome(request[c].event)]
      /\ Goes(c, "answer")
      /\ UNCHANGED <<gatewayVars, processed, refused, failures, ledgerVars>>

(***************************************************************************)
(* finalizeSuccessfulRecharge, one transaction.                            *)
(***************************************************************************)
ReadPayment(c) ==
  /\ request[c].step = "finalize"
  /\ Goes(c, IF payment[request[c].payment] = "SUCCESS" THEN "answer" ELSE "mark")
  /\ UNCHANGED <<payment, gatewayVars, processed, refused, failures, ledgerVars>>

MarkSuccess(c) ==
  /\ request[c].step = "mark"
  /\ ~RowLocked(request[c].payment, c)
  /\ Goes(c, "marked")
  /\ UNCHANGED <<payment, gatewayVars, processed, refused, failures, ledgerVars>>

\* A committed wallet transaction names the payment.
Credited(p) == \E i \in 1..Len(ledger[Owner[p]]) : ledger[Owner[p]][i].for = p

\* Mutant: an earlier credit is not looked for.
SkipCreditCheck(c) ==
  /\ request[c].step = "marked"
  /\ Goes(c, "credit")
  /\ UNCHANGED <<payment, gatewayVars, processed, refused, failures, ledgerVars>>

\* When the payment was credited before, the status is all that is written.
CheckCredit(c) ==
  LET p == request[c].payment
  IN  /\ request[c].step = "marked"
      /\ IF Credited(p)
         THEN payment' = [payment EXCEPT ![p] = "SUCCESS"] /\ Goes(c, "answer")
         ELSE Goes(c, "credit") /\ UNCHANGED payment
      /\ UNCHANGED <<gatewayVars, processed, refused, failures, ledgerVars>>

LockForCredit(c) ==
  /\ request[c].step = "credit"
  /\ LockWallet(c, Owner[request[c].payment])
  /\ UNCHANGED <<payment, gatewayVars, processed, refused, request, failures>>

Read(c) ==
  /\ ReadWallet(c)
  /\ UNCHANGED <<payment, gatewayVars, processed, refused, request, failures>>

CommitCredit(c) ==
  LET p == request[c].payment
  IN  /\ request[c].step = "credit"
      /\ CreditWallet(c, p, Value[p])
      /\ payment' = [payment EXCEPT ![p] = "SUCCESS"]
      /\ Goes(c, "answer")
      /\ UNCHANGED <<gatewayVars, processed, refused, failures>>

\* Mutant: every answered request is logged, polls and cancellations too.
AnswerAny(c) ==
  /\ request[c].step = "answer"
  /\ processed' = processed \cup {<<request[c].event, request[c].payment>>}
  /\ Ends(c)
  /\ UNCHANGED <<payment, gatewayVars, refused, failures, ledgerVars>>

\* The webhook is logged as processed, in a statement of its own.
Answer(c) ==
  /\ request[c].step = "answer"
  /\ processed' = processed \cup ({<<request[c].event, request[c].payment>>} \cap raised)
  /\ Ends(c)
  /\ UNCHANGED <<payment, gatewayVars, refused, failures, ledgerVars>>

\* A request throws, or its process ends: its transaction is rolled back and
\* its locks are free.
Fail(c) ==
  /\ request[c] # NoRequest
  /\ failures < MaxFailures
  /\ failures' = failures + 1
  /\ Throws(c) \/ (Ends(c) /\ UNCHANGED processed)
  /\ session' = [session EXCEPT ![c] = NoSession]
  /\ UNCHANGED <<payment, gatewayVars, refused, balance, ledger>>

(***************************************************************************)
(* Spending: an order, an amendment or a delivery debits the wallet.       *)
(***************************************************************************)
LockForSpending(c, w) ==
  /\ Idle(c)
  /\ Len(ledger[w]) < MaxEntries
  /\ LockWallet(c, w)
  /\ UNCHANGED <<payment, gatewayVars, processed, refused, request, failures>>

Spend(c, amount) ==
  /\ request[c] = NoRequest
  /\ DebitWallet(c, Spending, amount)
  /\ UNCHANGED <<payment, gatewayVars, processed, refused, request, failures>>

SpendingFails(c) ==
  /\ request[c] = NoRequest
  /\ ReleaseWallet(c)
  /\ UNCHANGED <<payment, gatewayVars, processed, refused, request, failures>>

\* The statements of a request under way, except its failure.
Serve(c) ==
  \/ AmountMismatch(c)
  \/ ReadStatus(c)
  \/ FetchCaptured(c)
  \/ CloseQr(c)
  \/ Overwrite(c)
  \/ ReadPayment(c)
  \/ MarkSuccess(c)
  \/ CheckCredit(c)
  \/ LockForCredit(c)
  \/ Read(c)
  \/ CommitCredit(c)
  \/ Answer(c)
  \/ \E amount \in Amount : Spend(c, amount)
  \/ SpendingFails(c)

RechargeNext ==
  \/ \E p \in Payment :
       CreatePayment(p) \/ ShowQr(p) \/ CheckoutFails(p) \/ Pay(p) \/ AttemptFails(p)
       \/ QrExpires(p)
       \/ \E event \in Capture : RefuseSignature(event, p)
  \/ \E c \in Client, p \in Payment :
       \/ \E event \in Event : ReceiveWebhook(c, event, p)
       \/ Poll(c, p)
       \/ CancelPayment(c, p)
  \/ \E c \in Client : Serve(c) \/ Fail(c)
  \/ \E c \in Client, w \in Wallet : LockForSpending(c, w)

\* Requests under way are served (locks queue first come, first served), and
\* the gateway repeats the events of a captured payment until they are answered.
Fairness ==
  /\ \A c \in Client : SF_rechargeVars(Serve(c))
  /\ \A p \in Payment :
       SF_rechargeVars(\E c \in Client, event \in Capture : ReceiveWebhook(c, event, p))

RechargeSpec == RechargeInit /\ [][RechargeNext]_rechargeVars /\ Fairness

(***************************************************************************)
(* Properties.                                                             *)
(***************************************************************************)

\* Payments keep to the statuses the code writes, and to the gateway's facts.
RechargeTypeOK ==
  /\ payment \in [Payment -> {"NONE", "PENDING", "PROCESSING", "SUCCESS", "FAILED",
                              "EXPIRED", "CANCELLED"}]
  /\ qr \in [Payment -> {"none", "asked", "open", "closed"}]
  /\ mispaid \subseteq captured /\ captured \subseteq Payment
  /\ refused \subseteq raised /\ processed \subseteq raised
  /\ raised \subseteq Event \X Payment
  /\ failures \in 0..MaxFailures

\* A payment is credited at most once, though its webhook may be delivered
\* twice at a time, race with the poll, or come again after another event
\* overwrote the SUCCESS.
CreditedOnce ==
  \A p \in Payment : \A i, j \in 1..Len(ledger[Owner[p]]) :
    ledger[Owner[p]][i].for = p /\ ledger[Owner[p]][j].for = p => i = j

\* A wallet is credited only with money the gateway has taken in the amount
\* of the payment, and a payment that reads SUCCESS has been credited.
CreditedMeansCaptured ==
  \A p \in Payment :
    /\ Credited(p) => p \in captured \ mispaid
    /\ payment[p] = "SUCCESS" => Credited(p)

\* Money that the gateway took in the right amount reaches the wallet, whatever
\* the customer, the other webhooks and a bounded number of failures do in
\* between, unless the signatures of both its events were found invalid once.
CapturedIsCredited ==
  \A p \in Payment :
    p \in captured ~> Credited(p) \/ p \in mispaid \/ Capture \X {p} \subseteq refused
=============================================================================
