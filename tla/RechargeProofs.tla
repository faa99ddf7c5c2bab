--------------------------- MODULE RechargeProofs ---------------------------
(***************************************************************************)
(* Proofs about Recharge, for any number of payments, wallets and          *)
(* concurrent requests: money moves only through the ledger, a payment is  *)
(* credited at most once, and only when the gateway has taken its amount.  *)
(***************************************************************************)
EXTENDS Recharge, WalletLedgerProofs

Step == {"received", "fetch", "close", "overwrite", "finalize", "mark", "marked", "credit", "answer"}

EventAllows(step, event) ==
  /\ step = "received" => event \in Event
  /\ step \in {"close", "overwrite"} => event \in {"closed", "failed", "cancel"}

Requests ==
  {NoRequest}
  \cup {r \in [step : Step, payment : Payment, event : Event \cup {"poll", "cancel"}] :
         EventAllows(r.step, r.event)}

RequestsTypeOK ==
  /\ request \in [Client -> Requests]
  /\ DOMAIN payment = Payment
  /\ raised \subseteq Event \X Payment

\* The row of a payment is updated by one transaction at a time.
RowOwnedOnce ==
  \A c, d \in Client :
    /\ request[c].step \in {"marked", "credit"}
    /\ request[d].step \in {"marked", "credit"}
    /\ request[c].payment = request[d].payment
    => c = d

\* A transaction about to credit has looked for an earlier credit in vain,
\* and nobody else can have posted one since.
CreditIsFirst ==
  \A c \in Client : request[c].step = "credit" => ~Credited(request[c].payment)

\* The wallet a recharge holds is the one of its payment.
SessionServesRequest ==
  \A c \in Client :
    request[c] # NoRequest /\ session[c].phase \in {"locked", "read"}
      => request[c].step = "credit" /\ session[c].wallet = Owner[request[c].payment]

TowardsCredit(step, event) ==
  \/ step \in {"finalize", "mark", "marked", "credit"}
  \/ step = "received" /\ event \in Capture

Settling == {"finalize", "mark", "marked", "credit"}

\* Everything on the way to a credit starts from money that was taken, and
\* goes on only if it is the amount of the payment.
OnlyCapturedIsFinalized ==
  /\ \A e \in Capture, p \in Payment : <<e, p>> \in raised => p \in captured
  /\ \A c \in Client :
       /\ TowardsCredit(request[c].step, request[c].event) => request[c].payment \in captured
       /\ request[c].step \in Settling => request[c].payment \notin mispaid

\* A payment is captured once: its code is closed, and never asked for again.
CapturedIsClosed ==
  /\ DOMAIN qr = Payment
  /\ \A p \in Payment : p \in captured => qr[p] = "closed"
  /\ \A p \in Payment : payment[p] = "NONE" => qr[p] = "none"

RechargeInvariant ==
  /\ RequestsTypeOK
  /\ RowOwnedOnce
  /\ CreditIsFirst
  /\ SessionServesRequest
  /\ OnlyCapturedIsFinalized
  /\ CreditedOnce
  /\ CreditedMeansCaptured

\* A request that is not idle has a payment and an event; one that is not
\* crediting holds no wallet.
LEMMA RequestKinds ==
  ASSUME RechargeInvariant, LedgerTypeOK, NEW c \in Client
  PROVE  /\ request[c] = NoRequest <=> request[c].step = "none"
         /\ request[c] # NoRequest =>
              /\ request[c].step \in Step
              /\ request[c].payment \in Payment
              /\ request[c].event \in Event \cup {"poll", "cancel"}
              /\ EventAllows(request[c].step, request[c].event)
         /\ request[c] # NoRequest /\ request[c].step # "credit" => session[c] = NoSession
<1>1. request[c] \in Requests
  BY DEF RechargeInvariant, RequestsTypeOK
<1>2. /\ request[c] = NoRequest <=> request[c].step = "none"
      /\ request[c] # NoRequest =>
           /\ request[c].step \in Step
           /\ request[c].payment \in Payment
           /\ request[c].event \in Event \cup {"poll", "cancel"}
           /\ EventAllows(request[c].step, request[c].event)
  BY <1>1 DEF Requests, NoRequest, Step
<1>3. session[c] = NoSession \/ session[c].phase \in {"locked", "read"}
  BY DEF LedgerTypeOK, NoSession
<1> QED BY <1>2, <1>3 DEF RechargeInvariant, SessionServesRequest

\* Going to another step keeps the payment and the event of the request.
LEMMA GoesChanges ==
  ASSUME RechargeInvariant, LedgerTypeOK, NEW c \in Client, request[c] # NoRequest,
         NEW step \in Step, Goes(c, step), EventAllows(step, request[c].event)
  PROVE  \E r \in Requests :
           /\ request' = [request EXCEPT ![c] = r]
           /\ r # NoRequest
           /\ r.step = step
           /\ r.payment = request[c].payment
           /\ r.event = request[c].event
<1> DEFINE r == [step |-> step, payment |-> request[c].payment, event |-> request[c].event]
<1>1. request \in [Client -> Requests] /\ request[c] \in Requests \ {NoRequest}
  BY DEF RechargeInvariant, RequestsTypeOK
<1>2. r \in Requests /\ r # NoRequest
  BY RequestKinds DEF Requests, NoRequest, Step
<1>3. [request[c] EXCEPT !.step = step] = r
  BY <1>1 DEF Requests
<1>4. request' = [request EXCEPT ![c] = r]
  BY <1>1, <1>3 DEF Goes
<1> QED BY <1>2, <1>4

\* No payment is credited, and none forgotten, while the ledger stays.
LEMMA LedgerStays ==
  ASSUME ledger' = ledger
  PROVE  /\ \A p \in Payment : Credited(p)' <=> Credited(p)
         /\ CreditedOnce => CreditedOnce'
BY DEF Credited, CreditedOnce

\* A statement that leaves the ledger and the gateway's captures alone keeps
\* the invariant, under conditions on the step its client goes to.
LEMMA MoveInvariant ==
  ASSUME RechargeInvariant, LedgerTypeOK, NEW c \in Client, NEW r \in Requests,
         request' = [request EXCEPT ![c] = r],
         ledger' = ledger, captured' = captured, mispaid' = mispaid,
         raised \subseteq raised', raised' \subseteq Event \X Payment,
         \A e \in Capture, p \in Payment : <<e, p>> \in raised' => <<e, p>> \in raised,
         DOMAIN payment' = Payment,
         \A p \in Payment : payment'[p] = "SUCCESS" => payment[p] = "SUCCESS" \/ Credited(p),
         session' = [session EXCEPT ![c] = NoSession],
         r.step = "marked" => ~RowLocked(r.payment, c),
         r.step = "credit" => /\ request[c].step = "marked"
                              /\ r.payment = request[c].payment
                              /\ ~Credited(r.payment),
         TowardsCredit(r.step, r.event) => r.payment \in captured,
         r.step \in Settling => r.payment \notin mispaid
  PROVE  RechargeInvariant'
<1>1. /\ request \in [Client -> Requests]
      /\ request'[c] = r
      /\ \A d \in Client : d # c => request'[d] = request[d]
  BY DEF RechargeInvariant, RequestsTypeOK
<1>2. /\ session'[c] = NoSession
      /\ \A d \in Client : d # c => session'[d] = session[d]
  BY DEF LedgerTypeOK
<1>3. RequestsTypeOK'
  BY <1>1 DEF RechargeInvariant, RequestsTypeOK
<1>4. r \in [step : Step, payment : Payment, event : Event \cup {"poll", "cancel"}]
      \/ r.step = "none"
  BY DEF Requests, NoRequest
<1>5. RowOwnedOnce'
  BY <1>1 DEF RechargeInvariant, RowOwnedOnce, RowLocked
<1>6. CreditIsFirst'
  <2>1. \A d \in Client : request'[d].step = "credit" => request'[d].payment \in Payment
    BY <1>1, <1>3 DEF RequestsTypeOK, Requests, NoRequest
  <2>2. \A d \in Client : request'[d].step = "credit" => ~Credited(request'[d].payment)
    BY <1>1 DEF RechargeInvariant, CreditIsFirst
  <2> QED BY <2>1, <2>2, LedgerStays DEF CreditIsFirst
<1>7. SessionServesRequest'
  BY <1>1, <1>2 DEF RechargeInvariant, SessionServesRequest, NoSession
<1>8. OnlyCapturedIsFinalized'
  BY <1>1 DEF RechargeInvariant, OnlyCapturedIsFinalized
<1>9. CreditedOnce'
  BY LedgerStays DEF RechargeInvariant
<1>10. CreditedMeansCaptured'
  BY LedgerStays DEF RechargeInvariant, CreditedMeansCaptured
<1> QED BY <1>3, <1>5, <1>6, <1>7, <1>8, <1>9, <1>10 DEF RechargeInvariant

\* The same for a statement that leaves the request alone: the gateway's own
\* moves, and the locking of a wallet.
LEMMA StillInvariant ==
  ASSUME RechargeInvariant, LedgerTypeOK, request' = request, ledger' = ledger,
         captured \subseteq captured', raised' \subseteq Event \X Payment,
         \A p \in captured : p \in mispaid' => p \in mispaid,
         \A e \in Capture, p \in Payment : <<e, p>> \in raised' => p \in captured',
         DOMAIN payment' = Payment,
         \A p \in Payment : payment'[p] = "SUCCESS" => payment[p] = "SUCCESS",
         \A d \in Client :
           request[d] # NoRequest /\ session'[d].phase \in {"locked", "read"}
             => request[d].step = "credit" /\ session'[d].wallet = Owner[request[d].payment]
  PROVE  RechargeInvariant'
<1>1. RequestsTypeOK'
  BY DEF RechargeInvariant, RequestsTypeOK
<1>2. RowOwnedOnce'
  BY DEF RechargeInvariant, RowOwnedOnce
<1>3. CreditIsFirst'
  <2>1. \A d \in Client : request[d].step = "credit" => request[d].payment \in Payment
    BY RequestKinds DEF NoRequest
  <2> QED BY <2>1, LedgerStays DEF RechargeInvariant, CreditIsFirst
<1>4. SessionServesRequest'
  BY DEF SessionServesRequest
<1>5. OnlyCapturedIsFinalized'
  BY DEF RechargeInvariant, OnlyCapturedIsFinalized, TowardsCredit, Settling
<1>6. CreditedOnce'
  BY LedgerStays DEF RechargeInvariant
<1>7. CreditedMeansCaptured'
  BY LedgerStays DEF RechargeInvariant, CreditedMeansCaptured
<1> QED BY <1>1, <1>2, <1>3, <1>4, <1>5, <1>6, <1>7 DEF RechargeInvariant

\* What a posting does to the credits of the payments.
LEMMA PostCredits ==
  ASSUME LedgerTypeOK, NEW c \in Client, session[c].phase = "read",
         NEW reference \in Reference, NEW after \in Nat, Post(c, reference, after)
  PROVE  /\ \A p \in Payment :
              Credited(p)' <=> Credited(p) \/ (reference = p /\ Owner[p] = session[c].wallet)
         /\ CreditedOnce /\ (\A p \in Payment : reference = p => ~Credited(p))
              => CreditedOnce'
<1>1. PICK w \in Wallet : w = session[c].wallet
  BY SessionKinds
<1>2. session[c].seen \in Nat
  BY SessionKinds
<1>3. PICK entry \in LedgerEntry :
        entry = [for |-> reference, before |-> session[c].seen, after |-> after]
  BY <1>2 DEF LedgerEntry
<1>4. entry.for = reference
  BY <1>3
<1>5. ledger' = [ledger EXCEPT ![w] = Append(ledger[w], entry)]
  BY <1>1, <1>3 DEF Post
<1>6. ledger \in [Wallet -> Seq(LedgerEntry)]
  BY DEF LedgerTypeOK
<1>7. PICK n \in Nat : n = Len(ledger[w])
  BY <1>6
<1>8. /\ Len(ledger'[w]) = n + 1
      /\ ledger'[w][n + 1] = entry
      /\ \A i \in 1..n : ledger'[w][i] = ledger[w][i]
  BY <1>5, <1>6, <1>7
<1>9. \A v \in Wallet : v # w => ledger'[v] = ledger[v]
  BY <1>5, <1>6
<1>10. \A p \in Payment : Owner[p] \in Wallet
  BY RechargeConstants
<1>11. ASSUME NEW p \in Payment
       PROVE  Credited(p)' <=> Credited(p) \/ (reference = p /\ Owner[p] = w)
  <2>1. CASE Owner[p] # w
    BY <1>9, <1>10, <2>1 DEF Credited
  <2>2. CASE Owner[p] = w
    <3>1. Credited(p)' <=> \E i \in 1..(n + 1) : ledger'[w][i].for = p
      BY <1>8, <2>2 DEF Credited
    <3>2. Credited(p) <=> \E i \in 1..n : ledger[w][i].for = p
      BY <1>7, <2>2 DEF Credited
    <3>3. \A i \in 1..(n + 1) : i \in 1..n \/ i = n + 1
      OBVIOUS
    <3>4. 1..n \subseteq 1..(n + 1) /\ n + 1 \in 1..(n + 1)
      OBVIOUS
    <3> QED BY <1>4, <1>8, <2>2, <3>1, <3>2, <3>3, <3>4
  <2> QED BY <2>1, <2>2
<1>12. ASSUME CreditedOnce, \A p \in Payment : reference = p => ~Credited(p)
       PROVE  CreditedOnce'
  <2> SUFFICES ASSUME NEW p \in Payment,
                      NEW i \in 1..Len(ledger'[Owner[p]]), NEW j \in 1..Len(ledger'[Owner[p]]),
                      ledger'[Owner[p]][i].for = p, ledger'[Owner[p]][j].for = p
               PROVE  i = j
    BY DEF CreditedOnce
  <2>1. CASE Owner[p] # w
    BY <1>9, <1>10, <1>12, <2>1 DEF CreditedOnce
  <2>2. CASE Owner[p] = w
    <3>1. i \in 1..n \/ i = n + 1
      BY <1>8, <2>2
    <3>2. j \in 1..n \/ j = n + 1
      BY <1>8, <2>2
    <3>3. CASE i \in 1..n /\ j \in 1..n
      <4>1. \A k, l \in 1..n : ledger[w][k].for = p /\ ledger[w][l].for = p => k = l
        BY <1>7, <1>12, <2>2 DEF CreditedOnce
      <4>2. ledger'[w][i] = ledger[w][i] /\ ledger'[w][j] = ledger[w][j]
        BY <1>8, <3>3
      <4>3. ledger[w][i].for = p /\ ledger[w][j].for = p
        BY <2>2, <4>2
      <4> QED BY <3>3, <4>1, <4>3
    <3>4. CASE i = n + 1 \/ j = n + 1
      <4>1. reference = p
        BY <1>4, <1>8, <2>2, <3>4
      <4>2. \A k \in 1..n : ledger[w][k].for # p
        BY <1>7, <1>12, <2>2, <4>1 DEF Credited
      <4>3. \A k \in 1..n : ledger'[w][k].for # p
        BY <1>8, <4>2
      <4> QED BY <2>2, <3>1, <3>2, <4>3
    <3> QED BY <3>1, <3>2, <3>3, <3>4
  <2> QED BY <2>1, <2>2
<1> QED BY <1>1, <1>11, <1>12

Full == RechargeInvariant /\ CapturedIsClosed /\ LedgerInvariant

\* Creating a payment, and what happens at the gateway.
LEMMA GatewayInvariant ==
  ASSUME Full, NEW p \in Payment,
         CreatePayment(p) \/ ShowQr(p) \/ CheckoutFails(p) \/ Pay(p) \/ AttemptFails(p)
         \/ QrExpires(p) \/ (\E event \in Capture : RefuseSignature(event, p))
  PROVE  RechargeInvariant'
<1>1. /\ request' = request /\ ledger' = ledger /\ session' = session
      /\ captured \subseteq captured'
      /\ \/ raised' = raised /\ captured' = captured
         \/ raised' = raised \cup {<<"failed", p>>} /\ captured' = captured
         \/ raised' = raised \cup {<<"closed", p>>} /\ captured' = captured
         \/ raised' = raised \cup ((Capture \cup {"closed"}) \X {p}) /\ captured' = captured \cup {p}
  BY DEF CreatePayment, ShowQr, CheckoutFails, Pay, AttemptFails, QrExpires,
         RefuseSignature, gatewayVars, ledgerVars
<1>2. \A e \in Capture : e # "failed" /\ e # "closed"
  BY DEF Capture
<1>3. raised \subseteq Event \X Payment /\ raised' \subseteq Event \X Payment
  BY <1>1 DEF Full, RechargeInvariant, RequestsTypeOK, Event
<1>4. \A e \in Capture, q \in Payment : <<e, q>> \in raised' => q \in captured'
  <2>1. \A e \in Capture, q \in Payment : <<e, q>> \in raised => q \in captured
    BY DEF Full, RechargeInvariant, OnlyCapturedIsFinalized
  <2> QED BY <1>1, <1>2, <2>1
<1>9. \A q \in captured : q \in mispaid' => q \in mispaid
  <2>1. mispaid' = mispaid \/ (qr[p] = "open" /\ mispaid' = mispaid \cup {p})
    BY DEF CreatePayment, ShowQr, CheckoutFails, Pay, AttemptFails, QrExpires,
           RefuseSignature, gatewayVars
  <2> QED BY <2>1 DEF Full, CapturedIsClosed
<1>5. payment' = payment \/ payment' = [payment EXCEPT ![p] = "PENDING"]
      \/ payment' = [payment EXCEPT ![p] = "PROCESSING"]
      \/ payment' = [payment EXCEPT ![p] = "FAILED"]
  BY DEF CreatePayment, ShowQr, CheckoutFails, Pay, AttemptFails, QrExpires,
         RefuseSignature, gatewayVars
<1>6. DOMAIN payment' = Payment
  BY <1>5 DEF Full, RechargeInvariant, RequestsTypeOK
<1>7. \A q \in Payment : payment'[q] = "SUCCESS" => payment[q] = "SUCCESS"
  BY <1>5 DEF Full, RechargeInvariant, RequestsTypeOK
<1>8. \A d \in Client :
        request[d] # NoRequest /\ session'[d].phase \in {"locked", "read"}
          => request[d].step = "credit" /\ session'[d].wallet = Owner[request[d].payment]
  BY <1>1 DEF Full, RechargeInvariant, SessionServesRequest
<1> QED BY <1>1, <1>3, <1>4, <1>6, <1>7, <1>8, <1>9, StillInvariant DEF Full, LedgerInvariant

\* A client without a wallet has an empty session, and may as well give it up.
LEMMA NoWallet ==
  ASSUME LedgerTypeOK, NEW c \in Client, session[c] = NoSession, session' = session
  PROVE  session' = [session EXCEPT ![c] = NoSession]
BY DEF LedgerTypeOK

\* A request begins.
LEMMA BeginsInvariant ==
  ASSUME Full, NEW c \in Client, NEW p \in Payment,
         \/ \E event \in Event : ReceiveWebhook(c, event, p)
         \/ Poll(c, p)
         \/ CancelPayment(c, p)
  PROVE  RechargeInvariant'
<1>1. /\ session[c] = NoSession
      /\ UNCHANGED <<payment, gatewayVars, processed, failures, ledgerVars>>
  BY DEF ReceiveWebhook, Poll, CancelPayment, Begins, Idle
<1>2. PICK r \in Requests :
        /\ request' = [request EXCEPT ![c] = r]
        /\ \/ r.step \in {"fetch", "overwrite", "close"}
           \/ r.step = "received" /\ <<r.event, r.payment>> \in raised /\ r.payment \in Payment
  <2>1. CASE \E event \in Event : ReceiveWebhook(c, event, p)
    <3>1. PICK event \in Event : ReceiveWebhook(c, event, p)
      BY <2>1
    <3> DEFINE r == [step |-> "received", payment |-> p, event |-> event]
    <3>2. r \in Requests
      BY DEF Requests, Step, EventAllows
    <3>3. request' = [request EXCEPT ![c] = r] /\ <<r.event, r.payment>> \in raised
      BY <3>1 DEF ReceiveWebhook, Begins
    <3> QED BY <3>2, <3>3
  <2>2. CASE Poll(c, p)
    <3> DEFINE r == [step |-> "fetch", payment |-> p, event |-> "poll"]
    <3>1. r \in Requests
      BY DEF Requests, Step, EventAllows
    <3>2. request' = [request EXCEPT ![c] = r]
      BY <2>2 DEF Poll, Begins
    <3> QED BY <3>1, <3>2
  <2>3. CASE CancelPayment(c, p)
    <3> DEFINE r(step) == [step |-> step, payment |-> p, event |-> "cancel"]
    <3>1. r("overwrite") \in Requests /\ r("close") \in Requests
      BY DEF Requests, Step, EventAllows
    <3>2. request' = [request EXCEPT ![c] = r("overwrite")]
          \/ request' = [request EXCEPT ![c] = r("close")]
      BY <2>3 DEF CancelPayment, Begins
    <3> QED BY <3>1, <3>2
  <2> QED BY <2>1, <2>2, <2>3
<1>3. session' = [session EXCEPT ![c] = NoSession]
  BY <1>1, NoWallet DEF ledgerVars, Full, LedgerInvariant
<1>4. TowardsCredit(r.step, r.event) => r.payment \in captured
  BY <1>2 DEF Full, RechargeInvariant, OnlyCapturedIsFinalized, TowardsCredit
<1>5. /\ raised' = raised /\ captured' = captured /\ mispaid' = mispaid
      /\ ledger' = ledger /\ payment' = payment
      /\ raised \subseteq Event \X Payment /\ DOMAIN payment = Payment
  BY <1>1 DEF gatewayVars, ledgerVars, Full, RechargeInvariant, RequestsTypeOK
<1> QED BY <1>2, <1>3, <1>4, <1>5, MoveInvariant DEF Full, LedgerInvariant, Settling

\* A step of a request that holds no wallet and goes on to another step.
LEMMA GoesInvariant ==
  ASSUME Full, NEW c \in Client, request[c] # NoRequest, request[c].step # "credit",
         NEW step \in Step, Goes(c, step), EventAllows(step, request[c].event),
         UNCHANGED <<captured, mispaid, ledgerVars>>,
         raised' = raised \/ raised' = raised \cup {<<"closed", request[c].payment>>},
         DOMAIN payment' = Payment,
         \A p \in Payment : payment'[p] = "SUCCESS" => payment[p] = "SUCCESS" \/ Credited(p),
         step = "marked" => ~RowLocked(request[c].payment, c),
         step = "credit" => request[c].step = "marked" /\ ~Credited(request[c].payment),
         TowardsCredit(step, request[c].event) => request[c].payment \in captured,
         step \in Settling => request[c].payment \notin mispaid
  PROVE  RechargeInvariant'
<1>1. PICK r \in Requests :
        /\ request' = [request EXCEPT ![c] = r]
        /\ r.step = step
        /\ r.payment = request[c].payment
        /\ r.event = request[c].event
  BY GoesChanges DEF Full, LedgerInvariant
<1>2. request[c].payment \in Payment /\ session[c] = NoSession
  BY RequestKinds DEF Full, LedgerInvariant
<1>3. session' = [session EXCEPT ![c] = NoSession]
  BY <1>2, NoWallet DEF ledgerVars, Full, LedgerInvariant
<1>4. /\ raised \subseteq raised' /\ raised' \subseteq Event \X Payment
      /\ \A e \in Capture, p \in Payment : <<e, p>> \in raised' => <<e, p>> \in raised
  BY <1>2 DEF Full, RechargeInvariant, RequestsTypeOK, Event, Capture
<1>5. ledger' = ledger /\ captured' = captured /\ mispaid' = mispaid
  BY DEF ledgerVars
<1> QED BY <1>1, <1>3, <1>4, <1>5, MoveInvariant DEF Full, LedgerInvariant

\* The reads of a request, and the statements that close the code or take
\* the row of the payment.
LEMMA ServedInvariant ==
  ASSUME Full, NEW c \in Client,
         ReadStatus(c) \/ FetchCaptured(c) \/ CloseQr(c) \/ Overwrite(c) \/ ReadPayment(c)
         \/ MarkSuccess(c) \/ CheckCredit(c)
  PROVE  RechargeInvariant'
<1>1. request[c].step \in {"received", "fetch", "close", "overwrite", "finalize", "mark", "marked"}
  BY DEF ReadStatus, FetchCaptured, CloseQr, Overwrite, ReadPayment, MarkSuccess, CheckCredit
<1>2. /\ request[c] # NoRequest /\ request[c].step # "credit"
      /\ request[c].payment \in Payment
      /\ request[c].event \in Event \cup {"poll", "cancel"}
      /\ EventAllows(request[c].step, request[c].event)
      /\ session[c] = NoSession
  BY <1>1, RequestKinds DEF Full, LedgerInvariant
<1>3. DOMAIN payment = Payment
  BY DEF Full, RechargeInvariant, RequestsTypeOK
<1>4. /\ TowardsCredit(request[c].step, request[c].event) => request[c].payment \in captured
      /\ request[c].step \in Settling => request[c].payment \notin mispaid
  BY DEF Full, RechargeInvariant, OnlyCapturedIsFinalized
<1>5. CASE ReadStatus(c)
  <2>1. PICK step \in Step : /\ step = WebhookStep(request[c].event, payment[request[c].payment])
                             /\ step \in {"answer", "finalize", "overwrite"}
                             /\ step = "finalize" => request[c].event \in Capture
                             /\ step = "overwrite" => request[c].event \notin Capture
    BY DEF WebhookStep, Step
  <2>2. /\ Goes(c, step) /\ UNCHANGED <<payment, gatewayVars, ledgerVars>>
        /\ request[c].step = "received"
        /\ request[c].event \in Capture => request[c].payment \notin mispaid
    BY <1>5, <2>1 DEF ReadStatus
  <2>3. EventAllows(step, request[c].event)
    BY <1>2, <2>1, <2>2 DEF EventAllows, Event, Capture
  <2> QED BY <1>2, <1>3, <1>4, <2>1, <2>2, <2>3, GoesInvariant
    DEF gatewayVars, TowardsCredit, Settling
<1>6. CASE FetchCaptured(c)
  <2>1. PICK step \in {"finalize", "answer"} :
          Goes(c, step) /\ (step = "finalize" => request[c].payment \in captured \ mispaid)
    BY <1>6 DEF FetchCaptured
  <2>2. step \in Step /\ UNCHANGED <<payment, gatewayVars, ledgerVars>>
    BY <1>6 DEF FetchCaptured, Step
  <2> QED BY <1>2, <1>3, <2>1, <2>2, GoesInvariant
    DEF gatewayVars, TowardsCredit, Settling, EventAllows
<1>7. CASE CloseQr(c)
  <2>1. /\ Goes(c, "overwrite") /\ request[c].step = "close"
        /\ UNCHANGED <<payment, captured, mispaid, ledgerVars>>
        /\ raised' = raised \/ raised' = raised \cup {<<"closed", request[c].payment>>}
    BY <1>7 DEF CloseQr
  <2>2. "overwrite" \in Step
    BY DEF Step
  <2> QED BY <1>2, <1>3, <2>1, <2>2, GoesInvariant
    DEF TowardsCredit, Settling, EventAllows
<1>8. CASE Overwrite(c)
  <2>1. /\ Goes(c, "answer")
        /\ UNCHANGED <<gatewayVars, ledgerVars>>
        /\ payment' = [payment EXCEPT ![request[c].payment] = Outcome(request[c].event)]
        /\ request[c].step = "overwrite"
    BY <1>8 DEF Overwrite
  <2>2. "answer" \in Step
    BY DEF Step
  <2>3. Outcome(request[c].event) # "SUCCESS"
    BY <1>2, <2>1 DEF EventAllows, Outcome
  <2> QED BY <1>2, <1>3, <2>1, <2>2, <2>3, GoesInvariant
    DEF gatewayVars, TowardsCredit, Settling, EventAllows
<1>9. CASE ReadPayment(c)
  <2>1. PICK step \in {"answer", "mark"} : Goes(c, step)
    BY <1>9 DEF ReadPayment
  <2>2. step \in Step /\ UNCHANGED <<payment, gatewayVars, ledgerVars>> /\ request[c].step = "finalize"
    BY <1>9 DEF ReadPayment, Step
  <2> QED BY <1>2, <1>3, <1>4, <2>1, <2>2, GoesInvariant
    DEF gatewayVars, TowardsCredit, Settling, EventAllows
<1>10. CASE MarkSuccess(c)
  <2>1. /\ Goes(c, "marked") /\ ~RowLocked(request[c].payment, c)
        /\ UNCHANGED <<payment, gatewayVars, ledgerVars>> /\ request[c].step = "mark"
    BY <1>10 DEF MarkSuccess
  <2>2. "marked" \in Step
    BY DEF Step
  <2> QED BY <1>2, <1>3, <1>4, <2>1, <2>2, GoesInvariant
    DEF gatewayVars, TowardsCredit, Settling, EventAllows
<1>11. CASE CheckCredit(c)
  <2>1. PICK step \in {"answer", "credit"} :
          /\ Goes(c, step)
          /\ step = "credit" => ~Credited(request[c].payment) /\ payment' = payment
          /\ step = "answer" => /\ Credited(request[c].payment)
                                /\ payment' = [payment EXCEPT ![request[c].payment] = "SUCCESS"]
    BY <1>11 DEF CheckCredit
  <2>2. step \in Step /\ UNCHANGED <<gatewayVars, ledgerVars>> /\ request[c].step = "marked"
    BY <1>11 DEF CheckCredit, Step
  <2>3. \A p \in Payment : payment'[p] = "SUCCESS" => payment[p] = "SUCCESS" \/ Credited(p)
    BY <1>2, <1>3, <2>1
  <2> QED BY <1>2, <1>3, <1>4, <2>1, <2>2, <2>3, GoesInvariant
    DEF gatewayVars, TowardsCredit, Settling, EventAllows
<1> QED BY <1>5, <1>6, <1>7, <1>8, <1>9, <1>10, <1>11

\* A request ends, answered or not.
LEMMA EndsInvariant ==
  ASSUME Full, NEW c \in Client, Answer(c) \/ Fail(c) \/ AmountMismatch(c)
  PROVE  RechargeInvariant'
<1>1. /\ request' = [request EXCEPT ![c] = NoRequest]
      /\ UNCHANGED <<payment, gatewayVars, ledger>>
  BY DEF Answer, Fail, AmountMismatch, Throws, Ends, ledgerVars
<1>2. session' = [session EXCEPT ![c] = NoSession]
  <2>1. CASE Answer(c) \/ AmountMismatch(c)
    <3>1. session[c] = NoSession /\ session' = session
      BY <2>1, RequestKinds DEF Answer, AmountMismatch, ledgerVars, Full, LedgerInvariant, NoRequest
    <3> QED BY <3>1, NoWallet DEF Full, LedgerInvariant
  <2>2. CASE Fail(c)
    BY <2>2 DEF Fail
  <2> QED BY <2>1, <2>2
<1>3. NoRequest \in Requests /\ NoRequest.step = "none"
  BY DEF Requests, NoRequest
<1>4. raised \subseteq Event \X Payment /\ DOMAIN payment = Payment
  BY DEF Full, RechargeInvariant, RequestsTypeOK
<1>5. raised' = raised /\ captured' = captured /\ mispaid' = mispaid
      /\ payment' = payment /\ ledger' = ledger
  BY <1>1 DEF gatewayVars
<1> QED BY <1>1, <1>2, <1>3, <1>4, <1>5, MoveInvariant DEF TowardsCredit, Settling, Full, LedgerInvariant

\* Locking, reading and giving up a wallet, by a recharge or by a spender.
LEMMA HoldingInvariant ==
  ASSUME Full, NEW c \in Client,
         \/ LockForCredit(c)
         \/ Read(c)
         \/ \E w \in Wallet : LockForSpending(c, w)
         \/ SpendingFails(c)
  PROVE  RechargeInvariant'
<1>1. UNCHANGED <<payment, gatewayVars, processed, refused, request, failures, balance, ledger>>
  BY DEF LockForCredit, Read, LockForSpending, SpendingFails, LockWallet, ReadWallet, ReleaseWallet
<1>2. /\ session \in [Client -> Sessions]
      /\ SessionServesRequest
  BY DEF Full, LedgerInvariant, LedgerTypeOK, Sessions, RechargeInvariant
<1>3. ASSUME NEW d \in Client, request[d] # NoRequest, session'[d].phase \in {"locked", "read"}
      PROVE  request[d].step = "credit" /\ session'[d].wallet = Owner[request[d].payment]
  <2>1. CASE d # c
    <3>1. session'[d] = session[d]
      BY <1>2, <2>1 DEF LockForCredit, Read, LockForSpending, SpendingFails, LockWallet, ReadWallet,
                        ReleaseWallet
    <3> QED BY <1>2, <1>3, <3>1 DEF SessionServesRequest
  <2>2. CASE d = c /\ LockForCredit(c)
    BY <1>2, <2>2 DEF LockForCredit, LockWallet
  <2>3. CASE d = c /\ Read(c)
    <3>1. session[c].phase = "locked" /\ session'[c].wallet = session[c].wallet
      BY <1>2, <2>3 DEF Read, ReadWallet
    <3> QED BY <1>2, <1>3, <2>3, <3>1 DEF SessionServesRequest
  <2>4. CASE d = c /\ \E w \in Wallet : LockForSpending(c, w)
    BY <1>3, <2>4 DEF LockForSpending, Idle
  <2>5. CASE d = c /\ SpendingFails(c)
    BY <1>3, <2>5 DEF SpendingFails
  <2> QED BY <2>1, <2>2, <2>3, <2>4, <2>5
<1>4. /\ raised \subseteq Event \X Payment /\ DOMAIN payment = Payment
      /\ \A e \in Capture, p \in Payment : <<e, p>> \in raised => p \in captured
  BY DEF Full, RechargeInvariant, RequestsTypeOK, OnlyCapturedIsFinalized
<1>5. /\ request' = request /\ ledger' = ledger /\ captured' = captured /\ raised' = raised
      /\ mispaid' = mispaid /\ payment' = payment
  BY <1>1 DEF gatewayVars
<1> QED BY <1>3, <1>4, <1>5, StillInvariant DEF Full, LedgerInvariant

\* A debit credits no payment.
LEMMA SpendInvariant ==
  ASSUME Full, NEW c \in Client, NEW amount \in Amount, Spend(c, amount)
  PROVE  RechargeInvariant'
<1>1. /\ request[c] = NoRequest /\ session[c].phase = "read"
      /\ session[c].wallet \in Wallet /\ session[c].seen \in Nat
      /\ Post(c, Spending, session[c].seen - amount)
      /\ session[c].seen - amount \in Nat
      /\ Spending \in Reference
      /\ UNCHANGED <<payment, gatewayVars, processed, refused, request, failures>>
  <2>1. session[c].phase = "read" /\ session[c].seen >= amount
    BY DEF Spend, DebitWallet
  <2>2. session[c].seen \in Nat /\ session[c].wallet \in Wallet
    BY <2>1, SessionKinds DEF Full, LedgerInvariant
  <2>3. amount \in Nat
    BY AmountsArePositive
  <2>4. session[c].seen - amount \in Nat
    BY <2>1, <2>2, <2>3
  <2> QED BY <2>1, <2>2, <2>4, RechargeConstants DEF Spend, DebitWallet
<1>2. \A p \in Payment : Spending # p
  BY RechargeConstants
<1>3. /\ \A p \in Payment : Credited(p)' <=> Credited(p)
      /\ CreditedOnce => CreditedOnce'
  BY <1>1, <1>2, PostCredits DEF Full, LedgerInvariant
<1>4. /\ session' = [session EXCEPT ![c] = NoSession]
      /\ session \in [Client -> Sessions]
  BY <1>1 DEF Post, Full, LedgerInvariant, LedgerTypeOK, Sessions
<1>5. /\ request' = request /\ captured' = captured /\ raised' = raised /\ payment' = payment
      /\ mispaid' = mispaid
  BY <1>1 DEF gatewayVars
<1>6. RequestsTypeOK' /\ RowOwnedOnce' /\ OnlyCapturedIsFinalized'
  BY <1>5 DEF Full, RechargeInvariant, RequestsTypeOK, RowOwnedOnce, OnlyCapturedIsFinalized
<1>7. CreditIsFirst'
  <2>1. \A d \in Client : request[d].step = "credit" => request[d].payment \in Payment
    BY RequestKinds DEF Full, LedgerInvariant, NoRequest
  <2> QED BY <1>3, <1>5, <2>1 DEF Full, RechargeInvariant, CreditIsFirst
<1>8. SessionServesRequest'
  BY <1>1, <1>4, <1>5 DEF Full, RechargeInvariant, SessionServesRequest
<1>9. CreditedMeansCaptured'
  BY <1>3, <1>5 DEF Full, RechargeInvariant, CreditedMeansCaptured
<1> QED BY <1>3, <1>6, <1>7, <1>8, <1>9 DEF Full, RechargeInvariant

\* A credit is the first one of its payment, and the others who are about to
\* credit have other payments.
LEMMA CreditInvariant ==
  ASSUME Full, NEW c \in Client, CommitCredit(c)
  PROVE  RechargeInvariant'
<1>1. PICK p \in Payment :
        /\ p = request[c].payment
        /\ request[c] # NoRequest
        /\ EventAllows("answer", request[c].event)
  BY RequestKinds DEF CommitCredit, Full, LedgerInvariant, NoRequest, EventAllows
<1>2. request[c].step = "credit" /\ session[c].phase = "read"
  BY DEF CommitCredit, CreditWallet
<1>3. /\ session[c].seen \in Nat /\ session[c].wallet = Owner[p]
      /\ ~Credited(p) /\ p \in captured \ mispaid
  BY <1>1, <1>2, SessionKinds
  DEF Full, LedgerInvariant, RechargeInvariant, SessionServesRequest, CreditIsFirst,
      OnlyCapturedIsFinalized, TowardsCredit, Settling
<1>4. /\ Post(c, p, session[c].seen + Value[p])
      /\ session[c].seen + Value[p] \in Nat
      /\ p \in Reference
  <2>1. Value[p] \in Nat
    BY RechargeConstants, AmountsArePositive
  <2>2. session[c].seen + Value[p] \in Nat
    BY <1>3, <2>1
  <2> QED BY <1>1, <2>2, RechargeConstants DEF CommitCredit, CreditWallet
<1>5. /\ \A q \in Payment : Credited(q)' <=> Credited(q) \/ q = p
      /\ CreditedOnce'
  BY <1>2, <1>3, <1>4, PostCredits DEF Full, LedgerInvariant, RechargeInvariant
<1>6. PICK r \in Requests :
        /\ request' = [request EXCEPT ![c] = r]
        /\ r.step = "answer"
  <2>1. Goes(c, "answer") /\ "answer" \in Step
    BY DEF CommitCredit, Step
  <2> QED BY <1>1, <2>1, GoesChanges DEF Full, LedgerInvariant
<1>7. /\ request \in [Client -> Requests]
      /\ request'[c] = r
      /\ \A d \in Client : d # c => request'[d] = request[d]
  BY <1>6 DEF Full, RechargeInvariant, RequestsTypeOK
<1>8. /\ payment' = [payment EXCEPT ![p] = "SUCCESS"] /\ DOMAIN payment = Payment
      /\ raised' = raised /\ captured' = captured /\ mispaid' = mispaid
  BY <1>1 DEF CommitCredit, gatewayVars, Full, RechargeInvariant, RequestsTypeOK
<1>9. /\ session'[c] = NoSession
      /\ \A d \in Client : d # c => session'[d] = session[d]
  BY <1>4 DEF Post, Full, LedgerInvariant, LedgerTypeOK
<1>10. RequestsTypeOK'
  BY <1>6, <1>7, <1>8 DEF Full, RechargeInvariant, RequestsTypeOK
<1>11. RowOwnedOnce'
  BY <1>6, <1>7 DEF Full, RechargeInvariant, RowOwnedOnce
<1>12. CreditIsFirst'
  <2> SUFFICES ASSUME NEW d \in Client, request'[d].step = "credit"
               PROVE  ~Credited(request[d].payment)'
    BY DEF CreditIsFirst
  <2>1. d # c /\ request'[d] = request[d] /\ request[d].step = "credit"
    BY <1>6, <1>7
  <2>2. request[d].payment \in Payment
    BY <2>1, RequestKinds DEF Full, LedgerInvariant, NoRequest
  <2>3. request[d].payment # p
    BY <1>1, <1>2, <2>1 DEF Full, RechargeInvariant, RowOwnedOnce
  <2>4. PICK q \in Payment : q = request'[d].payment /\ q # p /\ ~Credited(q)
    BY <2>1, <2>2, <2>3 DEF Full, RechargeInvariant, CreditIsFirst
  <2> QED BY <1>5, <2>4 DEF Credited
<1>13. SessionServesRequest'
  BY <1>7, <1>9 DEF Full, RechargeInvariant, SessionServesRequest, NoSession
<1>14. OnlyCapturedIsFinalized'
  BY <1>6, <1>7, <1>8
  DEF Full, RechargeInvariant, OnlyCapturedIsFinalized, TowardsCredit, Settling
<1>15. CreditedMeansCaptured'
  BY <1>3, <1>5, <1>8 DEF Full, RechargeInvariant, CreditedMeansCaptured
<1> QED BY <1>5, <1>10, <1>11, <1>12, <1>13, <1>14, <1>15 DEF RechargeInvariant

(***************************************************************************)
(* Every step of a recharge is a step of the ledger, or none for it.       *)
(***************************************************************************)
LEMMA LedgerStep ==
  ASSUME Full, [RechargeNext]_rechargeVars
  PROVE  [LedgerNext]_ledgerVars
<1>1. CASE UNCHANGED ledgerVars
  BY <1>1
<1>2. ASSUME NEW c \in Client, LockForCredit(c) PROVE LedgerNext
  <2>1. request[c] # NoRequest
    BY <1>2, RequestKinds DEF LockForCredit, Full, LedgerInvariant
  <2>2. Owner[request[c].payment] \in Wallet
    BY <2>1, RequestKinds, RechargeConstants DEF Full, LedgerInvariant
  <2> QED BY <1>2, <2>2 DEF LockForCredit, LedgerNext
<1>3. ASSUME NEW c \in Client, Read(c) PROVE LedgerNext
  BY <1>3 DEF Read, LedgerNext
<1>4. ASSUME NEW c \in Client, CommitCredit(c) PROVE LedgerNext
  <2>1. request[c] # NoRequest
    BY <1>4, RequestKinds DEF CommitCredit, Full, LedgerInvariant
  <2>2. request[c].payment \in Reference /\ Value[request[c].payment] \in Amount
    BY <2>1, RequestKinds, RechargeConstants DEF Full, LedgerInvariant
  <2> QED BY <1>4, <2>2 DEF CommitCredit, LedgerNext
<1>5. ASSUME NEW c \in Client, Fail(c) PROVE LedgerNext \/ UNCHANGED ledgerVars
  <2>1. CASE session[c] = NoSession
    <3>1. session' = session
      BY <1>5, <2>1 DEF Fail, Full, LedgerInvariant, LedgerTypeOK
    <3> QED BY <1>5, <3>1 DEF Fail, ledgerVars
  <2>2. CASE session[c] # NoSession
    BY <1>5, <2>2 DEF Fail, ReleaseWallet, LedgerNext
  <2> QED BY <2>1, <2>2
<1>6. ASSUME NEW c \in Client, NEW w \in Wallet, LockForSpending(c, w) PROVE LedgerNext
  BY <1>6 DEF LockForSpending, LedgerNext
<1>7. ASSUME NEW c \in Client, NEW amount \in Amount, Spend(c, amount) PROVE LedgerNext
  BY <1>7, RechargeConstants DEF Spend, LedgerNext
<1>8. ASSUME NEW c \in Client, SpendingFails(c) PROVE LedgerNext
  BY <1>8 DEF SpendingFails, LedgerNext
<1>9. ASSUME NEW c \in Client,
             ReadStatus(c) \/ FetchCaptured(c) \/ CloseQr(c) \/ Overwrite(c) \/ ReadPayment(c)
             \/ MarkSuccess(c) \/ CheckCredit(c) \/ Answer(c) \/ AmountMismatch(c)
      PROVE  UNCHANGED ledgerVars
  BY <1>9 DEF ReadStatus, FetchCaptured, CloseQr, Overwrite, ReadPayment, MarkSuccess, CheckCredit,
              Answer, AmountMismatch
<1>10. ASSUME NEW c \in Client, Serve(c) PROVE LedgerNext \/ UNCHANGED ledgerVars
  BY <1>2, <1>3, <1>4, <1>7, <1>8, <1>9, <1>10 DEF Serve
<1>11. ASSUME NEW p \in Payment,
              CreatePayment(p) \/ ShowQr(p) \/ CheckoutFails(p) \/ Pay(p) \/ AttemptFails(p)
              \/ QrExpires(p) \/ (\E event \in Capture : RefuseSignature(event, p))
       PROVE  UNCHANGED ledgerVars
  BY <1>11 DEF CreatePayment, ShowQr, CheckoutFails, Pay, AttemptFails, QrExpires,
         RefuseSignature, gatewayVars
<1>12. ASSUME NEW c \in Client, NEW p \in Payment,
              (\E event \in Event : ReceiveWebhook(c, event, p)) \/ Poll(c, p) \/ CancelPayment(c, p)
       PROVE  UNCHANGED ledgerVars
  BY <1>12 DEF ReceiveWebhook, Poll, CancelPayment, Begins
<1>13. CASE RechargeNext
  BY <1>5, <1>6, <1>10, <1>11, <1>12, <1>13 DEF RechargeNext
<1>14. CASE UNCHANGED rechargeVars
  BY <1>14 DEF rechargeVars
<1> QED BY <1>13, <1>14

\* Empty wallets, no payments, no requests.
LEMMA RechargeInitInvariant == RechargeInit => Full
<1> SUFFICES ASSUME RechargeInit PROVE Full
  OBVIOUS
<1>1. LedgerInvariant
  BY LedgerInitInvariant DEF RechargeInit
<1>2. /\ request = [c \in Client |-> NoRequest]
      /\ session = [c \in Client |-> NoSession]
      /\ ledger = [w \in Wallet |-> <<>>]
      /\ payment = [p \in Payment |-> "NONE"]
      /\ raised = {} /\ captured = {} /\ qr = [p \in Payment |-> "none"]
  BY DEF RechargeInit, LedgerInit
<1>3. \A c \in Client : request[c].step = "none"
  BY <1>2 DEF NoRequest
<1>4. \A p \in Payment : Len(ledger[Owner[p]]) = 0
  <2>1. \A p \in Payment : ledger[Owner[p]] = <<>>
    BY <1>2, RechargeConstants
  <2> QED BY <2>1
<1>5. RequestsTypeOK
  BY <1>2 DEF RequestsTypeOK, Requests
<1>6. RowOwnedOnce /\ CreditIsFirst /\ SessionServesRequest /\ OnlyCapturedIsFinalized
  BY <1>2, <1>3 DEF RowOwnedOnce, CreditIsFirst, SessionServesRequest, OnlyCapturedIsFinalized,
                    TowardsCredit, Settling, NoSession
<1>7. \A p \in Payment : 1..Len(ledger[Owner[p]]) = {}
  BY <1>4
<1>8. CreditedOnce /\ CreditedMeansCaptured
  BY <1>2, <1>7 DEF CreditedOnce, CreditedMeansCaptured, Credited
<1>9. CapturedIsClosed
  BY <1>2 DEF CapturedIsClosed
<1> QED BY <1>1, <1>5, <1>6, <1>8, <1>9 DEF Full, RechargeInvariant

\* Once captured, a payment keeps its code closed: only a code that was asked
\* for opens, and only a new payment asks for one.
LEMMA ClosedStays ==
  ASSUME Full, [RechargeNext]_rechargeVars
  PROVE  CapturedIsClosed'
<1> USE DEF CapturedIsClosed
<1>1. DOMAIN payment = Payment /\ CapturedIsClosed
  BY DEF Full, RechargeInvariant, RequestsTypeOK
<1>2. ASSUME NEW p \in Payment,
             CreatePayment(p) \/ ShowQr(p) \/ CheckoutFails(p) \/ Pay(p) \/ AttemptFails(p)
             \/ QrExpires(p) \/ (\E event \in Capture : RefuseSignature(event, p))
      PROVE  CapturedIsClosed'
  <2>1. CASE CreatePayment(p)
    BY <1>1, <2>1 DEF CreatePayment
  <2>2. CASE ShowQr(p)
    BY <1>1, <2>2 DEF ShowQr
  <2>3. CASE CheckoutFails(p)
    BY <1>1, <2>3 DEF CheckoutFails
  <2>4. CASE Pay(p)
    BY <1>1, <2>4 DEF Pay
  <2>5. CASE AttemptFails(p)
    BY <1>1, <2>5 DEF AttemptFails
  <2>6. CASE QrExpires(p)
    BY <1>1, <2>6 DEF QrExpires
  <2>7. ASSUME NEW event \in Capture, RefuseSignature(event, p) PROVE CapturedIsClosed'
    BY <1>1, <2>7 DEF RefuseSignature, gatewayVars
  <2> QED BY <1>2, <2>1, <2>2, <2>3, <2>4, <2>5, <2>6, <2>7
<1>3. ASSUME NEW c \in Client, NEW p \in Payment,
             (\E event \in Event : ReceiveWebhook(c, event, p)) \/ Poll(c, p) \/ CancelPayment(c, p)
      PROVE  CapturedIsClosed'
  BY <1>1, <1>3 DEF ReceiveWebhook, Poll, CancelPayment, Begins, gatewayVars
<1>4. ASSUME NEW c \in Client, CloseQr(c) PROVE CapturedIsClosed'
  BY <1>1, <1>4 DEF CloseQr
<1>5. ASSUME NEW c \in Client, Overwrite(c) PROVE CapturedIsClosed'
  <2>1. EventAllows("overwrite", request[c].event)
    BY <1>5, RequestKinds DEF Overwrite, Full, LedgerInvariant
  <2>2. Outcome(request[c].event) # "NONE"
    BY <2>1 DEF EventAllows, Outcome
  <2> QED BY <1>1, <1>5, <2>2 DEF Overwrite, gatewayVars
<1>6. ASSUME NEW c \in Client, CheckCredit(c) \/ CommitCredit(c) PROVE CapturedIsClosed'
  BY <1>1, <1>6 DEF CheckCredit, CommitCredit, gatewayVars
<1>7. ASSUME NEW c \in Client,
             AmountMismatch(c) \/ ReadStatus(c) \/ FetchCaptured(c) \/ ReadPayment(c)
             \/ MarkSuccess(c) \/ LockForCredit(c) \/ Read(c) \/ Answer(c) \/ Fail(c)
             \/ SpendingFails(c) \/ (\E amount \in Amount : Spend(c, amount))
             \/ (\E w \in Wallet : LockForSpending(c, w))
      PROVE  CapturedIsClosed'
  BY <1>1, <1>7 DEF AmountMismatch, ReadStatus, FetchCaptured, ReadPayment, MarkSuccess,
                    LockForCredit, Read, Answer, Fail, SpendingFails, Spend, LockForSpending,
                    gatewayVars
<1>8. CASE UNCHANGED rechargeVars
  BY <1>1, <1>8 DEF rechargeVars, gatewayVars
<1> QED BY <1>2, <1>3, <1>4, <1>5, <1>6, <1>7, <1>8 DEF RechargeNext, Serve

\* One step per action.
LEMMA RechargeNextInvariant == Full /\ [RechargeNext]_rechargeVars => Full'
<1> SUFFICES ASSUME Full, [RechargeNext]_rechargeVars PROVE Full'
  OBVIOUS
<1>1. LedgerInvariant'
  BY LedgerStep, LedgerNextInvariant DEF Full
<1>2. ASSUME NEW c \in Client, Serve(c) PROVE RechargeInvariant'
  <2>1. CASE ReadStatus(c) \/ FetchCaptured(c) \/ CloseQr(c) \/ Overwrite(c) \/ ReadPayment(c)
             \/ MarkSuccess(c) \/ CheckCredit(c)
    BY <2>1, ServedInvariant
  <2>2. CASE LockForCredit(c) \/ Read(c) \/ SpendingFails(c)
    BY <2>2, HoldingInvariant
  <2>3. CASE CommitCredit(c)
    BY <2>3, CreditInvariant
  <2>4. CASE Answer(c) \/ AmountMismatch(c)
    BY <2>4, EndsInvariant
  <2>5. CASE \E amount \in Amount : Spend(c, amount)
    BY <2>5, SpendInvariant
  <2> QED BY <1>2, <2>1, <2>2, <2>3, <2>4, <2>5 DEF Serve
<1>3. ASSUME NEW c \in Client, Fail(c) PROVE RechargeInvariant'
  BY <1>3, EndsInvariant
<1>4. ASSUME NEW c \in Client, NEW w \in Wallet, LockForSpending(c, w) PROVE RechargeInvariant'
  BY <1>4, HoldingInvariant
<1>5. ASSUME NEW p \in Payment,
             CreatePayment(p) \/ ShowQr(p) \/ CheckoutFails(p) \/ Pay(p) \/ AttemptFails(p)
             \/ QrExpires(p) \/ (\E event \in Capture : RefuseSignature(event, p))
      PROVE  RechargeInvariant'
  BY <1>5, GatewayInvariant
<1>6. ASSUME NEW c \in Client, NEW p \in Payment,
             (\E event \in Event : ReceiveWebhook(c, event, p)) \/ Poll(c, p) \/ CancelPayment(c, p)
      PROVE  RechargeInvariant'
  BY <1>6, BeginsInvariant
<1>7. ASSUME RechargeNext PROVE RechargeInvariant'
  BY <1>2, <1>3, <1>4, <1>5, <1>6, <1>7 DEF RechargeNext
<1>8. ASSUME UNCHANGED rechargeVars PROVE RechargeInvariant'
  <2>1. /\ request' = request /\ ledger' = ledger /\ captured' = captured /\ raised' = raised
        /\ payment' = payment /\ session' = session /\ mispaid' = mispaid
    BY <1>8 DEF rechargeVars, gatewayVars, ledgerVars
  <2>2. /\ raised \subseteq Event \X Payment /\ DOMAIN payment = Payment
        /\ SessionServesRequest
        /\ \A e \in Capture, p \in Payment : <<e, p>> \in raised => p \in captured
    BY DEF Full, RechargeInvariant, RequestsTypeOK, OnlyCapturedIsFinalized
  <2> QED BY <2>1, <2>2, StillInvariant DEF Full, LedgerInvariant, SessionServesRequest
<1>9. CapturedIsClosed'
  BY ClosedStays
<1> QED BY <1>1, <1>7, <1>8, <1>9 DEF Full

\* Statuses, codes and events keep to what the code and the gateway write.
LEMMA RechargeTypeStep ==
  Full /\ RechargeTypeOK /\ [RechargeNext]_rechargeVars => RechargeTypeOK'
<1> SUFFICES ASSUME Full, RechargeTypeOK, [RechargeNext]_rechargeVars PROVE RechargeTypeOK'
  OBVIOUS
<1> USE DEF RechargeTypeOK
<1>1. ASSUME NEW p \in Payment,
             CreatePayment(p) \/ ShowQr(p) \/ CheckoutFails(p) \/ Pay(p) \/ AttemptFails(p)
             \/ QrExpires(p) \/ (\E event \in Capture : RefuseSignature(event, p))
      PROVE  RechargeTypeOK'
  <2>1. CASE CreatePayment(p) \/ ShowQr(p) \/ CheckoutFails(p)
    BY <2>1 DEF CreatePayment, ShowQr, CheckoutFails
  <2>2. CASE Pay(p)
    BY <2>2 DEF Pay, Event
  <2>3. CASE AttemptFails(p) \/ QrExpires(p)
    BY <2>3 DEF AttemptFails, QrExpires, Event
  <2>4. CASE \E event \in Capture : RefuseSignature(event, p)
    BY <2>4 DEF RefuseSignature, gatewayVars
  <2> QED BY <1>1, <2>1, <2>2, <2>3, <2>4
<1>2. ASSUME NEW c \in Client, NEW p \in Payment,
             (\E event \in Event : ReceiveWebhook(c, event, p)) \/ Poll(c, p) \/ CancelPayment(c, p)
      PROVE  RechargeTypeOK'
  BY <1>2 DEF ReceiveWebhook, Poll, CancelPayment, Begins, gatewayVars
<1>3. ASSUME NEW c \in Client, CloseQr(c) PROVE RechargeTypeOK'
  <2>1. request[c].payment \in Payment
    BY <1>3, RequestKinds DEF CloseQr, Full, LedgerInvariant
  <2> QED BY <1>3, <2>1 DEF CloseQr, Event
<1>4. ASSUME NEW c \in Client, Overwrite(c) PROVE RechargeTypeOK'
  <2>1. EventAllows("overwrite", request[c].event)
    BY <1>4, RequestKinds DEF Overwrite, Full, LedgerInvariant
  <2>2. Outcome(request[c].event) \in {"EXPIRED", "FAILED", "CANCELLED"}
    BY <2>1 DEF EventAllows, Outcome
  <2> QED BY <1>4, <2>2 DEF Overwrite, gatewayVars
<1>5. ASSUME NEW c \in Client, CheckCredit(c) \/ CommitCredit(c) PROVE RechargeTypeOK'
  BY <1>5 DEF CheckCredit, CommitCredit, gatewayVars
<1>6. ASSUME NEW c \in Client, Answer(c) \/ AmountMismatch(c) PROVE RechargeTypeOK'
  BY <1>6 DEF Answer, AmountMismatch, Throws, gatewayVars
<1>7. ASSUME NEW c \in Client, Fail(c) PROVE RechargeTypeOK'
  <2>1. failures + 1 \in 0..MaxFailures
    BY <1>7, RechargeConstants DEF Fail
  <2> QED BY <1>7, <2>1 DEF Fail, Throws, gatewayVars
<1>8. ASSUME NEW c \in Client,
             ReadStatus(c) \/ FetchCaptured(c) \/ ReadPayment(c) \/ MarkSuccess(c)
             \/ LockForCredit(c) \/ Read(c) \/ SpendingFails(c)
             \/ (\E amount \in Amount : Spend(c, amount))
             \/ (\E w \in Wallet : LockForSpending(c, w))
      PROVE  RechargeTypeOK'
  BY <1>8 DEF ReadStatus, FetchCaptured, ReadPayment, MarkSuccess, LockForCredit, Read,
              SpendingFails, Spend, LockForSpending, gatewayVars
<1>9. CASE UNCHANGED rechargeVars
  BY <1>9 DEF rechargeVars, gatewayVars
<1> QED BY <1>1, <1>2, <1>3, <1>4, <1>5, <1>6, <1>7, <1>8, <1>9 DEF RechargeNext, Serve

(***************************************************************************)
(* The theorems.                                                           *)
(***************************************************************************)

\* The inductive invariant holds in every reachable state.
THEOREM RechargeInvariantHolds == RechargeSpec => []Full
BY RechargeInitInvariant, RechargeNextInvariant, PTL DEF RechargeSpec

\* Every movement of a wallet is a call of the wallet ledger.
LEMMA RechargeKeepsLedger == RechargeSpec => LedgerSpec
<1>1. RechargeInit => LedgerInit
  BY DEF RechargeInit
<1> QED BY <1>1, LedgerStep, RechargeInvariantHolds, PTL DEF RechargeSpec, LedgerSpec

\* No payment is credited twice, however its webhooks are repeated and
\* reordered, whatever overwrites its status, and wherever a handler fails.
THEOREM PaymentsCreditedOnce == RechargeSpec => []CreditedOnce
<1>1. Full => CreditedOnce
  BY DEF Full, RechargeInvariant
<1> QED BY <1>1, RechargeInvariantHolds, PTL

\* A wallet is credited only with captured money of the payment's amount, and
\* SUCCESS means credited.
THEOREM CreditsAreCaptured == RechargeSpec => []CreditedMeansCaptured
<1>1. Full => CreditedMeansCaptured
  BY DEF Full, RechargeInvariant
<1> QED BY <1>1, RechargeInvariantHolds, PTL

\* No balance is negative and no movement is lost, with recharges running.
THEOREM RechargesKeepAccounts == RechargeSpec => []LedgerAccountsForBalance
BY RechargeKeepsLedger, LedgerAccounts, PTL

\* Statuses keep to those the code writes, answered events to those raised.
THEOREM RechargeTypeCorrect == RechargeSpec => []RechargeTypeOK
<1>1. RechargeInit => RechargeTypeOK
  BY RechargeConstants DEF RechargeInit, RechargeTypeOK
<1> QED BY <1>1, RechargeTypeStep, RechargeInvariantHolds, PTL DEF RechargeSpec
=============================================================================
