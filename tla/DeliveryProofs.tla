--------------------------- MODULE DeliveryProofs ---------------------------
(***************************************************************************)
(* For any number of agents and handlers: attempts are numbered without a  *)
(* gap, and nothing is called delivered without a recorded handover.       *)
(***************************************************************************)
EXTENDS Delivery, TLAPS

Recorded == \E i \in DOMAIN attempts : attempts[i].outcome = "DELIVERED"

\* A number that a handler computed is taken by now or the next one; an
\* outcome that a handler has yet to push was recorded.
CallsInv ==
  \A c \in Client :
    /\ call[c].step = "checked" => call[c].number \in 1..(attemptCount + 1)
    /\ call[c].step = "push" /\ call[c].saw = "DELIVERED" => Recorded

DeliveryInv == DeliveryTypeOK /\ AttemptsNumbered /\ DeliveredIsRecorded /\ CallsInv

\* What a handler carries, by the step it is at.
LEMMA Carried ==
  ASSUME DeliveryTypeOK, NEW c \in Client
  PROVE  /\ call[c].step \in {"loaded", "checked"} =>
              call[c].op \in DOMAIN Target /\ call[c].agent \in Agent \cup {Nobody}
         /\ call[c].step = "push" => call[c].saw \in DOMAIN OrderStatusByAssignment
<1>1. call[c] \in Step
  BY DEF DeliveryTypeOK
<1> QED BY <1>1 DEF Step, Idle

LEMMA Tables ==
  /\ DOMAIN Target = PortalOp \cup {"assign", "unassign", "cancel"}
  /\ \A op \in DOMAIN Target : Target[op] \in AssignmentStatus
  /\ \A op \in DOMAIN Target : Target[op] = "UNASSIGNED" <=> op \in {"release", "unassign"}
  /\ \A op \in DOMAIN Target : Target[op] = "DELIVERED" <=> op = "deliver"
  /\ \A s \in DOMAIN OrderStatusByAssignment :
       /\ OrderStatusByAssignment[s] \in {"IN_TRANSIT", "DELIVERED", "FAILED", "CANCELLED"}
       /\ OrderStatusByAssignment[s] = "DELIVERED" <=> s = "DELIVERED"
BY DEF Target, PortalOp, AssignmentStatus, Closed, OrderStatusByAssignment

\* A step of a handler that leaves the attempts and the orders alone.
LEMMA StepKeeps ==
  ASSUME DeliveryInv, NEW c \in Client, NEW k \in Step, Goes(c, k),
         UNCHANGED <<attempts, attemptCount, orders>>,
         status' \in AssignmentStatus \cup {"NONE"}, holder' \in Agent \cup {Nobody},
         status' \in {"NONE", "UNASSIGNED"} => holder' = Nobody,
         status' = "DELIVERED" => status = "DELIVERED",
         k.step = "checked" => k.number = attemptCount + 1,
         k.step = "push" /\ k.saw = "DELIVERED" => status = "DELIVERED"
  PROVE  DeliveryInv'
<1>1. \A d \in Client : call'[d] = IF d = c THEN k ELSE call[d]
  BY DEF DeliveryInv, DeliveryTypeOK, Goes
<1>2. DeliveryTypeOK'
  BY DEF DeliveryInv, DeliveryTypeOK, Goes, orders
<1>3. AttemptsNumbered' /\ (Recorded <=> Recorded')
  BY DEF DeliveryInv, AttemptsNumbered, Recorded
<1>4. DeliveredIsRecorded'
  BY <1>3 DEF DeliveryInv, DeliveredIsRecorded, Recorded, orders
<1>5. status = "DELIVERED" => Recorded
  BY DEF DeliveryInv, DeliveredIsRecorded, Recorded
<1>6. attemptCount \in Nat /\ attemptCount' = attemptCount
  BY DEF DeliveryInv, DeliveryTypeOK
<1>7. CallsInv'
  BY <1>1, <1>3, <1>5, <1>6 DEF DeliveryInv, CallsInv
<1> QED BY <1>2, <1>3, <1>4, <1>7 DEF DeliveryInv

\* A new attempt takes the next number.
LEMMA RecordAttemptKeeps ==
  ASSUME DeliveryInv, NEW c \in Client, RecordAttempt(c)
  PROVE  DeliveryInv'
<1> DEFINE k == call[c]
           row == [number |-> k.number, outcome |-> Target[k.op]]
           Row == [number : Nat \ {0}, outcome : {"DELIVERED", "FAILED"}]
<1>1. /\ k.step = "checked" /\ k.op \in {"deliver", "fail"} /\ NumberFree(k.number)
      /\ attempts' = Append(attempts, row) /\ attemptCount' = k.number
      /\ status' = Target[k.op] /\ call' = [call EXCEPT ![c] = [step |-> "sync"]]
      /\ UNCHANGED <<holder, orders>>
  BY DEF RecordAttempt, Goes
<1>2. DeliveryTypeOK /\ attempts \in Seq(Row) /\ attemptCount = Len(attempts)
      /\ \A i \in DOMAIN attempts : attempts[i].number = i
  BY DEF DeliveryInv, DeliveryTypeOK, AttemptsNumbered
<1>3. k.number \in 1..(Len(attempts) + 1)
  BY <1>1, <1>2 DEF DeliveryInv, CallsInv
<1>4. DOMAIN attempts = 1..Len(attempts) /\ Len(attempts) \in Nat
  BY <1>2
<1>5. k.number = Len(attempts) + 1
  <2>1. \A i \in 1..Len(attempts) : i # k.number
    BY <1>1, <1>2, <1>4 DEF NumberFree
  <2> HIDE DEF k
  <2> QED BY <2>1, <1>3, <1>4
<1>6. row \in Row /\ status' \in AssignmentStatus /\ status' \notin {"NONE", "UNASSIGNED"}
      /\ (status' = "DELIVERED" => row.outcome = "DELIVERED")
  <2>1. Target[k.op] \in {"DELIVERED", "FAILED"}
    BY <1>1 DEF Target
  <2>2. k.number \in Nat \ {0}
    BY <1>4, <1>5
  <2> QED BY <1>1, <2>1, <2>2 DEF AssignmentStatus, Closed
<1>7. /\ attempts' \in Seq(Row) /\ Len(attempts') = Len(attempts) + 1
      /\ DOMAIN attempts' = 1..(Len(attempts) + 1)
      /\ \A i \in 1..Len(attempts) : attempts'[i] = attempts[i]
      /\ attempts'[Len(attempts) + 1] = row
  BY <1>1, <1>2, <1>4, <1>6
<1>8. AttemptsNumbered'
  BY <1>1, <1>2, <1>4, <1>5, <1>7 DEF AttemptsNumbered
<1>9. [step |-> "sync"] \in Step
  BY DEF Step
<1>10. DeliveryTypeOK'
  BY <1>1, <1>2, <1>4, <1>5, <1>6, <1>7, <1>9 DEF DeliveryTypeOK, orders
<1>11. Recorded => Recorded'
  BY <1>4, <1>7 DEF Recorded
<1>12. status' = "DELIVERED" => Recorded'
  BY <1>4, <1>6, <1>7 DEF Recorded
<1>13. DeliveredIsRecorded'
  BY <1>1, <1>11, <1>12 DEF DeliveryInv, DeliveredIsRecorded, Recorded, orders
<1>14. \A d \in Client : call'[d] = IF d = c THEN [step |-> "sync"] ELSE call[d]
  BY <1>1, <1>2 DEF DeliveryTypeOK
<1>15. CallsInv'
  <2> SUFFICES ASSUME NEW d \in Client
               PROVE  /\ call'[d].step = "checked" => call'[d].number \in 1..(attemptCount' + 1)
                      /\ call'[d].step = "push" /\ call'[d].saw = "DELIVERED" => Recorded'
    BY DEF CallsInv
  <2>1. CASE d = c
    BY <2>1, <1>14
  <2>2. CASE d # c
    <3>1. call'[d] = call[d]
      BY <2>2, <1>14
    <3>2. call[d].step = "checked" => call[d].number \in 1..(Len(attempts) + 1)
      BY <1>2 DEF DeliveryInv, CallsInv
    <3>3. attemptCount' = Len(attempts) + 1
      BY <1>1, <1>5
    <3> QED BY <3>1, <3>2, <3>3, <1>4, <1>11 DEF DeliveryInv, CallsInv
  <2> QED BY <2>1, <2>2
<1> QED BY <1>8, <1>10, <1>13, <1>15 DEF DeliveryInv

LEMMA InitKeeps == DeliveryInit => DeliveryInv
<1> SUFFICES ASSUME DeliveryInit PROVE DeliveryInv
  OBVIOUS
<1>1. attempts \in Seq([number : Nat \ {0}, outcome : {"DELIVERED", "FAILED"}])
      /\ DOMAIN attempts = {} /\ Len(attempts) = 0
  BY DEF DeliveryInit
<1>2. call \in [Client -> Step]
  BY DEF DeliveryInit, Step
<1>3. DeliveryTypeOK
  BY <1>1, <1>2 DEF DeliveryInit, DeliveryTypeOK
<1>4. AttemptsNumbered /\ DeliveredIsRecorded
  BY <1>1 DEF DeliveryInit, AttemptsNumbered, DeliveredIsRecorded
<1>5. CallsInv
  BY DEF DeliveryInit, CallsInv, Idle
<1> QED BY <1>3, <1>4, <1>5 DEF DeliveryInv

\* The start of a handler, and its failure.
LEMMA StartKeeps ==
  ASSUME DeliveryInv, NEW c \in Client,
         \/ RouteUnroutedBatch(c) \/ Cancel(c) \/ Reroute(c) \/ Fail(c)
         \/ \E a \in Agent, op \in PortalOp : LoadForAction(c, a, op)
         \/ \E a \in Agent \cup {Nobody} : AssignTo(c, a)
  PROVE  DeliveryInv'
<1>1. ASSUME NEW k \in Step, Goes(c, k), UNCHANGED <<consignment, orders>>,
             k.step \notin {"checked", "push"}
      PROVE  DeliveryInv'
  BY <1>1, StepKeeps DEF DeliveryInv, DeliveryTypeOK, consignment
<1>2. CASE RouteUnroutedBatch(c)
  <2>1. [step |-> "route"] \in Step
    BY DEF Step
  <2> QED BY <1>1, <1>2, <2>1 DEF RouteUnroutedBatch, Begins
<1>3. CASE Cancel(c)
  <2>1. [step |-> "loaded", op |-> "cancel", agent |-> Nobody] \in Step
    BY Tables DEF Step
  <2> QED BY <1>1, <1>3, <2>1 DEF Cancel, Begins
<1>4. CASE Reroute(c)
  <2>1. [step |-> "reroute"] \in Step
    BY DEF Step
  <2> QED BY <1>1, <1>4, <2>1 DEF Reroute, Begins
<1>5. CASE Fail(c)
  BY <1>1, <1>5 DEF Fail, Step, Idle
<1>6. ASSUME NEW a \in Agent, NEW op \in PortalOp, LoadForAction(c, a, op) PROVE DeliveryInv'
  <2>1. [step |-> "loaded", op |-> op, agent |-> a] \in Step
    BY Tables DEF Step
  <2> QED BY <1>1, <1>6, <2>1 DEF LoadForAction, Begins
<1>7. ASSUME NEW a \in Agent \cup {Nobody}, AssignTo(c, a) PROVE DeliveryInv'
  <2> DEFINE name == IF a = Nobody THEN "unassign" ELSE "assign"
  <2>1. [step |-> "loaded", op |-> name, agent |-> a] \in Step
    BY Tables DEF Step
  <2> QED BY <1>1, <1>7, <2>1 DEF AssignTo, Begins
<1> QED BY <1>2, <1>3, <1>4, <1>5, <1>6, <1>7

\* The statements of the handlers.
LEMMA ContinueKeeps ==
  ASSUME DeliveryInv, NEW c \in Client,
         \/ PlaceConsignment(c) \/ CheckTransition(c) \/ Transition(c) \/ CommitReroute(c)
         \/ ReadOutcome(c)
  PROVE  DeliveryInv'
<1>1. DeliveryTypeOK /\ Idle \in Step /\ [step |-> "sync"] \in Step
  BY DEF DeliveryInv, Step
<1>2. CASE PlaceConsignment(c)
  <2>1. [step |-> "loaded", op |-> "unassign", agent |-> Nobody] \in Step
    BY Tables DEF Step
  <2>2. status' = (IF status = "NONE" THEN "UNASSIGNED" ELSE status) /\ holder' = holder
        /\ UNCHANGED <<attempts, attemptCount, orders>>
        /\ Goes(c, [step |-> "loaded", op |-> "unassign", agent |-> Nobody])
    BY <1>2 DEF PlaceConsignment
  <2> QED BY <1>1, <2>1, <2>2, StepKeeps DEF DeliveryTypeOK, AssignmentStatus
<1>3. CASE CheckTransition(c)
  <2> DEFINE k == [step |-> "checked", op |-> call[c].op, agent |-> call[c].agent,
                   number |-> attemptCount + 1]
  <2>1. call[c].step = "loaded" /\ (Goes(c, k) \/ Goes(c, Idle)) /\ UNCHANGED <<consignment, orders>>
    BY <1>3 DEF CheckTransition
  <2>2. call[c].op \in DOMAIN Target /\ call[c].agent \in Agent \cup {Nobody}
    BY <1>1, <2>1, Carried
  <2>3. attemptCount + 1 \in Nat \ {0}
    BY <1>1 DEF DeliveryTypeOK
  <2>4. k \in Step
    BY <2>2, <2>3 DEF Step
  <2> QED BY <1>1, <2>1, <2>4, StepKeeps DEF DeliveryTypeOK, consignment, Idle
<1>4. CASE Transition(c)
  <2>1. /\ call[c].step = "checked" /\ call[c].op \notin {"deliver", "fail"}
        /\ status' = Target[call[c].op] /\ holder' = HolderAfter(call[c])
        /\ (Goes(c, Idle) \/ Goes(c, [step |-> "sync"]))
        /\ UNCHANGED <<attempts, attemptCount, orders>>
    BY <1>4 DEF Transition, AfterCommit
  <2>2. call[c].op \in DOMAIN Target /\ call[c].agent \in Agent \cup {Nobody}
    BY <1>1, <2>1, Carried
  <2>3. status' \in AssignmentStatus /\ status' \notin {"NONE", "DELIVERED"}
    BY <2>1, <2>2, Tables DEF AssignmentStatus, Closed
  <2>4. holder' \in Agent \cup {Nobody}
    BY <1>1, <2>1, <2>2 DEF HolderAfter, DeliveryTypeOK
  <2>5. status' = "UNASSIGNED" => holder' = Nobody
    BY <2>1, <2>2, Tables DEF HolderAfter
  <2> QED BY <1>1, <2>1, <2>3, <2>4, <2>5, StepKeeps DEF Idle
<1>5. CASE CommitReroute(c)
  BY <1>1, <1>5, StepKeeps DEF CommitReroute, AssignmentStatus, Idle
<1>6. CASE ReadOutcome(c)
  <2> DEFINE k == [step |-> "push", saw |-> status]
  <2>1. /\ (status \in DOMAIN OrderStatusByAssignment /\ Goes(c, k)) \/ Goes(c, Idle)
        /\ UNCHANGED <<consignment, orders>>
    BY <1>6 DEF ReadOutcome
  <2>2. status \in DOMAIN OrderStatusByAssignment => k \in Step
    BY DEF Step
  <2> QED BY <1>1, <2>1, <2>2, StepKeeps DEF DeliveryTypeOK, consignment, Idle
<1> QED BY <1>2, <1>3, <1>4, <1>5, <1>6

\* The orders are told what the handler saw.
LEMMA PushKeeps ==
  ASSUME DeliveryInv, NEW c \in Client, PushOutcome(c)
  PROVE  DeliveryInv'
<1>1. /\ call[c].step = "push" /\ call' = [call EXCEPT ![c] = Idle]
      /\ deliveryStatus' = OrderStatusByAssignment[call[c].saw]
      /\ completed' = (completed \/ call[c].saw = "DELIVERED")
      /\ UNCHANGED <<status, holder, attempts, attemptCount>>
  BY DEF PushOutcome, Goes, consignment
<1>2. DeliveryTypeOK /\ call[c].saw \in DOMAIN OrderStatusByAssignment
  BY <1>1, Carried DEF DeliveryInv
<1>3. call[c].saw = "DELIVERED" => Recorded
  BY <1>1 DEF DeliveryInv, CallsInv
<1>4. \A d \in Client : call'[d] = IF d = c THEN Idle ELSE call[d]
  BY <1>1, <1>2 DEF DeliveryTypeOK
<1>5. completed' \in BOOLEAN
  BY <1>1
<1>6. Idle \in Step
  BY DEF Step
<1>7. DeliveryTypeOK'
  BY <1>1, <1>2, <1>5, <1>6, Tables DEF DeliveryTypeOK
<1>8. AttemptsNumbered' /\ (Recorded <=> Recorded')
  BY <1>1 DEF DeliveryInv, AttemptsNumbered, Recorded
<1>9. DeliveredIsRecorded'
  BY <1>1, <1>2, <1>3, <1>8, Tables DEF DeliveryInv, DeliveredIsRecorded, Recorded
<1>10. CallsInv'
  BY <1>1, <1>4, <1>8 DEF DeliveryInv, CallsInv, Idle
<1> QED BY <1>7, <1>8, <1>9, <1>10 DEF DeliveryInv

LEMMA NextKeeps == DeliveryInv /\ [DeliveryNext]_deliveryVars => DeliveryInv'
<1> SUFFICES ASSUME DeliveryInv, [DeliveryNext]_deliveryVars PROVE DeliveryInv'
  OBVIOUS
<1>1. ASSUME UNCHANGED <<attempts, attemptCount, orders, call>>,
             status' \in AssignmentStatus, holder' \in Agent \cup {Nobody},
             status' = "UNASSIGNED" => holder' = Nobody,
             status' = "DELIVERED" => status = "DELIVERED"
      PROVE  DeliveryInv'
  <2>1. DeliveryTypeOK'
    BY <1>1 DEF DeliveryInv, DeliveryTypeOK, orders, AssignmentStatus, Closed
  <2>2. AttemptsNumbered' /\ DeliveredIsRecorded' /\ CallsInv'
    BY <1>1 DEF DeliveryInv, AttemptsNumbered, DeliveredIsRecorded, CallsInv, Recorded, orders
  <2> QED BY <2>1, <2>2 DEF DeliveryInv
<1>2. CASE CreateForBatch
  <2>1. holder = Nobody
    BY <1>2 DEF CreateForBatch, DeliveryInv, DeliveryTypeOK
  <2> QED BY <1>1, <1>2, <2>1 DEF CreateForBatch, AssignmentStatus
<1>3. CASE \E a \in Agent : Accept(a)
  BY <1>1, <1>3 DEF Accept, AssignmentStatus
<1>4. CASE \E c \in Client : RecordAttempt(c) \/ PushOutcome(c)
  BY <1>4, RecordAttemptKeeps, PushKeeps
<1>5. CASE UNCHANGED deliveryVars
  <2>1. UNCHANGED <<status, holder, attempts, attemptCount, deliveryStatus, completed, call>>
    BY <1>5 DEF deliveryVars
  <2> QED BY <2>1 DEF DeliveryInv, DeliveryTypeOK, AttemptsNumbered, DeliveredIsRecorded,
                      CallsInv, Recorded
<1> QED BY <1>2, <1>3, <1>4, <1>5, StartKeeps, ContinueKeeps DEF DeliveryNext

THEOREM DeliveryInvariantHolds == DeliverySpec => []DeliveryInv
BY InitKeeps, NextKeeps, PTL DEF DeliverySpec

\* A consignment in the queue is nobody's.
THEOREM DeliveryTypeCorrect == DeliverySpec => []DeliveryTypeOK
<1>1. DeliveryInv => DeliveryTypeOK
  BY DEF DeliveryInv
<1> QED BY <1>1, DeliveryInvariantHolds, PTL

\* The attempts of a consignment are numbered 1, 2, ... and counted.
THEOREM AttemptsStayNumbered == DeliverySpec => []AttemptsNumbered
<1>1. DeliveryInv => AttemptsNumbered
  BY DEF DeliveryInv
<1> QED BY <1>1, DeliveryInvariantHolds, PTL

\* Nothing is called delivered that nobody recorded handing over.
THEOREM DeliveredStaysRecorded == DeliverySpec => []DeliveredIsRecorded
<1>1. DeliveryInv => DeliveredIsRecorded
  BY DEF DeliveryInv
<1> QED BY <1>1, DeliveryInvariantHolds, PTL
=============================================================================
