------------------------------ MODULE Delivery ------------------------------
(***************************************************************************)
(* The consignment of one dispatched batch: delivery people who carry it,  *)
(* admins who place it, and the status that its orders show the vendor.    *)
(*                                                                         *)
(* A handler loads the consignment, checks who holds it, reads its status  *)
(* again in a transaction, writes the row by id, and afterwards pushes the *)
(* outcome to the orders.  No row is locked between two of these steps.    *)
(* Every agent handles every service here.                                 *)
(***************************************************************************)
EXTENDS Integers, Sequences

CONSTANTS
  Agent,       \* delivery people
  Nobody,
  Client,      \* BOUND: handlers at work at the same time
  MaxAttempts  \* BOUND: recorded attempts

VARIABLES
  status,          \* of the consignment; NONE while the batch is not routed
  holder,          \* assignedToId
  attempts,        \* rows of delivery attempts, in the order of their creation
  attemptCount,
  deliveryStatus,  \* of the orders in the batch
  completed,       \* the orders' own status is DELIVERED
  call             \* what each handler has read and goes on to do

deliveryVars == <<status, holder, attempts, attemptCount, deliveryStatus, completed, call>>
consignment == <<status, holder, attempts, attemptCount>>
orders == <<deliveryStatus, completed>>

Closed == {"DELIVERED", "RETURNED", "CANCELLED"}

AssignmentStatus == {"UNASSIGNED", "ASSIGNED", "PICKED_UP", "IN_TRANSIT", "FAILED"} \cup Closed

AllowedTransitions ==
  [UNASSIGNED |-> {"ASSIGNED", "CANCELLED"},
   ASSIGNED   |-> {"PICKED_UP", "UNASSIGNED", "CANCELLED"},
   PICKED_UP  |-> {"IN_TRANSIT", "DELIVERED", "FAILED", "RETURNED"},
   IN_TRANSIT |-> {"DELIVERED", "FAILED", "RETURNED"},
   FAILED     |-> {"ASSIGNED", "UNASSIGNED", "IN_TRANSIT", "DELIVERED", "RETURNED", "CANCELLED"},
   DELIVERED  |-> {}, RETURNED |-> {}, CANCELLED |-> {}]

CanTransition(from, to) == to \in AllowedTransitions[from]

\* How a consignment's state reads on its orders, where it does.
OrderStatusByAssignment ==
  [PICKED_UP |-> "IN_TRANSIT", IN_TRANSIT |-> "IN_TRANSIT", DELIVERED |-> "DELIVERED",
   FAILED |-> "FAILED", RETURNED |-> "FAILED", CANCELLED |-> "CANCELLED"]

\* Where each operation takes the consignment.
Target ==
  [release |-> "UNASSIGNED", pickup |-> "PICKED_UP", markInTransit |-> "IN_TRANSIT",
   retry |-> "IN_TRANSIT", markReturned |-> "RETURNED", deliver |-> "DELIVERED",
   fail |-> "FAILED", assign |-> "ASSIGNED", unassign |-> "UNASSIGNED", cancel |-> "CANCELLED"]

PortalOp == {"release", "pickup", "markInTransit", "retry", "markReturned", "deliver", "fail"}

Syncs == {"pickup", "markInTransit", "deliver", "fail", "markReturned", "cancel"}

Idle == [step |-> "idle"]

DeliveryInit ==
  /\ status = "NONE"
  /\ holder = Nobody
  /\ attempts = <<>>
  /\ attemptCount = 0
  /\ deliveryStatus = "IN_TRANSIT"
  /\ completed = FALSE
  /\ call = [c \in Client |-> Idle]

Goes(c, k) == call' = [call EXCEPT ![c] = k]

Begins(c, k) == call[c] = Idle /\ Goes(c, k) /\ UNCHANGED <<consignment, orders>>

(***************************************************************************)
(* A batch gets its consignment when it leaves, or from an admin if its    *)
(* vendor had no delivery service then.                                    *)
(***************************************************************************)

\* The unique index leaves one consignment to a batch, whoever creates it.
CreateForBatch ==
  /\ status = "NONE"
  /\ status' = "UNASSIGNED"
  /\ UNCHANGED <<holder, attempts, attemptCount, orders, call>>

RouteUnroutedBatch(c) == status = "NONE" /\ Begins(c, [step |-> "route"])

\* The consignment is created, or found if dispatch created it by now; then
\* it is put in the queue like one that an admin unassigns.
PlaceConsignment(c) ==
  /\ call[c].step = "route"
  /\ status' = IF status = "NONE" THEN "UNASSIGNED" ELSE status
  /\ Goes(c, [step |-> "loaded", op |-> "unassign", agent |-> Nobody])
  /\ UNCHANGED <<holder, attempts, attemptCount, orders>>

(***************************************************************************)
(* Handlers load the consignment and check.                                *)
(***************************************************************************)

\* Acceptance is one conditional update.
Accept(a) ==
  /\ status = "UNASSIGNED"
  /\ holder = Nobody
  /\ status' = "ASSIGNED"
  /\ holder' = a
  /\ UNCHANGED <<attempts, attemptCount, orders, call>>

LoadForAction(c, a, op) ==
  /\ holder = a
  /\ Begins(c, [step |-> "loaded", op |-> op, agent |-> a])

AssignTo(c, a) ==
  /\ status # "NONE"
  /\ Begins(c, [step |-> "loaded", op |-> IF a = Nobody THEN "unassign" ELSE "assign",
                agent |-> a])

Cancel(c) ==
  /\ status # "NONE"
  /\ Begins(c, [step |-> "loaded", op |-> "cancel", agent |-> Nobody])

Reroute(c) ==
  /\ status \notin Closed \cup {"NONE"}
  /\ Begins(c, [step |-> "reroute"])

(***************************************************************************)
(* transition and recordAttempt.                                           *)
(***************************************************************************)

\* The first statement of the transaction; an illegal move throws.
CheckTransition(c) ==
  LET k == call[c]
  IN  /\ k.step = "loaded"
      /\ Goes(c, IF CanTransition(status, Target[k.op])
                 THEN [step |-> "checked", op |-> k.op, agent |-> k.agent,
                       number |-> attemptCount + 1]
                 ELSE Idle)
      /\ UNCHANGED <<consignment, orders>>

\* What follows the transaction.
AfterCommit(op) == IF op \in Syncs THEN [step |-> "sync"] ELSE Idle

\* Mutant: who gives a consignment back stays its holder.
HolderKept(k) == IF k.op = "assign" THEN k.agent ELSE holder

HolderAfter(k) ==
  CASE k.op = "assign" -> k.agent
    [] k.op \in {"release", "unassign"} -> Nobody
    [] OTHER -> holder

Transition(c) ==
  LET k == call[c]
  IN  /\ k.step = "checked"
      /\ k.op \notin {"deliver", "fail"}
      /\ status' = Target[k.op]
      /\ holder' = HolderAfter(k)
      /\ Goes(c, AfterCommit(k.op))
      /\ UNCHANGED <<attempts, attemptCount, orders>>

\* Mutant: no unique index on the attempts of a consignment.
NumberFreeAnyway(n) == TRUE

NumberFree(n) == \A i \in DOMAIN attempts : attempts[i].number # n

\* Mutant: the handover moves the consignment like any other operation.
RecordFailureOnly(c) ==
  LET k == call[c]
  IN  /\ k.step = "checked"
      /\ k.op \in {"deliver", "fail"}
      /\ Len(attempts) < MaxAttempts
      /\ IF k.op = "fail"
         THEN /\ attempts' = Append(attempts, [number |-> k.number, outcome |-> "FAILED"])
              /\ attemptCount' = k.number
         ELSE UNCHANGED <<attempts, attemptCount>>
      /\ status' = Target[k.op]
      /\ Goes(c, [step |-> "sync"])
      /\ UNCHANGED <<holder, orders>>

\* The row of the attempt and the new status; a number that is taken by now
\* makes the transaction fail.
RecordAttempt(c) ==
  LET k == call[c]
  IN  /\ k.step = "checked"
      /\ k.op \in {"deliver", "fail"}
      /\ Len(attempts) < MaxAttempts
      /\ NumberFree(k.number)
      /\ attempts' = Append(attempts, [number |-> k.number, outcome |-> Target[k.op]])
      /\ attemptCount' = k.number
      /\ status' = Target[k.op]
      /\ Goes(c, [step |-> "sync"])
      /\ UNCHANGED <<holder, orders>>

\* By id, whatever the status has become.
CommitReroute(c) ==
  /\ call[c].step = "reroute"
  /\ status' = "UNASSIGNED"
  /\ holder' = Nobody
  /\ Goes(c, Idle)
  /\ UNCHANGED <<attempts, attemptCount, orders>>

(***************************************************************************)
(* syncOrderDeliveryStatus, after the transaction that changed the status. *)
(***************************************************************************)
ReadOutcome(c) ==
  /\ call[c].step = "sync"
  /\ Goes(c, IF status \in DOMAIN OrderStatusByAssignment
             THEN [step |-> "push", saw |-> status] ELSE Idle)
  /\ UNCHANGED <<consignment, orders>>

PushOutcome(c) ==
  /\ call[c].step = "push"
  /\ deliveryStatus' = OrderStatusByAssignment[call[c].saw]
  /\ completed' = (completed \/ call[c].saw = "DELIVERED")
  /\ Goes(c, Idle)
  /\ UNCHANGED consignment

\* A handler throws, its transaction fails, or its process ends.
Fail(c) == call[c] # Idle /\ Goes(c, Idle) /\ UNCHANGED <<consignment, orders>>

DeliveryNext ==
  \/ CreateForBatch
  \/ \E a \in Agent : Accept(a)
  \/ \E c \in Client :
       \/ RouteUnroutedBatch(c) \/ PlaceConsignment(c)
       \/ \E a \in Agent, op \in PortalOp : LoadForAction(c, a, op)
       \/ \E a \in Agent \cup {Nobody} : AssignTo(c, a)
       \/ Cancel(c) \/ Reroute(c)
       \/ CheckTransition(c) \/ Transition(c) \/ RecordAttempt(c) \/ CommitReroute(c)
       \/ ReadOutcome(c) \/ PushOutcome(c)
       \/ Fail(c)

DeliverySpec == DeliveryInit /\ [][DeliveryNext]_deliveryVars

(***************************************************************************)
(* Properties.                                                             *)
(***************************************************************************)
Step ==
  {Idle} \cup [step : {"route", "reroute", "sync"}]
  \cup [step : {"loaded"}, op : DOMAIN Target, agent : Agent \cup {Nobody}]
  \cup [step : {"checked"}, op : DOMAIN Target, agent : Agent \cup {Nobody}, number : Nat \ {0}]
  \cup [step : {"push"}, saw : DOMAIN OrderStatusByAssignment]

\* The rows and handlers keep their shape, and a consignment that waits in the
\* queue is nobody's, whichever handler put it there.
DeliveryTypeOK ==
  /\ status \in AssignmentStatus \cup {"NONE"}
  /\ holder \in Agent \cup {Nobody}
  /\ status \in {"NONE", "UNASSIGNED"} => holder = Nobody
  /\ attempts \in Seq([number : Nat \ {0}, outcome : {"DELIVERED", "FAILED"}])
  /\ attemptCount \in Nat
  /\ deliveryStatus \in {"IN_TRANSIT", "DELIVERED", "FAILED", "CANCELLED"}
  /\ completed \in BOOLEAN
  /\ call \in [Client -> Step]

\* However many handlers record attempts at once, the attempts of a
\* consignment are numbered one after the other, and its counter is their
\* number: no attempt is lost from the count and none is counted twice.
AttemptsNumbered ==
  /\ \A i \in DOMAIN attempts : attempts[i].number = i
  /\ attemptCount = Len(attempts)

\* Goods are said to be delivered, on the consignment or on its orders, only
\* when somebody recorded the handover, although the orders are told later and
\* by a handler that read the consignment before others moved it on.
DeliveredIsRecorded ==
  status = "DELIVERED" \/ deliveryStatus = "DELIVERED" \/ completed =>
    \E i \in DOMAIN attempts : attempts[i].outcome = "DELIVERED"
=============================================================================
