----------------------------- MODULE OrderMoney -----------------------------
(***************************************************************************)
(* What a vendor's orders cost and what the wallet paid for them.  Placing *)
(* an order debits its total; an amendment prices the order again, writes  *)
(* the new total and debits or credits the difference, each in one         *)
(* transaction with a call of WalletLedger.                                *)
(*                                                                         *)
(* Both look before their transaction: placing at the balance, amending at *)
(* the order, whether it may be amended and what its total is.  The price  *)
(* is any member of Price.  Orders of retail customers have no wallet and  *)
(* move no money.                                                          *)
(***************************************************************************)
EXTENDS WalletLedger

CONSTANTS
  Order,       \* ids of orders
  Owner,       \* the wallet of the vendor each order belongs to
  Price,       \* what an order may cost
  TopUp,       \* the reference of every other credit
  TopUps,      \* amounts that are credited
  MaxChanges,  \* bound: the price of an order changes at most that often
  MaxEntries   \* bound: no top-up starts on a wallet with that many entries

\* What an entry of the ledger is for: the n-th price of an order, ORD-... for
\* the first and AMD-... for an amendment.
Change == Order \X (1..MaxChanges)

ASSUME OrderMoneyConstants ==
  /\ Owner \in [Order -> Wallet]
  /\ Price \subseteq Nat \ {0}
  /\ TopUp \notin Change
  /\ Reference = Change \cup {TopUp}
  /\ TopUps \subseteq Amount
  /\ \A p \in Price, q \in Price \cup {0} : p > q => p - q \in Amount
  /\ MaxChanges \in Nat
  /\ MaxEntries \in Nat

VARIABLES
  total,   \* totalAmount of each order, 0 before it is placed
  change,  \* the prices of each order: what each replaced, and the new one
  closed,  \* orders that may not be amended any more
  plan     \* what each client read before its transaction

orderVars == <<total, change, closed>>
moneyVars == <<orderVars, plan, ledgerVars>>

NoPlan == [step |-> "none"]

Idle(c) == plan[c] = NoPlan /\ session[c] = NoSession

Plans(c, p) == plan' = [plan EXCEPT ![c] = p]

\* The transaction of client c writes to the wallet of order o.
Serves(c, o) == session[c].phase = "read" /\ session[c].wallet = Owner[o]

Reprices(o, from, to) ==
  /\ Len(change[o]) < MaxChanges
  /\ change' = [change EXCEPT ![o] = Append(@, [from |-> from, to |-> to])]
  /\ UNCHANGED closed

Entry(o) == <<o, Len(change[o]) + 1>>

MoneyInit ==
  /\ LedgerInit
  /\ total = [o \in Order |-> 0]
  /\ change = [o \in Order |-> <<>>]
  /\ closed = {}
  /\ plan = [c \in Client |-> NoPlan]

(***************************************************************************)
(* Placing an order.                                                       *)
(***************************************************************************)
PlanOrder(c, w, price) ==
  /\ Idle(c)
  /\ balance[w] >= price
  /\ Plans(c, [step |-> "order", wallet |-> w, to |-> price])
  /\ UNCHANGED <<orderVars, ledgerVars>>

\* Mutant: the balance that was read before the transaction is enough.
CommitOrderAsPlanned(c, o) ==
  /\ plan[c].step = "order"
  /\ Serves(c, o)
  /\ total[o] = 0
  /\ Post(c, Entry(o), session[c].seen - plan[c].to)
  /\ Reprices(o, 0, plan[c].to)
  /\ total' = [total EXCEPT ![o] = plan[c].to]
  /\ Plans(c, NoPlan)

\* The order is a new one.
CommitOrder(c, o) ==
  /\ plan[c].step = "order"
  /\ Serves(c, o)
  /\ total[o] = 0
  /\ DebitWallet(c, Entry(o), plan[c].to)
  /\ Reprices(o, 0, plan[c].to)
  /\ total' = [total EXCEPT ![o] = plan[c].to]
  /\ Plans(c, NoPlan)

(***************************************************************************)
(* Amending an order.  What moves is the difference to the total read by   *)
(* computeAmendment; the total written is the new price.                   *)
(***************************************************************************)
PlanAmendment(c, o, price) ==
  /\ Idle(c)
  /\ total[o] # 0
  /\ o \notin closed
  /\ Plans(c, [step |-> "amend", wallet |-> Owner[o], order |-> o,
               from |-> total[o], to |-> price])
  /\ UNCHANGED <<orderVars, ledgerVars>>

\* Mutant: the amendment stays when the wallet cannot pay for it.
CommitAmendmentUnpaid(c) ==
  LET p == plan[c]
      o == p.order
  IN  /\ p.step = "amend"
      /\ Serves(c, o)
      /\ IF p.to > p.from
         THEN Post(c, Entry(o), IF session[c].seen >= p.to - p.from
                                THEN session[c].seen - (p.to - p.from) ELSE session[c].seen)
         ELSE p.to < p.from /\ CreditWallet(c, Entry(o), p.from - p.to)
      /\ Reprices(o, p.from, p.to)
      /\ total' = [total EXCEPT ![o] = p.to]
      /\ Plans(c, NoPlan)

\* Mutant: the amendment settles the difference and leaves the order's total.
CommitAmendmentOfItem(c) ==
  LET p == plan[c]
      o == p.order
  IN  /\ p.step = "amend"
      /\ Serves(c, o)
      /\ \/ p.to > p.from /\ DebitWallet(c, Entry(o), p.to - p.from)
         \/ p.to < p.from /\ CreditWallet(c, Entry(o), p.from - p.to)
      /\ Reprices(o, p.from, p.to)
      /\ Plans(c, NoPlan)
      /\ UNCHANGED total

CommitAmendment(c) ==
  LET p == plan[c]
      o == p.order
  IN  /\ p.step = "amend"
      /\ Serves(c, o)
      /\ \/ p.to > p.from /\ DebitWallet(c, Entry(o), p.to - p.from)
         \/ p.to < p.from /\ CreditWallet(c, Entry(o), p.from - p.to)
      /\ Reprices(o, p.from, p.to)
      /\ total' = [total EXCEPT ![o] = p.to]
      /\ Plans(c, NoPlan)

\* Nothing moves when the price is the one that was read.
CommitFreeAmendment(c) ==
  LET p == plan[c]
  IN  /\ p.step = "amend"
      /\ p.to = p.from
      /\ session[c] = NoSession
      /\ Reprices(p.order, p.from, p.to)
      /\ total' = [total EXCEPT ![p.order] = p.to]
      /\ Plans(c, NoPlan)
      /\ UNCHANGED ledgerVars

\* The order ends, or a step that locks its amendments is under way.
Close(o) ==
  /\ total[o] # 0
  /\ o \notin closed
  /\ closed' = closed \cup {o}
  /\ UNCHANGED <<total, change, plan, ledgerVars>>

(***************************************************************************)
(* The transactions, and the top-ups that share the wallets.               *)
(***************************************************************************)

LockForPlan(c) ==
  /\ plan[c] # NoPlan
  /\ LockWallet(c, plan[c].wallet)
  /\ UNCHANGED <<orderVars, plan>>

LockForTopUp(c, w) ==
  /\ Idle(c)
  /\ Len(ledger[w]) < MaxEntries
  /\ LockWallet(c, w)
  /\ UNCHANGED <<orderVars, plan>>

Read(c) ==
  /\ ReadWallet(c)
  /\ UNCHANGED <<orderVars, plan>>

CommitTopUp(c, amount) ==
  /\ plan[c] = NoPlan
  /\ CreditWallet(c, TopUp, amount)
  /\ UNCHANGED <<orderVars, plan>>

\* A handler throws, its transaction times out, or its process ends.
Fail(c) ==
  /\ ~Idle(c)
  /\ Plans(c, NoPlan)
  /\ session' = [session EXCEPT ![c] = NoSession]
  /\ UNCHANGED <<orderVars, balance, ledger>>

MoneyNext ==
  \/ \E o \in Order : Close(o)
  \/ \E c \in Client :
       \/ \E w \in Wallet, price \in Price : PlanOrder(c, w, price)
       \/ \E o \in Order : CommitOrder(c, o)
       \/ \E o \in Order, price \in Price : PlanAmendment(c, o, price)
       \/ CommitAmendment(c) \/ CommitFreeAmendment(c)
       \/ LockForPlan(c) \/ Read(c) \/ Fail(c)
       \/ \E w \in Wallet : LockForTopUp(c, w)
       \/ \E amount \in TopUps : CommitTopUp(c, amount)

MoneySpec == MoneyInit /\ [][MoneyNext]_moneyVars

(***************************************************************************)
(* Properties.                                                             *)
(***************************************************************************)

Plan == {NoPlan}
        \cup [step : {"order"}, wallet : Wallet, to : Price]
        \cup {p \in [step : {"amend"}, wallet : Wallet, order : Order, from : Price, to : Price] :
                p.wallet = Owner[p.order]}

RowsOK ==
  /\ total \in [Order -> Price \cup {0}]
  /\ change \in [Order -> Seq([from : Price \cup {0}, to : Price])]
  /\ \A o \in Order : Len(change[o]) <= MaxChanges /\ (total[o] = 0 <=> change[o] = <<>>)
  /\ closed \subseteq Order
  /\ plan \in [Client -> Plan]

\* Balances are never negative, and an order has a total once it has a price.
MoneyTypeOK == LedgerTypeOK /\ RowsOK

EntriesFor(w, r) == {i \in 1..Len(ledger[w]) : ledger[w][i].for = r}

Moved(w, i) == ledger[w][i].before - ledger[w][i].after

Due(o, n) == change[o][n].to - change[o][n].from

Paid(o, n) ==
  LET entries == EntriesFor(Owner[o], <<o, n>>)
  IN  IF Due(o, n) = 0 THEN entries = {}
      ELSE \E i \in entries : entries = {i} /\ Moved(Owner[o], i) = Due(o, n)

\* The wallet of the vendor moves exactly by what the price of an order
\* changes, once for each change, and for nothing that was not written to the
\* order: whatever placements, amendments and top-ups overlap, and wherever
\* one of them fails.
EveryChangeIsPaid ==
  /\ \A o \in Order : \A n \in 1..Len(change[o]) : Paid(o, n)
  /\ \A w \in Wallet : \A i \in 1..Len(ledger[w]) :
       LET r == ledger[w][i].for
       IN  r # TopUp => w = Owner[r[1]] /\ r[2] <= Len(change[r[1]])

\* Every amendment of the order replaced the price it was computed from.
AmendedInTurn(o) == \A n \in 2..Len(change[o]) : change[o][n].from = change[o][n - 1].to

\* What entry i of the ledger of its vendor's wallet took for order o.
Taken(o, i) ==
  LET r == ledger[Owner[o]][i].for
  IN  IF r # TopUp /\ r[1] = o THEN Moved(Owner[o], i) ELSE 0

\* The sum of the first n terms.
RunningTotal(term, n) ==
  LET sum[k \in 0..n] == IF k = 0 THEN 0 ELSE sum[k - 1] + term[k]
  IN  sum[n]

Charged(o) ==
  LET n == Len(ledger[Owner[o]])
  IN  RunningTotal([i \in 1..n |-> Taken(o, i)], n)

\* An order costs what its vendor was charged for it in all, unless two
\* amendments of it were computed from the same total.
TotalIsCharged == \A o \in Order : AmendedInTurn(o) => Charged(o) = total[o]
=============================================================================
