-------------------------- MODULE OrderMoneyProofs --------------------------
(***************************************************************************)
(* Proofs about OrderMoney, for any number of orders, wallets and clients  *)
(* and any prices: money moves only through the ledger, and the wallet of  *)
(* a vendor moves exactly by what the prices of its orders change.         *)
(***************************************************************************)
EXTENDS OrderMoney, WalletLedgerProofs, SequenceTheorems, WellFoundedInduction

ChangeRow == [from : Price \cup {0}, to : Price]

\* What a client planned, and the fields each kind of plan has.
LEMMA PlanKinds ==
  ASSUME RowsOK, NEW c \in Client
  PROVE  /\ plan[c] = NoPlan => plan[c].step = "none"
         /\ plan[c] # NoPlan => plan[c].wallet \in Wallet
         /\ plan[c].step = "order" => plan[c].to \in Price
         /\ plan[c].step = "amend" => /\ plan[c].order \in Order
                                      /\ plan[c].wallet = Owner[plan[c].order]
                                      /\ plan[c].from \in Price
                                      /\ plan[c].to \in Price
<1>1. plan[c] \in Plan
  BY DEF RowsOK
<1> QED BY <1>1 DEF Plan, NoPlan

\* Writing a price that is not nothing keeps the rows of the orders in shape.
LEMMA RepricedRows ==
  ASSUME RowsOK, NEW c \in Client, NEW o \in Order,
         NEW from \in Price \cup {0}, NEW to \in Price, Reprices(o, from, to),
         total' = [total EXCEPT ![o] = to], Plans(c, NoPlan)
  PROVE  RowsOK'
<1> DEFINE row == [from |-> from, to |-> to]
<1>1. /\ total \in [Order -> Price \cup {0}]
      /\ change \in [Order -> Seq(ChangeRow)]
      /\ plan \in [Client -> Plan]
  BY DEF RowsOK, ChangeRow
<1>2. PICK s \in Seq(ChangeRow) : s = change[o]
  BY <1>1
<1>3. row \in ChangeRow
  BY DEF ChangeRow
<1>4. Len(s) < MaxChanges /\ change' = [change EXCEPT ![o] = Append(s, row)] /\ closed' = closed
  BY <1>2 DEF Reprices
<1> HIDE DEF row
<1>5. PICK t \in Seq(ChangeRow) : t = Append(s, row)
  <2>1. Append(s, row) \in Seq(ChangeRow)
    BY <1>3
  <2> QED BY <2>1
<1>6. Len(t) = Len(s) + 1 /\ t # <<>>
  BY <1>3, <1>5
<1>7. change' = [change EXCEPT ![o] = t]
  BY <1>4, <1>5
<1>8. to \in Nat \ {0}
  BY OrderMoneyConstants
<1>9. MaxChanges \in Nat /\ Len(s) \in Nat
  BY OrderMoneyConstants
<1>10. Len(t) <= MaxChanges
  BY <1>4, <1>6, <1>9
<1>11. change' \in [Order -> Seq(ChangeRow)]
  BY <1>1, <1>7
<1>12. \A u \in Order : Len(change'[u]) <= MaxChanges /\ (total'[u] = 0 <=> change'[u] = <<>>)
  <2>1. ASSUME NEW u \in Order, u # o
        PROVE  Len(change'[u]) <= MaxChanges /\ (total'[u] = 0 <=> change'[u] = <<>>)
    BY <1>1, <1>7, <2>1 DEF RowsOK
  <2>2. Len(change'[o]) <= MaxChanges /\ (total'[o] = 0 <=> change'[o] = <<>>)
    BY <1>1, <1>6, <1>7, <1>8, <1>10
  <2> QED BY <2>1, <2>2
<1>13. total' \in [Order -> Price \cup {0}] /\ plan' \in [Client -> Plan]
  BY <1>1 DEF Plans, Plan
<1> QED BY <1>4, <1>11, <1>12, <1>13 DEF RowsOK, ChangeRow

\* Every step keeps the rows of the orders and the plans in shape.
LEMMA RowsStep == RowsOK /\ [MoneyNext]_moneyVars => RowsOK'
<1> SUFFICES ASSUME RowsOK, [MoneyNext]_moneyVars PROVE RowsOK'
  OBVIOUS
<1>1. ASSUME NEW o \in Order, Close(o) PROVE RowsOK'
  BY <1>1 DEF Close, RowsOK
<1>2. ASSUME NEW c \in Client, NEW w \in Wallet, NEW price \in Price, PlanOrder(c, w, price)
      PROVE  RowsOK'
  BY <1>2 DEF PlanOrder, RowsOK, orderVars, Plans, Plan
<1>3. ASSUME NEW c \in Client, NEW o \in Order, CommitOrder(c, o) PROVE RowsOK'
  BY <1>3, PlanKinds, RepricedRows DEF CommitOrder
<1>4. ASSUME NEW c \in Client, NEW o \in Order, NEW price \in Price, PlanAmendment(c, o, price)
      PROVE  RowsOK'
  <2>1. total[o] \in Price /\ Owner[o] \in Wallet
    BY <1>4, OrderMoneyConstants DEF PlanAmendment, RowsOK
  <2> DEFINE p == [step |-> "amend", wallet |-> Owner[o], order |-> o,
                   from |-> total[o], to |-> price]
  <2>2. p \in Plan
    BY <2>1 DEF Plan
  <2>3. plan' = [plan EXCEPT ![c] = p] /\ UNCHANGED orderVars
    BY <1>4 DEF PlanAmendment, Plans
  <2> HIDE DEF p
  <2> QED BY <2>2, <2>3 DEF RowsOK, orderVars
<1>5. ASSUME NEW c \in Client, CommitAmendment(c) \/ CommitFreeAmendment(c) PROVE RowsOK'
  BY <1>5, PlanKinds, RepricedRows DEF CommitAmendment, CommitFreeAmendment
<1>6. ASSUME NEW c \in Client,
             \/ LockForPlan(c) \/ Read(c)
             \/ \E w \in Wallet : LockForTopUp(c, w)
             \/ \E amount \in TopUps : CommitTopUp(c, amount)
      PROVE  RowsOK'
  BY <1>6 DEF LockForPlan, Read, LockForTopUp, CommitTopUp, orderVars, RowsOK
<1>7. ASSUME NEW c \in Client, Fail(c) PROVE RowsOK'
  BY <1>7 DEF Fail, Plans, Plan, orderVars, RowsOK
<1>8. CASE UNCHANGED moneyVars
  BY <1>8 DEF moneyVars, orderVars, RowsOK
<1> QED BY <1>1, <1>2, <1>3, <1>4, <1>5, <1>6, <1>7, <1>8 DEF MoneyNext

\* A price that is written has a reference of its own.
LEMMA EntryIsReference ==
  ASSUME RowsOK, NEW o \in Order, Len(change[o]) < MaxChanges
  PROVE  Entry(o) \in Change /\ Entry(o) \in Reference
<1>1. Len(change[o]) \in Nat /\ MaxChanges \in Nat
  BY OrderMoneyConstants DEF RowsOK
<1>2. Len(change[o]) + 1 \in 1..MaxChanges
  BY <1>1
<1> QED BY <1>2, OrderMoneyConstants DEF Entry, Change

\* The difference of two prices is an amount.
LEMMA DifferenceIsAmount ==
  ASSUME NEW p \in Price, NEW q \in Price \cup {0}
  PROVE  /\ p \in Nat \ {0} /\ q \in Nat
         /\ p > q => p - q \in Amount
         /\ p \in Amount
<1>1. p \in Nat \ {0} /\ q \in Nat /\ (p > q => p - q \in Amount)
  BY OrderMoneyConstants
<1>2. p > 0 => p - 0 \in Amount
  BY OrderMoneyConstants
<1> QED BY <1>1, <1>2

\* Every step is a step of the ledger, or leaves it alone.
LEMMA LedgerStep == MoneyTypeOK /\ [MoneyNext]_moneyVars => [LedgerNext]_ledgerVars
<1> SUFFICES ASSUME LedgerTypeOK, RowsOK, [MoneyNext]_moneyVars PROVE [LedgerNext]_ledgerVars
  BY DEF MoneyTypeOK
<1>1. ASSUME NEW o \in Order, Close(o) PROVE UNCHANGED ledgerVars
  BY <1>1 DEF Close
<1>2. ASSUME NEW c \in Client,
             \/ \E w \in Wallet, price \in Price : PlanOrder(c, w, price)
             \/ \E o \in Order, price \in Price : PlanAmendment(c, o, price)
             \/ CommitFreeAmendment(c)
      PROVE  UNCHANGED ledgerVars
  BY <1>2 DEF PlanOrder, PlanAmendment, CommitFreeAmendment
<1>3. ASSUME NEW c \in Client, NEW o \in Order, CommitOrder(c, o) PROVE LedgerNext
  <2>1. plan[c].to \in Amount
    BY <1>3, PlanKinds, DifferenceIsAmount DEF CommitOrder
  <2>2. Entry(o) \in Reference
    BY <1>3, EntryIsReference DEF CommitOrder, Reprices
  <2> QED BY <1>3, <2>1, <2>2 DEF CommitOrder, LedgerNext
<1>4. ASSUME NEW c \in Client, CommitAmendment(c) PROVE LedgerNext
  <2>1. plan[c].order \in Order /\ plan[c].from \in Price /\ plan[c].to \in Price
    BY <1>4, PlanKinds DEF CommitAmendment
  <2>2. Entry(plan[c].order) \in Reference
    BY <1>4, <2>1, EntryIsReference DEF CommitAmendment, Reprices
  <2>3. CASE plan[c].to > plan[c].from
               /\ DebitWallet(c, Entry(plan[c].order), plan[c].to - plan[c].from)
    <3>1. plan[c].to - plan[c].from \in Amount
      BY <2>1, <2>3, DifferenceIsAmount
    <3> QED BY <2>2, <2>3, <3>1 DEF LedgerNext
  <2>4. CASE plan[c].to < plan[c].from
               /\ CreditWallet(c, Entry(plan[c].order), plan[c].from - plan[c].to)
    <3>1. plan[c].from > plan[c].to
      BY <2>1, <2>4, DifferenceIsAmount
    <3>2. plan[c].from - plan[c].to \in Amount
      BY <2>1, <3>1, DifferenceIsAmount
    <3> QED BY <2>2, <2>4, <3>2 DEF LedgerNext
  <2> QED BY <1>4, <2>3, <2>4 DEF CommitAmendment
<1>5. ASSUME NEW c \in Client, LockForPlan(c) PROVE LedgerNext
  BY <1>5, PlanKinds DEF LockForPlan, LedgerNext
<1>6. ASSUME NEW c \in Client, Read(c) \/ \E w \in Wallet : LockForTopUp(c, w) PROVE LedgerNext
  BY <1>6 DEF Read, LockForTopUp, LedgerNext
<1>7. ASSUME NEW c \in Client, NEW amount \in TopUps, CommitTopUp(c, amount) PROVE LedgerNext
  BY <1>7, OrderMoneyConstants DEF CommitTopUp, LedgerNext
<1>8. ASSUME NEW c \in Client, Fail(c) PROVE [LedgerNext]_ledgerVars
  <2>1. CASE session[c] # NoSession
    BY <1>8, <2>1 DEF Fail, ReleaseWallet, LedgerNext
  <2>2. CASE session[c] = NoSession
    <3>1. session' = session
      BY <1>8, <2>2 DEF Fail, LedgerTypeOK
    <3> QED BY <1>8, <3>1 DEF Fail, ledgerVars
  <2> QED BY <2>1, <2>2
<1>9. CASE UNCHANGED moneyVars
  BY <1>9 DEF moneyVars
<1> QED BY <1>1, <1>2, <1>3, <1>4, <1>5, <1>6, <1>7, <1>8, <1>9 DEF MoneyNext

\* A posting changes the entries of its own reference only.
LEMMA PostEntries ==
  ASSUME NEW w \in Wallet, NEW n \in Nat, NEW reference \in Reference,
         n = Len(ledger[w]), Len(ledger'[w]) = n + 1, ledger'[w][n + 1].for = reference,
         \A i \in 1..n : ledger'[w][i] = ledger[w][i],
         \A v \in Wallet : v # w => ledger'[v] = ledger[v]
  PROVE  /\ \A v \in Wallet, r \in Reference : v # w \/ r # reference =>
              EntriesFor(v, r)' = EntriesFor(v, r)
         /\ \A v \in Wallet : \A i \in 1..Len(ledger[v]) : Moved(v, i)' = Moved(v, i)
<1>1. \A i : i \in 1..(n + 1) <=> i \in 1..n \/ i = n + 1
  OBVIOUS
<1>2. ASSUME NEW v \in Wallet, NEW r \in Reference, v # w \/ r # reference
      PROVE  EntriesFor(v, r)' = EntriesFor(v, r)
  <2>1. CASE v # w
    BY <2>1 DEF EntriesFor
  <2>2. CASE v = w /\ r # reference
    BY <1>1, <2>2 DEF EntriesFor
  <2> QED BY <1>2, <2>1, <2>2
<1>3. \A v \in Wallet : \A i \in 1..Len(ledger[v]) : Moved(v, i)' = Moved(v, i)
  BY DEF Moved
<1> QED BY <1>2, <1>3

\* What a new price does to the prices of the orders.
LEMMA RepriceAppends ==
  ASSUME RowsOK, NEW o \in Order, NEW from \in Price \cup {0}, NEW to \in Price,
         Reprices(o, from, to)
  PROVE  \E n \in Nat :
           /\ n = Len(change[o])
           /\ n + 1 \in 1..MaxChanges
           /\ Entry(o) = <<o, n + 1>>
           /\ Len(change'[o]) = n + 1
           /\ Due(o, n + 1)' = to - from
           /\ \A u \in Order : u # o => change'[u] = change[u]
           /\ \A u \in Order : \A k \in 1..Len(change[u]) : Due(u, k)' = Due(u, k)
<1> DEFINE row == [from |-> from, to |-> to]
<1>1. change \in [Order -> Seq(ChangeRow)] /\ row \in ChangeRow
  BY DEF RowsOK, ChangeRow
<1>2. row.from = from /\ row.to = to
  OBVIOUS
<1>3. Len(change[o]) < MaxChanges /\ change' = [change EXCEPT ![o] = Append(change[o], row)]
  BY DEF Reprices
<1> HIDE DEF row
<1>4. PICK n \in Nat : n = Len(change[o])
  BY <1>1
<1>5. /\ Len(change'[o]) = n + 1
      /\ change'[o][n + 1] = row
      /\ \A k \in 1..n : change'[o][k] = change[o][k]
  BY <1>1, <1>3, <1>4
<1>6. \A u \in Order : u # o => change'[u] = change[u]
  BY <1>1, <1>3
<1>7. n + 1 \in 1..MaxChanges
  BY <1>3, <1>4, OrderMoneyConstants
<1>8. Due(o, n + 1)' = to - from
  BY <1>2, <1>5 DEF Due
<1>9. \A u \in Order : \A k \in 1..Len(change[u]) : Due(u, k)' = Due(u, k)
  BY <1>4, <1>5, <1>6 DEF Due
<1> QED BY <1>4, <1>5, <1>6, <1>7, <1>8, <1>9 DEF Entry

\* A change that was paid stays paid while nothing is posted for it.
LEMMA PaidStays ==
  ASSUME NEW o \in Order, NEW n, Paid(o, n), Due(o, n)' = Due(o, n),
         EntriesFor(Owner[o], <<o, n>>)' = EntriesFor(Owner[o], <<o, n>>),
         \A i \in 1..Len(ledger[Owner[o]]) : Moved(Owner[o], i)' = Moved(Owner[o], i)
  PROVE  Paid(o, n)'
<1>1. \A i \in EntriesFor(Owner[o], <<o, n>>) : i \in 1..Len(ledger[Owner[o]])
  BY DEF EntriesFor
<1> QED BY <1>1 DEF Paid

\* The references of the prices an order has, which are no top-ups.
LEMMA ChangeIsReference ==
  ASSUME RowsOK, NEW o \in Order, NEW n \in 1..Len(change[o])
  PROVE  <<o, n>> \in Reference /\ <<o, n>> # TopUp /\ Owner[o] \in Wallet
<1>1. Len(change[o]) \in Nat /\ Len(change[o]) <= MaxChanges /\ MaxChanges \in Nat
  BY OrderMoneyConstants DEF RowsOK
<1>2. n \in 1..MaxChanges
  BY <1>1
<1> QED BY <1>2, OrderMoneyConstants DEF Change

\* A posting that is for no order leaves every change paid.
LEMMA TopUpPaid ==
  ASSUME MoneyTypeOK, EveryChangeIsPaid, NEW c \in Client, session[c].phase = "read",
         NEW after \in Nat, Post(c, TopUp, after), change' = change
  PROVE  EveryChangeIsPaid'
<1>1. TopUp \in Reference
  BY OrderMoneyConstants
<1>2. PICK w \in Wallet, n \in Nat :
        /\ n = Len(ledger[w])
        /\ Len(ledger'[w]) = n + 1
        /\ ledger'[w][n + 1].for = TopUp
        /\ \A i \in 1..n : ledger'[w][i] = ledger[w][i]
        /\ \A v \in Wallet : v # w => ledger'[v] = ledger[v]
  BY <1>1, PostAppends DEF MoneyTypeOK
<1>3. /\ \A v \in Wallet, r \in Reference : v # w \/ r # TopUp =>
           EntriesFor(v, r)' = EntriesFor(v, r)
      /\ \A v \in Wallet : \A i \in 1..Len(ledger[v]) : Moved(v, i)' = Moved(v, i)
  BY <1>1, <1>2, PostEntries
<1>4. ASSUME NEW o \in Order, NEW k \in 1..Len(change[o]) PROVE Paid(o, k)'
  <2>1. <<o, k>> \in Reference /\ <<o, k>> # TopUp /\ Owner[o] \in Wallet
    BY ChangeIsReference DEF MoneyTypeOK
  <2>2. Paid(o, k) /\ Due(o, k)' = Due(o, k)
    BY DEF EveryChangeIsPaid, Due
  <2>3. EntriesFor(Owner[o], <<o, k>>)' = EntriesFor(Owner[o], <<o, k>>)
    BY <1>3, <2>1
  <2> QED BY <1>3, <2>1, <2>2, <2>3, PaidStays
<1>5. ASSUME NEW v \in Wallet, NEW i \in 1..Len(ledger'[v]), ledger'[v][i].for # TopUp
      PROVE  i \in 1..Len(ledger[v]) /\ ledger'[v][i] = ledger[v][i]
  <2>1. CASE v # w
    <3>1. ledger'[v] = ledger[v]
      BY <1>2, <2>1
    <3> QED BY <1>5, <3>1
  <2>2. CASE v = w
    <3>1. i \in 1..(n + 1)
      BY <1>2, <2>2
    <3>2. i # n + 1
      BY <1>2, <1>5, <2>2
    <3>3. i \in 1..n
      BY <3>1, <3>2
    <3> QED BY <1>2, <2>2, <3>3
  <2> QED BY <2>1, <2>2
<1>6. ASSUME NEW v \in Wallet, NEW i \in 1..Len(ledger'[v]), ledger'[v][i].for # TopUp
      PROVE  /\ v = Owner[ledger'[v][i].for[1]]
             /\ ledger'[v][i].for[2] <= Len(change'[ledger'[v][i].for[1]])
  <2>1. i \in 1..Len(ledger[v]) /\ ledger'[v][i] = ledger[v][i] /\ ledger[v][i].for # TopUp
    BY <1>5, <1>6
  <2>2. /\ v = Owner[ledger[v][i].for[1]]
        /\ ledger[v][i].for[2] <= Len(change[ledger[v][i].for[1]])
    BY <2>1 DEF EveryChangeIsPaid
  <2> QED BY <2>1, <2>2
<1>7. \A o \in Order : \A k \in 1..Len(change'[o]) : Paid(o, k)'
  BY <1>4
<1> QED BY <1>6, <1>7 DEF EveryChangeIsPaid

\* A price that is written with its posting is paid, and so are the others.
LEMMA RepricePaid ==
  ASSUME MoneyTypeOK, EveryChangeIsPaid, NEW c \in Client, NEW o \in Order,
         session[c].phase = "read", session[c].wallet = Owner[o],
         NEW from \in Price \cup {0}, NEW to \in Price, Reprices(o, from, to),
         NEW after \in Nat, Post(c, Entry(o), after),
         session[c].seen - after = to - from, to # from
  PROVE  EveryChangeIsPaid'
<1>1. PICK n \in Nat :
        /\ n = Len(change[o])
        /\ n + 1 \in 1..MaxChanges
        /\ Entry(o) = <<o, n + 1>>
        /\ Len(change'[o]) = n + 1
        /\ Due(o, n + 1)' = to - from
        /\ \A u \in Order : u # o => change'[u] = change[u]
        /\ \A u \in Order : \A k \in 1..Len(change[u]) : Due(u, k)' = Due(u, k)
  BY RepriceAppends DEF MoneyTypeOK
<1>2. PICK new \in Reference :
        /\ new = <<o, n + 1>> /\ new # TopUp
        /\ new[1] = o /\ new[2] = n + 1
        /\ Entry(o) = new
  BY <1>1, OrderMoneyConstants DEF Change
<1>3. Post(c, new, after)
  BY <1>2 DEF Post
<1>4. PICK w \in Wallet, m \in Nat :
        /\ w = session[c].wallet
        /\ m = Len(ledger[w])
        /\ Len(ledger'[w]) = m + 1
        /\ ledger'[w][m + 1].for = new
        /\ ledger'[w][m + 1].before - ledger'[w][m + 1].after = session[c].seen - after
        /\ \A i \in 1..m : ledger'[w][i] = ledger[w][i]
        /\ \A v \in Wallet : v # w => ledger'[v] = ledger[v]
  <2>1. LedgerTypeOK
    BY DEF MoneyTypeOK
  <2> HIDE <1>1, <1>2
  <2> QED BY <1>3, <2>1, PostAppends
<1>5. /\ \A v \in Wallet, r \in Reference : v = w /\ r = new =>
           EntriesFor(v, r)' = EntriesFor(v, r) \cup {m + 1}
      /\ \A v \in Wallet, r \in Reference : v # w \/ r # new =>
           EntriesFor(v, r)' = EntriesFor(v, r)
      /\ \A v \in Wallet : \A i \in 1..Len(ledger[v]) : Moved(v, i)' = Moved(v, i)
  <2>1. /\ m = Len(ledger[w])
        /\ Len(ledger'[w]) = m + 1
        /\ ledger'[w][m + 1].for = new
        /\ \A i \in 1..m : ledger'[w][i] = ledger[w][i]
        /\ \A v \in Wallet : v # w => ledger'[v] = ledger[v]
    BY <1>4
  <2>2. ASSUME NEW v \in Wallet, NEW r \in Reference, v = w, r = new
        PROVE  EntriesFor(v, r)' = EntriesFor(v, r) \cup {m + 1}
    <3>1. \A i : i \in 1..(m + 1) <=> i \in 1..m \/ i = m + 1
      OBVIOUS
    <3> QED BY <2>1, <2>2, <3>1 DEF EntriesFor
  <2>3. \A v \in Wallet, r \in Reference : v # w \/ r # new =>
          EntriesFor(v, r)' = EntriesFor(v, r)
    BY <2>1, PostEntries
  <2>4. \A v \in Wallet : \A i \in 1..Len(ledger[v]) : Moved(v, i)' = Moved(v, i)
    BY <2>1, PostEntries
  <2> QED BY <2>2, <2>3, <2>4
<1>6. EntriesFor(w, new) = {}
  <2> SUFFICES ASSUME NEW i \in 1..Len(ledger[w]), ledger[w][i].for = new PROVE FALSE
    BY DEF EntriesFor
  <2>1. ledger[w][i].for # TopUp => ledger[w][i].for[2] <= Len(change[ledger[w][i].for[1]])
    BY DEF EveryChangeIsPaid
  <2>2. n + 1 <= n
    BY <1>1, <1>2, <2>1
  <2> QED BY <2>2
<1>7. Paid(o, n + 1)'
  <2>1. EntriesFor(Owner[o], <<o, n + 1>>)' = {m + 1}
    BY <1>2, <1>4, <1>5, <1>6
  <2>2. Moved(Owner[o], m + 1)' = Due(o, n + 1)'
    BY <1>1, <1>4 DEF Moved
  <2>3. Due(o, n + 1)' # 0
    <3>1. from \in Int /\ to \in Int
      BY OrderMoneyConstants
    <3> QED BY <1>1, <3>1
  <2> QED BY <2>1, <2>2, <2>3 DEF Paid
<1>8. ASSUME NEW u \in Order, NEW k \in 1..Len(change[u]) PROVE Paid(u, k)'
  <2>1. <<u, k>> \in Reference /\ Owner[u] \in Wallet
    BY ChangeIsReference DEF MoneyTypeOK
  <2>2. <<u, k>> # new
    <3>1. u = o => k # n + 1
      BY <1>1
    <3> QED BY <1>2, <3>1
  <2>3. EntriesFor(Owner[u], <<u, k>>)' = EntriesFor(Owner[u], <<u, k>>)
    BY <1>5, <2>1, <2>2
  <2>4. Paid(u, k) /\ Due(u, k)' = Due(u, k)
    BY <1>1 DEF EveryChangeIsPaid
  <2> QED BY <1>5, <2>1, <2>3, <2>4, PaidStays
<1>9. ASSUME NEW u \in Order, NEW k \in 1..Len(change'[u]) PROVE Paid(u, k)'
  <2>1. k \in 1..Len(change[u]) \/ (u = o /\ k = n + 1)
    BY <1>1
  <2> QED BY <1>7, <1>8, <2>1
<1>10. ASSUME NEW v \in Wallet, NEW i \in 1..Len(ledger'[v]), ledger'[v][i].for # TopUp
      PROVE  /\ v = Owner[ledger'[v][i].for[1]]
             /\ ledger'[v][i].for[2] <= Len(change'[ledger'[v][i].for[1]])
  <2>1. CASE v = w /\ i = m + 1
    <3>1. ledger'[v][i].for = new /\ new[1] = o /\ new[2] = n + 1
      BY <1>2, <1>4, <2>1
    <3>2. n + 1 <= Len(change'[o])
      BY <1>1
    <3> QED BY <1>4, <2>1, <3>1, <3>2
  <2>2. CASE i \in 1..Len(ledger[v]) /\ ledger'[v][i] = ledger[v][i]
    <3>1. PICK r : r = ledger[v][i].for
      OBVIOUS
    <3>2. v = Owner[r[1]] /\ r[2] <= Len(change[r[1]])
      BY <1>10, <2>2, <3>1 DEF EveryChangeIsPaid
    <3>3. r \in Change
      <4>1. ledger[v] \in Seq(LedgerEntry)
        BY DEF MoneyTypeOK, LedgerTypeOK
      <4>2. ledger[v][i] \in LedgerEntry
        BY <2>2, <4>1
      <4>3. r \in Reference /\ r # TopUp
        BY <1>10, <2>2, <3>1, <4>2 DEF LedgerEntry
      <4> QED BY <4>3, OrderMoneyConstants
    <3>4. r[1] \in Order /\ r[2] \in Nat
      BY <3>3 DEF Change
    <3>5. Len(change[r[1]]) <= Len(change'[r[1]])
      BY <1>1, <3>4 DEF MoneyTypeOK, RowsOK
    <3>6. Len(change[r[1]]) \in Nat /\ Len(change'[r[1]]) \in Nat
      BY <1>1, <3>4 DEF MoneyTypeOK, RowsOK
    <3>7. r[2] <= Len(change'[r[1]])
      BY <3>2, <3>4, <3>5, <3>6
    <3>8. ledger'[v][i].for = r
      BY <2>2, <3>1
    <3>9. v = Owner[ledger'[v][i].for[1]]
      BY <3>2, <3>8
    <3>10. ledger'[v][i].for[2] <= Len(change'[ledger'[v][i].for[1]])
      BY <3>7, <3>8
    <3> QED BY <3>9, <3>10
  <2>3. (v = w /\ i = m + 1) \/ (i \in 1..Len(ledger[v]) /\ ledger'[v][i] = ledger[v][i])
    <3>1. CASE v = w
      <4>1. i \in 1..m \/ i = m + 1
        BY <1>4, <3>1
      <4> QED BY <1>4, <3>1, <4>1
    <3>2. CASE v # w
      BY <1>4, <3>2
    <3> QED BY <3>1, <3>2
  <2> QED BY <2>1, <2>2, <2>3
<1> QED BY <1>9, <1>10 DEF EveryChangeIsPaid

\* An amendment that leaves the price where it is needs no posting.
LEMMA FreePaid ==
  ASSUME MoneyTypeOK, EveryChangeIsPaid, NEW o \in Order, NEW price \in Price,
         Reprices(o, price, price), ledger' = ledger
  PROVE  EveryChangeIsPaid'
<1>1. PICK n \in Nat :
        /\ n = Len(change[o])
        /\ n + 1 \in 1..MaxChanges
        /\ Len(change'[o]) = n + 1
        /\ Due(o, n + 1)' = price - price
        /\ \A u \in Order : u # o => change'[u] = change[u]
        /\ \A u \in Order : \A k \in 1..Len(change[u]) : Due(u, k)' = Due(u, k)
  BY RepriceAppends DEF MoneyTypeOK
<1>2. \A v, r : EntriesFor(v, r)' = EntriesFor(v, r)
  BY DEF EntriesFor
<1>3. \A v, i : Moved(v, i)' = Moved(v, i)
  BY DEF Moved
<1>4. ASSUME NEW i \in 1..Len(ledger[Owner[o]]), ledger[Owner[o]][i].for = <<o, n + 1>>
      PROVE  FALSE
  <2>1. PICK r \in Change : r = ledger[Owner[o]][i].for /\ r[1] = o /\ r[2] = n + 1
    <3>1. <<o, n + 1>> \in Change /\ <<o, n + 1>>[1] = o /\ <<o, n + 1>>[2] = n + 1
      BY <1>1 DEF Change
    <3> QED BY <1>4, <3>1
  <2>2. r # TopUp /\ Owner[o] \in Wallet
    BY OrderMoneyConstants
  <2>3. r[2] <= Len(change[r[1]])
    BY <2>1, <2>2 DEF EveryChangeIsPaid
  <2> QED BY <1>1, <2>1, <2>3
<1>5. Paid(o, n + 1)'
  <2>1. Due(o, n + 1)' = 0
    BY <1>1, OrderMoneyConstants
  <2>2. EntriesFor(Owner[o], <<o, n + 1>>)' = {}
    <3>1. ledger'[Owner[o]] = ledger[Owner[o]]
      OBVIOUS
    <3>2. \A i \in 1..Len(ledger'[Owner[o]]) : ledger'[Owner[o]][i].for # <<o, n + 1>>
      BY <1>4, <3>1
    <3> QED BY <3>2 DEF EntriesFor
  <2> QED BY <2>1, <2>2 DEF Paid
<1>6. ASSUME NEW u \in Order, NEW k \in 1..Len(change[u]) PROVE Paid(u, k)'
  <2>1. Paid(u, k) /\ Due(u, k)' = Due(u, k)
    BY <1>1 DEF EveryChangeIsPaid
  <2> QED BY <1>2, <1>3, <2>1, PaidStays
<1>7. ASSUME NEW u \in Order, NEW k \in 1..Len(change'[u]) PROVE Paid(u, k)'
  <2>1. k \in 1..Len(change[u]) \/ (u = o /\ k = n + 1)
    BY <1>1
  <2> QED BY <1>5, <1>6, <2>1
<1>8. ASSUME NEW v \in Wallet, NEW i \in 1..Len(ledger[v]), ledger[v][i].for # TopUp
      PROVE  /\ v = Owner[ledger[v][i].for[1]]
             /\ ledger[v][i].for[2] <= Len(change'[ledger[v][i].for[1]])
  <2>1. PICK r : r = ledger[v][i].for
    OBVIOUS
  <2>2. v = Owner[r[1]] /\ r[2] <= Len(change[r[1]])
    BY <1>8, <2>1 DEF EveryChangeIsPaid
  <2>3. ledger[v] \in Seq(LedgerEntry)
    BY DEF MoneyTypeOK, LedgerTypeOK
  <2>4. r \in Change
    <3>1. ledger[v][i] \in LedgerEntry
      BY <2>3
    <3> QED BY <1>8, <2>1, <3>1, OrderMoneyConstants DEF LedgerEntry
  <2>5. r[1] \in Order /\ r[2] \in Nat
    BY <2>4 DEF Change
  <2>6. /\ Len(change[r[1]]) \in Nat /\ Len(change'[r[1]]) \in Nat
        /\ Len(change[r[1]]) <= Len(change'[r[1]])
    <3>1. change \in [Order -> Seq(ChangeRow)]
      BY DEF MoneyTypeOK, RowsOK, ChangeRow
    <3>2. Len(change[r[1]]) \in Nat
      BY <2>5, <3>1
    <3>3. CASE r[1] = o
      BY <1>1, <3>3
    <3>4. CASE r[1] # o
      BY <1>1, <2>5, <3>2, <3>4
    <3> QED BY <3>3, <3>4
  <2>7. r[2] <= Len(change'[r[1]])
    BY <2>2, <2>5, <2>6
  <2> QED BY <2>1, <2>2, <2>7
<1> QED BY <1>7, <1>8 DEF EveryChangeIsPaid

\* Every step keeps the changes paid: placing and amending write a price with
\* its posting, and everything else posts for no order or not at all.
LEMMA PaidStep ==
  MoneyTypeOK /\ EveryChangeIsPaid /\ [MoneyNext]_moneyVars => EveryChangeIsPaid'
<1> SUFFICES ASSUME MoneyTypeOK, LedgerTypeOK, RowsOK, EveryChangeIsPaid, [MoneyNext]_moneyVars
             PROVE  EveryChangeIsPaid'
  BY DEF MoneyTypeOK
<1>1. ASSUME ledger' = ledger, change' = change PROVE EveryChangeIsPaid'
  <2>1. ASSUME NEW o \in Order, NEW n \in 1..Len(change[o]) PROVE Paid(o, n)'
    <3>1. Paid(o, n)
      BY DEF EveryChangeIsPaid
    <3>2. Due(o, n)' = Due(o, n)
      BY <1>1 DEF Due
    <3>3. EntriesFor(Owner[o], <<o, n>>)' = EntriesFor(Owner[o], <<o, n>>)
      BY <1>1 DEF EntriesFor
    <3>4. \A i \in 1..Len(ledger[Owner[o]]) : Moved(Owner[o], i)' = Moved(Owner[o], i)
      BY <1>1 DEF Moved
    <3> QED BY <3>1, <3>2, <3>3, <3>4, PaidStays
  <2>2. ASSUME NEW w \in Wallet, NEW i \in 1..Len(ledger[w]), ledger[w][i].for # TopUp
        PROVE  /\ w = Owner[ledger[w][i].for[1]]
               /\ ledger[w][i].for[2] <= Len(change[ledger[w][i].for[1]])
    BY <2>2 DEF EveryChangeIsPaid
  <2> QED BY <1>1, <2>1, <2>2 DEF EveryChangeIsPaid
<1>2. ASSUME NEW o \in Order, Close(o) PROVE EveryChangeIsPaid'
  BY <1>1, <1>2 DEF Close, ledgerVars
<1>3. ASSUME NEW c \in Client,
             \/ \E w \in Wallet, price \in Price : PlanOrder(c, w, price)
             \/ \E o \in Order, price \in Price : PlanAmendment(c, o, price)
             \/ LockForPlan(c) \/ Read(c) \/ Fail(c)
             \/ \E w \in Wallet : LockForTopUp(c, w)
      PROVE  EveryChangeIsPaid'
  BY <1>1, <1>3 DEF PlanOrder, PlanAmendment, LockForPlan, LockWallet, Read, ReadWallet, Fail,
                    LockForTopUp, orderVars, ledgerVars
<1>4. ASSUME NEW c \in Client, NEW o \in Order, CommitOrder(c, o) PROVE EveryChangeIsPaid'
  <2>1. plan[c].to \in Price /\ plan[c].to \in Amount /\ plan[c].to \in Nat \ {0}
    BY <1>4, PlanKinds, DifferenceIsAmount DEF CommitOrder
  <2>2. PICK after \in Nat :
          Post(c, Entry(o), after) /\ session[c].seen - after = plan[c].to
    BY <1>4, <2>1, DebitPosts DEF CommitOrder
  <2>3. /\ session[c].phase = "read" /\ session[c].wallet = Owner[o]
        /\ Reprices(o, 0, plan[c].to)
    BY <1>4 DEF CommitOrder, Serves
  <2>4. session[c].seen - after = plan[c].to - 0 /\ plan[c].to # 0
    BY <2>1, <2>2
  <2> QED BY <2>1, <2>2, <2>3, <2>4, RepricePaid
<1>5. ASSUME NEW c \in Client, CommitAmendment(c) PROVE EveryChangeIsPaid'
  <2>1. PICK o \in Order, from \in Price, to \in Price :
          o = plan[c].order /\ from = plan[c].from /\ to = plan[c].to
    BY <1>5, PlanKinds DEF CommitAmendment
  <2>2. from \in Nat /\ to \in Nat
    BY DifferenceIsAmount
  <2>3. /\ session[c].phase = "read" /\ session[c].wallet = Owner[o]
        /\ Reprices(o, from, to)
    BY <1>5, <2>1 DEF CommitAmendment, Serves
  <2>4. \E after \in Nat : Post(c, Entry(o), after) /\ session[c].seen - after = to - from
    <3>1. CASE to > from /\ DebitWallet(c, Entry(o), to - from)
      <4>1. to - from \in Amount
        BY <3>1, DifferenceIsAmount
      <4> QED BY <3>1, <4>1, DebitPosts
    <3>2. CASE to < from /\ CreditWallet(c, Entry(o), from - to)
      <4>1. from - to \in Amount /\ 0 - (from - to) = to - from
        BY <2>2, <3>2, DifferenceIsAmount
      <4> QED BY <3>2, <4>1, CreditPosts
    <3> QED BY <1>5, <2>1, <3>1, <3>2 DEF CommitAmendment
  <2>5. to # from
    BY <1>5, <2>1, <2>2 DEF CommitAmendment
  <2>6. PICK after \in Nat : Post(c, Entry(o), after) /\ session[c].seen - after = to - from
    BY <2>4
  <2> QED BY <2>3, <2>5, <2>6, RepricePaid
<1>6. ASSUME NEW c \in Client, CommitFreeAmendment(c) PROVE EveryChangeIsPaid'
  BY <1>6, PlanKinds, FreePaid DEF CommitFreeAmendment, ledgerVars
<1>7. ASSUME NEW c \in Client, NEW amount \in TopUps, CommitTopUp(c, amount)
      PROVE  EveryChangeIsPaid'
  <2>1. amount \in Amount /\ CreditWallet(c, TopUp, amount) /\ change' = change
    BY <1>7, OrderMoneyConstants DEF CommitTopUp, orderVars
  <2>2. session[c].phase = "read"
    BY <2>1 DEF CreditWallet
  <2>3. PICK after \in Nat : Post(c, TopUp, after)
    BY <2>1, CreditPosts
  <2> QED BY <2>1, <2>2, <2>3, TopUpPaid
<1>8. CASE UNCHANGED moneyVars
  BY <1>1, <1>8 DEF moneyVars, orderVars, ledgerVars
<1> QED BY <1>2, <1>3, <1>4, <1>5, <1>6, <1>7, <1>8 DEF MoneyNext

(***************************************************************************)
(* The sums of the model: what a running total is, for any terms.          *)
(***************************************************************************)

\* Induction on a set of numbers.
LEMMA FromZeroOn ==
  ASSUME NEW S, 0 \in S, \A n \in Nat : n \in S => n + 1 \in S
  PROVE  Nat \subseteq S
<1> DEFINE Earlier == {ss \in Nat \X Nat : ss[1] < ss[2]}
           Missed == Nat \ S
<1> SUFFICES ASSUME Missed # {} PROVE FALSE
  OBVIOUS
<1>1. IsWellFoundedOn(Earlier, Nat)
  BY NatLessThanWellFounded DEF OpToRel
<1>2. \A m, n \in Nat : m < n => <<m, n>> \in Earlier
  OBVIOUS
<1> HIDE DEF Earlier
<1>3. PICK n \in Missed : \A m \in Missed : <<m, n>> \notin Earlier
  <2>1. Missed \subseteq Nat
    OBVIOUS
  <2> HIDE DEF Missed
  <2> QED BY <1>1, <2>1, WFMin
<1>4. n \in Nat \ {0}
  OBVIOUS
<1>5. n - 1 \in Nat /\ n - 1 < n /\ (n - 1) + 1 = n
  BY <1>4
<1>6. n - 1 \notin Missed
  BY <1>2, <1>3, <1>5
<1> QED BY <1>3, <1>5, <1>6

\* sum holds the sums of the first terms, up to n of them.
Sums(sum, term, n) ==
  /\ sum \in [0..n -> Int]
  /\ sum[0] = 0
  /\ \A k \in 1..n : sum[k] = sum[k - 1] + term[k]

LEMMA SumsExist ==
  ASSUME NEW term, NEW n \in Nat, \A k \in 1..n : term[k] \in Int
  PROVE  \E sum : Sums(sum, term, n)
<1> DEFINE S == {k \in Nat : k <= n => \E sum : Sums(sum, term, k)}
<1>1. 0 \in S
  <2>1. Sums([k \in 0..0 |-> 0], term, 0)
    BY DEF Sums
  <2> QED BY <2>1
<1>2. ASSUME NEW k \in Nat, k \in S PROVE k + 1 \in S
  <2> SUFFICES ASSUME k + 1 <= n PROVE \E sum : Sums(sum, term, k + 1)
    OBVIOUS
  <2>1. PICK sum : Sums(sum, term, k)
    BY <1>2
  <2> DEFINE more == [i \in 0..(k + 1) |-> IF i = k + 1 THEN sum[k] + term[k + 1] ELSE sum[i]]
  <2>2. sum[k] \in Int /\ term[k + 1] \in Int
    BY <2>1 DEF Sums
  <2>3. more \in [0..(k + 1) -> Int]
    BY <2>1, <2>2 DEF Sums
  <2>4. more[0] = 0
    BY <2>1 DEF Sums
  <2>5. ASSUME NEW i \in 1..(k + 1) PROVE more[i] = more[i - 1] + term[i]
    <3>1. CASE i = k + 1
      BY <3>1
    <3>2. CASE i \in 1..k
      <4>1. sum[i] = sum[i - 1] + term[i]
        BY <2>1, <3>2 DEF Sums
      <4> QED BY <3>2, <4>1
    <3> QED BY <3>1, <3>2
  <2>6. Sums(more, term, k + 1)
    <3> HIDE DEF more
    <3> QED BY <2>3, <2>4, <2>5 DEF Sums
  <2> QED BY <2>6
<1> HIDE DEF S
<1>3. Nat \subseteq S
  BY <1>1, <1>2, FromZeroOn
<1> QED BY <1>3 DEF S

\* A running total is the last of such sums: the recursive function of its
\* definition exists, and is the only one.
LEMMA RunningTotalIs ==
  ASSUME NEW term, NEW n \in Nat, NEW sum, Sums(sum, term, n)
  PROVE  RunningTotal(term, n) = sum[n]
<1> DEFINE Def(f) == [k \in 0..n |-> IF k = 0 THEN 0 ELSE f[k - 1] + term[k]]
           f0 == CHOOSE f : f = Def(f)
<1>1. sum = Def(sum)
  <2>1. \A k \in 0..n : sum[k] = Def(sum)[k]
    BY DEF Sums
  <2> QED BY <2>1 DEF Sums
<1>2. f0 = Def(f0)
  BY <1>1
<1>3. RunningTotal(term, n) = f0[n]
  BY DEF RunningTotal
<1> HIDE DEF f0
<1> DEFINE S == {k \in Nat : k <= n => f0[k] = sum[k]}
<1>4. 0 \in S
  BY <1>2 DEF Sums
<1>5. ASSUME NEW k \in Nat, k \in S PROVE k + 1 \in S
  BY <1>2, <1>5 DEF Sums
<1> HIDE DEF S
<1>6. Nat \subseteq S
  BY <1>4, <1>5, FromZeroOn
<1> QED BY <1>3, <1>6 DEF S

\* One term more.
LEMMA RunningTotalGrows ==
  ASSUME NEW n \in Nat, NEW term, NEW more,
         \A k \in 1..n : term[k] \in Int /\ more[k] = term[k], more[n + 1] \in Int
  PROVE  /\ RunningTotal(more, n + 1) = RunningTotal(term, n) + more[n + 1]
         /\ RunningTotal(term, n) \in Int
<1>1. \A k \in 1..(n + 1) : more[k] \in Int
  OBVIOUS
<1>2. PICK sum : Sums(sum, more, n + 1)
  <2>1. n + 1 \in Nat
    OBVIOUS
  <2> QED BY <1>1, <2>1, SumsExist
<1> DEFINE less == [k \in 0..n |-> sum[k]]
<1>3. Sums(less, term, n)
  <2>1. less \in [0..n -> Int] /\ less[0] = 0
    BY <1>2 DEF Sums
  <2>2. ASSUME NEW k \in 1..n PROVE less[k] = less[k - 1] + term[k]
    BY <1>2 DEF Sums
  <2> HIDE DEF less
  <2> QED BY <2>1, <2>2 DEF Sums
<1>4. RunningTotal(term, n) = sum[n] /\ RunningTotal(more, n + 1) = sum[n + 1]
  BY <1>2, <1>3, RunningTotalIs
<1> QED BY <1>2, <1>4 DEF Sums

\* The sum of no terms.
LEMMA NothingInTotal ==
  ASSUME NEW term
  PROVE  RunningTotal(term, 0) = 0
<1>1. Sums([k \in 0..0 |-> 0], term, 0)
  BY DEF Sums
<1> QED BY <1>1, RunningTotalIs

(***************************************************************************)
(* What an order was charged in all.                                       *)
(***************************************************************************)

\* The total of an order is its last price.
LastPrice == \A o \in Order : change[o] # <<>> => total[o] = change[o][Len(change[o])].to

\* Only an order that was placed is amended.
AmendsPlaced == \A c \in Client : plan[c].step = "amend" => total[plan[c].order] # 0

LEMMA TakenIsNumber ==
  ASSUME LedgerTypeOK, NEW o \in Order, NEW i \in 1..Len(ledger[Owner[o]])
  PROVE  Taken(o, i) \in Int
<1>1. ledger[Owner[o]] \in Seq(LedgerEntry)
  BY OrderMoneyConstants DEF LedgerTypeOK
<1>2. ledger[Owner[o]][i] \in LedgerEntry
  BY <1>1
<1>3. Moved(Owner[o], i) \in Int
  BY <1>2 DEF Moved, LedgerEntry
<1> QED BY <1>3 DEF Taken

LEMMA ChargedStays ==
  ASSUME NEW o \in Order, ledger'[Owner[o]] = ledger[Owner[o]]
  PROVE  Charged(o)' = Charged(o)
BY DEF Charged, Taken, Moved

\* The sum of what was taken for an order, and one entry more.
LEMMA TakenAdds ==
  ASSUME NEW o, NEW n \in Nat, NEW taken \in Int, Taken(o, n + 1)' = taken,
         \A k \in 1..n : Taken(o, k)' = Taken(o, k) /\ Taken(o, k) \in Int
  PROVE  /\ RunningTotal([i \in 1..(n + 1) |-> Taken(o, i)'], n + 1)
              = RunningTotal([i \in 1..n |-> Taken(o, i)], n) + taken
         /\ RunningTotal([i \in 1..n |-> Taken(o, i)], n) \in Int
<1> DEFINE term == [i \in 1..n |-> Taken(o, i)]
           more == [i \in 1..(n + 1) |-> Taken(o, i)']
<1>1. \A k \in 1..n : term[k] \in Int /\ more[k] = term[k]
  OBVIOUS
<1>2. more[n + 1] = taken
  OBVIOUS
<1> HIDE DEF term, more
<1>3. RunningTotal(more, n + 1) = RunningTotal(term, n) + taken /\ RunningTotal(term, n) \in Int
  BY <1>1, <1>2, RunningTotalGrows
<1> QED BY <1>3 DEF term, more

\* A posting charges an order what it takes for it.
LEMMA ChargedGrows ==
  ASSUME LedgerTypeOK, NEW o \in Order, NEW w, w = Owner[o], NEW n \in Nat, n = Len(ledger[w]),
         Len(ledger'[w]) = n + 1, \A i \in 1..n : ledger'[w][i] = ledger[w][i],
         NEW taken \in Int, Taken(o, n + 1)' = taken
  PROVE  Charged(o)' = Charged(o) + taken /\ Charged(o) \in Int
<1>1. \A k \in 1..n : Taken(o, k)' = Taken(o, k) /\ Taken(o, k) \in Int
  BY TakenIsNumber DEF Taken, Moved
<1>2. /\ Charged(o) = RunningTotal([i \in 1..n |-> Taken(o, i)], n)
      /\ Charged(o)' = RunningTotal([i \in 1..(n + 1) |-> Taken(o, i)'], n + 1)
  BY DEF Charged
<1>3. /\ RunningTotal([i \in 1..(n + 1) |-> Taken(o, i)'], n + 1)
           = RunningTotal([i \in 1..n |-> Taken(o, i)], n) + taken
      /\ RunningTotal([i \in 1..n |-> Taken(o, i)], n) \in Int
  BY <1>1, TakenAdds, Zenon
<1> QED BY <1>2, <1>3

\* An amendment in turn replaces the total of its order.
LEMMA InTurnReplacesTotal ==
  ASSUME RowsOK, LastPrice, NEW o \in Order, NEW from \in Price \cup {0}, NEW to \in Price,
         Reprices(o, from, to), total[o] = 0 <=> from = 0, total' = [total EXCEPT ![o] = to]
  PROVE  /\ AmendedInTurn(o)' => AmendedInTurn(o) /\ total[o] = from
         /\ \A u \in Order : u # o => AmendedInTurn(u)' = AmendedInTurn(u)
         /\ LastPrice'
<1> DEFINE row == [from |-> from, to |-> to]
<1>1. change \in [Order -> Seq(ChangeRow)] /\ row \in ChangeRow
  BY DEF RowsOK, ChangeRow
<1>2. row.from = from /\ row.to = to
  OBVIOUS
<1>3. change' = [change EXCEPT ![o] = Append(change[o], row)]
  BY DEF Reprices
<1> HIDE DEF row
<1>4. PICK n \in Nat : n = Len(change[o])
  BY <1>1
<1>5. /\ Len(change'[o]) = n + 1
      /\ change'[o][n + 1] = row
      /\ \A k \in 1..n : change'[o][k] = change[o][k]
      /\ \A u \in Order : u # o => change'[u] = change[u]
  BY <1>1, <1>3, <1>4
<1>6. ASSUME AmendedInTurn(o)' PROVE AmendedInTurn(o) /\ total[o] = from
  <2>1. \A k \in 2..(n + 1) : change'[o][k].from = change'[o][k - 1].to
    BY <1>5, <1>6 DEF AmendedInTurn
  <2>2. ASSUME NEW k \in 2..n PROVE change[o][k].from = change[o][k - 1].to
    <3>1. k \in 2..(n + 1) /\ k \in 1..n /\ k - 1 \in 1..n
      OBVIOUS
    <3> QED BY <1>5, <2>1, <3>1
  <2>3. CASE n = 0
    <3>1. change[o] = <<>>
      <4>1. PICK s \in Seq(ChangeRow) : s = change[o]
        BY <1>1
      <4> QED BY <1>4, <2>3, <4>1, EmptySeq
    <3> QED BY <1>4, <2>2, <3>1 DEF RowsOK, AmendedInTurn
  <2>4. CASE n # 0
    <3>1. n + 1 \in 2..(n + 1) /\ (n + 1) - 1 = n /\ n \in 1..n
      BY <2>4
    <3>2. from = change[o][n].to
      BY <1>2, <1>5, <2>1, <3>1
    <3>3. change[o] # <<>>
      BY <1>4, <2>4
    <3> QED BY <1>4, <2>2, <3>2, <3>3 DEF LastPrice, AmendedInTurn
  <2> QED BY <2>3, <2>4
<1>7. \A u \in Order : u # o => AmendedInTurn(u)' = AmendedInTurn(u)
  BY <1>5 DEF AmendedInTurn
<1>8. LastPrice'
  <2> SUFFICES ASSUME NEW u \in Order, change'[u] # <<>>
               PROVE  total'[u] = change'[u][Len(change'[u])].to
    BY DEF LastPrice
  <2>1. CASE u = o
    BY <1>2, <1>5, <2>1 DEF RowsOK
  <2>2. CASE u # o
    BY <1>5, <2>2 DEF RowsOK, LastPrice
  <2> QED BY <2>1, <2>2
<1> QED BY <1>6, <1>7, <1>8

\* A price that is written with its posting is charged.
LEMMA RepriceCharged ==
  ASSUME MoneyTypeOK, LastPrice, TotalIsCharged, NEW c \in Client, NEW o \in Order,
         session[c].phase = "read", session[c].wallet = Owner[o],
         NEW from \in Price \cup {0}, NEW to \in Price, Reprices(o, from, to),
         total[o] = 0 <=> from = 0, total' = [total EXCEPT ![o] = to],
         NEW after \in Nat, Post(c, Entry(o), after), session[c].seen - after = to - from
  PROVE  LastPrice' /\ TotalIsCharged'
<1>1. LedgerTypeOK /\ RowsOK /\ from \in Int /\ to \in Int
  BY OrderMoneyConstants DEF MoneyTypeOK
<1>2. /\ AmendedInTurn(o)' => AmendedInTurn(o) /\ total[o] = from
      /\ \A u \in Order : u # o => AmendedInTurn(u)' = AmendedInTurn(u)
      /\ LastPrice'
  BY <1>1, InTurnReplacesTotal
<1>3. PICK new \in Reference : new = Entry(o) /\ new # TopUp /\ new[1] = o
  BY <1>1, EntryIsReference, OrderMoneyConstants DEF Reprices, Entry
<1>4. Post(c, new, after)
  BY <1>3
<1>5. PICK w \in Wallet, n \in Nat :
        /\ w = session[c].wallet
        /\ n = Len(ledger[w])
        /\ Len(ledger'[w]) = n + 1
        /\ ledger'[w][n + 1].for = new
        /\ ledger'[w][n + 1].before - ledger'[w][n + 1].after = session[c].seen - after
        /\ \A i \in 1..n : ledger'[w][i] = ledger[w][i]
        /\ \A v \in Wallet : v # w => ledger'[v] = ledger[v]
  <2> HIDE <1>2, <1>3
  <2> QED BY <1>1, <1>4, PostAppends
<1>6. ASSUME NEW u \in Order, AmendedInTurn(u)' PROVE Charged(u)' = total'[u]
  <2>1. CASE u = o
    <3>1. Taken(o, n + 1)' = to - from /\ to - from \in Int
      BY <1>1, <1>3, <1>5 DEF Taken, Moved
    <3>2. Charged(o)' = Charged(o) + (to - from) /\ Charged(o) \in Int
      BY <1>1, <1>5, <3>1, ChargedGrows
    <3>3. Charged(o) = from
      BY <1>2, <1>6, <2>1 DEF TotalIsCharged
    <3>4. total'[o] = to
      BY <1>1 DEF RowsOK
    <3> QED BY <1>1, <2>1, <3>2, <3>3, <3>4
  <2>2. CASE u # o
    <3>1. Charged(u) = total[u] /\ total'[u] = total[u]
      BY <1>1, <1>2, <1>6, <2>2 DEF TotalIsCharged, RowsOK
    <3>2. CASE Owner[u] # w
      <4>1. ledger'[Owner[u]] = ledger[Owner[u]]
        BY <1>5, <3>2, OrderMoneyConstants
      <4> QED BY <3>1, <4>1, ChargedStays
    <3>3. CASE Owner[u] = w
      <4>1. Taken(u, n + 1)' = 0
        BY <1>3, <1>5, <2>2, <3>3 DEF Taken
      <4>2. PICK taken \in Int : taken = 0
        OBVIOUS
      <4>3. Charged(u)' = Charged(u) + taken /\ Charged(u) \in Int
        BY <1>1, <1>5, <3>3, <4>1, <4>2, ChargedGrows
      <4> QED BY <3>1, <4>2, <4>3
    <3> QED BY <3>2, <3>3
  <2> QED BY <2>1, <2>2
<1> QED BY <1>2, <1>6 DEF TotalIsCharged

\* A top-up charges no order.
LEMMA TopUpCharged ==
  ASSUME MoneyTypeOK, LastPrice, TotalIsCharged, NEW c \in Client, session[c].phase = "read",
         NEW after \in Nat, Post(c, TopUp, after), UNCHANGED orderVars
  PROVE  LastPrice' /\ TotalIsCharged'
<1>1. LedgerTypeOK /\ TopUp \in Reference
  BY OrderMoneyConstants DEF MoneyTypeOK
<1>2. PICK w \in Wallet, n \in Nat :
        /\ n = Len(ledger[w])
        /\ Len(ledger'[w]) = n + 1
        /\ ledger'[w][n + 1].for = TopUp
        /\ \A i \in 1..n : ledger'[w][i] = ledger[w][i]
        /\ \A v \in Wallet : v # w => ledger'[v] = ledger[v]
  BY <1>1, PostAppends
<1>3. ASSUME NEW u \in Order PROVE Charged(u)' = Charged(u)
  <2>1. CASE Owner[u] # w
    <3>1. ledger'[Owner[u]] = ledger[Owner[u]]
      BY <1>2, <2>1, OrderMoneyConstants
    <3> QED BY <3>1, ChargedStays
  <2>2. CASE Owner[u] = w
    <3>1. Taken(u, n + 1)' = 0
      BY <1>2, <2>2 DEF Taken
    <3>2. PICK taken \in Int : taken = 0
      OBVIOUS
    <3>3. Charged(u)' = Charged(u) + taken /\ Charged(u) \in Int
      BY <1>1, <1>2, <2>2, <3>1, <3>2, ChargedGrows
    <3> QED BY <3>2, <3>3
  <2> QED BY <2>1, <2>2
<1>4. change' = change /\ total' = total
  BY DEF orderVars
<1> QED BY <1>3, <1>4 DEF LastPrice, TotalIsCharged, AmendedInTurn

\* Every step keeps the totals charged: a price is written with its posting,
\* from the total that the amendment before it left, if they come in turn.
LEMMA ChargedStep ==
  ASSUME MoneyTypeOK, LastPrice, AmendsPlaced, TotalIsCharged, [MoneyNext]_moneyVars
  PROVE  LastPrice' /\ TotalIsCharged'
<1>1. LedgerTypeOK /\ RowsOK
  BY DEF MoneyTypeOK
<1>2. ASSUME ledger' = ledger, change' = change, total' = total PROVE LastPrice' /\ TotalIsCharged'
  <2>1. \A o \in Order : Charged(o)' = Charged(o)
    BY <1>2, ChargedStays
  <2> QED BY <1>2, <2>1 DEF LastPrice, TotalIsCharged, AmendedInTurn
<1>3. ASSUME NEW o \in Order, Close(o) PROVE LastPrice' /\ TotalIsCharged'
  BY <1>2, <1>3 DEF Close, ledgerVars
<1>4. ASSUME NEW c \in Client,
             \/ \E w \in Wallet, price \in Price : PlanOrder(c, w, price)
             \/ \E o \in Order, price \in Price : PlanAmendment(c, o, price)
             \/ LockForPlan(c) \/ Read(c) \/ Fail(c)
             \/ \E w \in Wallet : LockForTopUp(c, w)
      PROVE  LastPrice' /\ TotalIsCharged'
  BY <1>2, <1>4 DEF PlanOrder, PlanAmendment, LockForPlan, LockWallet, Read, ReadWallet, Fail,
                    LockForTopUp, orderVars, ledgerVars
<1>5. ASSUME NEW c \in Client, NEW o \in Order, CommitOrder(c, o)
      PROVE  LastPrice' /\ TotalIsCharged'
  <2>1. PICK to \in Price : to = plan[c].to /\ to \in Amount
    BY <1>1, <1>5, PlanKinds, DifferenceIsAmount DEF CommitOrder
  <2>2. PICK after \in Nat : Post(c, Entry(o), after) /\ session[c].seen - after = to
    BY <1>1, <1>5, <2>1, DebitPosts DEF CommitOrder
  <2>3. /\ session[c].phase = "read" /\ session[c].wallet = Owner[o]
        /\ Reprices(o, 0, to) /\ total[o] = 0 /\ total' = [total EXCEPT ![o] = to]
    BY <1>5, <2>1 DEF CommitOrder, Serves
  <2>4. PICK from \in Price \cup {0} : from = 0
    OBVIOUS
  <2>5. session[c].seen - after = to - from
    <3>1. to \in Nat
      BY DifferenceIsAmount
    <3> QED BY <2>2, <2>4, <3>1
  <2>6. Reprices(o, from, to) /\ (total[o] = 0 <=> from = 0)
    BY <2>3, <2>4
  <2> QED BY <2>2, <2>3, <2>5, <2>6, RepriceCharged
<1>6. ASSUME NEW c \in Client, CommitAmendment(c) PROVE LastPrice' /\ TotalIsCharged'
  <2>1. PICK o \in Order, from \in Price, to \in Price :
          o = plan[c].order /\ from = plan[c].from /\ to = plan[c].to
    BY <1>1, <1>6, PlanKinds DEF CommitAmendment
  <2>2. from \in Nat \ {0} /\ to \in Nat /\ total[o] # 0
    BY <1>6, <2>1, DifferenceIsAmount DEF CommitAmendment, AmendsPlaced
  <2>3. /\ session[c].phase = "read" /\ session[c].wallet = Owner[o]
        /\ Reprices(o, from, to) /\ total' = [total EXCEPT ![o] = to]
    BY <1>6, <2>1 DEF CommitAmendment, Serves
  <2>4. \E after \in Nat : Post(c, Entry(o), after) /\ session[c].seen - after = to - from
    <3>1. CASE to > from /\ DebitWallet(c, Entry(o), to - from)
      <4>1. to - from \in Amount
        BY <3>1, DifferenceIsAmount
      <4> QED BY <1>1, <3>1, <4>1, DebitPosts
    <3>2. CASE to < from /\ CreditWallet(c, Entry(o), from - to)
      <4>1. from - to \in Amount /\ 0 - (from - to) = to - from
        BY <2>2, <3>2, DifferenceIsAmount
      <4> QED BY <1>1, <3>2, <4>1, CreditPosts
    <3> QED BY <1>6, <2>1, <3>1, <3>2 DEF CommitAmendment
  <2>5. PICK after \in Nat : Post(c, Entry(o), after) /\ session[c].seen - after = to - from
    BY <2>4
  <2> QED BY <2>2, <2>3, <2>5, RepriceCharged
<1>7. ASSUME NEW c \in Client, CommitFreeAmendment(c) PROVE LastPrice' /\ TotalIsCharged'
  <2>1. PICK o \in Order, price \in Price :
          /\ o = plan[c].order /\ Reprices(o, price, price)
          /\ total' = [total EXCEPT ![o] = price] /\ ledger' = ledger
    BY <1>1, <1>7, PlanKinds DEF CommitFreeAmendment, ledgerVars
  <2>2. total[o] # 0 /\ price # 0
    BY <1>7, <2>1, DifferenceIsAmount DEF CommitFreeAmendment, AmendsPlaced
  <2>3. /\ AmendedInTurn(o)' => AmendedInTurn(o) /\ total[o] = price
        /\ \A u \in Order : u # o => AmendedInTurn(u)' = AmendedInTurn(u)
        /\ LastPrice'
    BY <1>1, <2>1, <2>2, InTurnReplacesTotal
  <2>4. \A u \in Order : Charged(u)' = Charged(u)
    BY <2>1, ChargedStays
  <2>5. \A u \in Order : total'[u] = IF u = o THEN price ELSE total[u]
    BY <1>1, <2>1 DEF RowsOK
  <2> QED BY <2>3, <2>4, <2>5 DEF TotalIsCharged
<1>8. ASSUME NEW c \in Client, NEW amount \in TopUps, CommitTopUp(c, amount)
      PROVE  LastPrice' /\ TotalIsCharged'
  <2>1. amount \in Amount /\ CreditWallet(c, TopUp, amount) /\ UNCHANGED orderVars
    BY <1>8, OrderMoneyConstants DEF CommitTopUp
  <2>2. session[c].phase = "read"
    BY <2>1 DEF CreditWallet
  <2>3. PICK after \in Nat : Post(c, TopUp, after)
    BY <1>1, <2>1, CreditPosts
  <2> QED BY <2>1, <2>2, <2>3, TopUpCharged
<1>9. CASE UNCHANGED moneyVars
  BY <1>2, <1>9 DEF moneyVars, orderVars, ledgerVars
<1> QED BY <1>3, <1>4, <1>5, <1>6, <1>7, <1>8, <1>9 DEF MoneyNext

\* An order that was placed keeps a price.
LEMMA PlacedStep ==
  ASSUME RowsOK, AmendsPlaced, [MoneyNext]_moneyVars
  PROVE  AmendsPlaced'
<1>1. plan \in [Client -> Plan] /\ total \in [Order -> Price \cup {0}]
  BY DEF RowsOK
<1>2. ASSUME NEW o \in Order, NEW price \in Price, total' = [total EXCEPT ![o] = price],
             NEW c \in Client, Plans(c, NoPlan)
      PROVE  AmendsPlaced'
  <2> SUFFICES ASSUME NEW d \in Client, plan'[d].step = "amend" PROVE total'[plan'[d].order] # 0
    BY DEF AmendsPlaced
  <2>1. d # c /\ plan'[d] = plan[d]
    BY <1>1, <1>2 DEF Plans, NoPlan
  <2>2. plan[d].order \in Order /\ total[plan[d].order] # 0
    BY <2>1, PlanKinds DEF AmendsPlaced
  <2>3. price # 0
    BY DifferenceIsAmount
  <2> QED BY <1>1, <1>2, <2>1, <2>2, <2>3
<1>3. ASSUME total' = total, NEW c \in Client, NEW k, Plans(c, k),
             k.step = "amend" => total[k.order] # 0
      PROVE  AmendsPlaced'
  BY <1>1, <1>3 DEF Plans, AmendsPlaced
<1>4. ASSUME total' = total, plan' = plan PROVE AmendsPlaced'
  BY <1>4 DEF AmendsPlaced
<1>5. ASSUME NEW c \in Client,
             (\E o \in Order : CommitOrder(c, o)) \/ CommitAmendment(c) \/ CommitFreeAmendment(c)
      PROVE  AmendsPlaced'
  BY <1>2, <1>5, PlanKinds DEF CommitOrder, CommitAmendment, CommitFreeAmendment
<1>6. ASSUME NEW c \in Client, NEW w \in Wallet, NEW price \in Price, PlanOrder(c, w, price)
      PROVE  AmendsPlaced'
  BY <1>3, <1>6 DEF PlanOrder, orderVars
<1>7. ASSUME NEW c \in Client, NEW o \in Order, NEW price \in Price, PlanAmendment(c, o, price)
      PROVE  AmendsPlaced'
  BY <1>3, <1>7 DEF PlanAmendment, orderVars
<1>8. ASSUME NEW c \in Client, Fail(c) PROVE AmendsPlaced'
  BY <1>3, <1>8 DEF Fail, orderVars, NoPlan
<1>9. ASSUME NEW c \in Client,
             \/ LockForPlan(c) \/ Read(c)
             \/ \E w \in Wallet : LockForTopUp(c, w)
             \/ \E amount \in TopUps : CommitTopUp(c, amount)
      PROVE  AmendsPlaced'
  BY <1>4, <1>9 DEF LockForPlan, Read, LockForTopUp, CommitTopUp, orderVars
<1>10. ASSUME NEW o \in Order, Close(o) PROVE AmendsPlaced'
  BY <1>4, <1>10 DEF Close
<1>11. CASE UNCHANGED moneyVars
  BY <1>4, <1>11 DEF moneyVars, orderVars
<1> QED BY <1>5, <1>6, <1>7, <1>8, <1>9, <1>10, <1>11 DEF MoneyNext

\* What holds together: the ledger's own invariant gives the types of the
\* wallets and the sessions, on which the rest stands.
MoneyInvariant == LedgerInvariant /\ RowsOK /\ EveryChangeIsPaid

LEMMA MoneyInitInvariant == MoneyInit => MoneyInvariant
<1> SUFFICES ASSUME MoneyInit PROVE MoneyInvariant
  OBVIOUS
<1>1. LedgerInvariant
  BY LedgerInitInvariant DEF MoneyInit
<1>2. RowsOK
  BY OrderMoneyConstants DEF MoneyInit, RowsOK, Plan
<1>3. EveryChangeIsPaid
  BY DEF MoneyInit, LedgerInit, EveryChangeIsPaid
<1> QED BY <1>1, <1>2, <1>3 DEF MoneyInvariant

LEMMA MoneyNextInvariant == MoneyInvariant /\ [MoneyNext]_moneyVars => MoneyInvariant'
<1> SUFFICES ASSUME MoneyInvariant, [MoneyNext]_moneyVars PROVE MoneyInvariant'
  OBVIOUS
<1>1. MoneyTypeOK
  BY DEF MoneyInvariant, LedgerInvariant, MoneyTypeOK
<1>2. LedgerInvariant'
  BY <1>1, LedgerStep, LedgerNextInvariant DEF MoneyInvariant
<1>3. RowsOK'
  BY RowsStep DEF MoneyInvariant
<1>4. EveryChangeIsPaid'
  BY <1>1, PaidStep DEF MoneyInvariant
<1> QED BY <1>2, <1>3, <1>4 DEF MoneyInvariant

THEOREM MoneyInvariantHolds == MoneySpec => []MoneyInvariant
BY MoneyInitInvariant, MoneyNextInvariant, PTL DEF MoneySpec

\* Balances are never negative, and an order has a total once it has a price.
THEOREM MoneyTypeCorrect == MoneySpec => []MoneyTypeOK
<1>1. MoneyInvariant => MoneyTypeOK
  BY DEF MoneyInvariant, LedgerInvariant, MoneyTypeOK
<1> QED BY <1>1, MoneyInvariantHolds, PTL

\* A wallet moves exactly by what the prices of its orders change, once for
\* each change, whatever placements, amendments and top-ups overlap.
THEOREM ChangesArePaid == MoneySpec => []EveryChangeIsPaid
<1>1. MoneyInvariant => EveryChangeIsPaid
  BY DEF MoneyInvariant
<1> QED BY <1>1, MoneyInvariantHolds, PTL

\* An order costs what its vendor was charged for it in all, however its
\* amendments, those of other orders and top-ups overlap, as long as no two
\* amendments of it replace the same total.
THEOREM OrdersCostWhatWasCharged == MoneySpec => []TotalIsCharged
<1> DEFINE Charges == LastPrice /\ AmendsPlaced /\ TotalIsCharged
<1>1. MoneyInit => Charges
  <2> SUFFICES ASSUME MoneyInit PROVE Charges
    OBVIOUS
  <2>1. ASSUME NEW o \in Order PROVE Charged(o) = 0
    <3>1. Len(ledger[Owner[o]]) = 0
      BY OrderMoneyConstants DEF MoneyInit, LedgerInit
    <3> QED BY <3>1, NothingInTotal DEF Charged
  <2> QED BY <2>1 DEF MoneyInit, LastPrice, AmendsPlaced, TotalIsCharged, NoPlan
<1>2. MoneyInvariant /\ Charges /\ [MoneyNext]_moneyVars => Charges'
  <2>1. MoneyInvariant => MoneyTypeOK /\ RowsOK
    BY DEF MoneyInvariant, LedgerInvariant, MoneyTypeOK
  <2> QED BY <2>1, ChargedStep, PlacedStep
<1>3. Charges => TotalIsCharged
  OBVIOUS
<1> HIDE DEF Charges
<1> QED BY <1>1, <1>2, <1>3, MoneyInvariantHolds, PTL DEF MoneySpec
=============================================================================
