------------------------- MODULE WalletLedgerProofs -------------------------
(***************************************************************************)
(* Proofs about WalletLedger, for any number of clients and wallets and    *)
(* any amounts: the ledger accounts for every balance.                     *)
(***************************************************************************)
EXTENDS WalletLedger, TLAPS

\* At most one call holds a wallet, and the balance a call has read is the
\* balance until it ends: what FOR UPDATE is for.
LockInvariant ==
  /\ \A c, d \in Client, w \in Wallet : Holds(c, w) /\ Holds(d, w) => c = d
  /\ \A c \in Client : session[c].phase = "read" => session[c].seen = balance[session[c].wallet]

LedgerInvariant == LedgerTypeOK /\ LockInvariant /\ LedgerAccountsForBalance

Sessions == {NoSession}
            \cup [phase : {"locked"}, wallet : Wallet]
            \cup [phase : {"read"}, wallet : Wallet, seen : Nat]

\* The three kinds of session, and the fields each of them has.
LEMMA SessionKinds ==
  ASSUME LedgerTypeOK, NEW c \in Client
  PROVE  /\ session[c] \in Sessions
         /\ session[c] = NoSession => session[c].phase = "none"
         /\ session[c].phase = "locked" => session[c].wallet \in Wallet
         /\ session[c].phase = "read" => session[c].wallet \in Wallet /\ session[c].seen \in Nat
BY DEF LedgerTypeOK, Sessions, NoSession

\* Empty wallets, no calls.
LEMMA LedgerInitInvariant == LedgerInit => LedgerInvariant
<1> SUFFICES ASSUME LedgerInit PROVE LedgerInvariant
  OBVIOUS
<1>1. LedgerTypeOK
  BY DEF LedgerInit, LedgerTypeOK
<1>2. LockInvariant
  BY DEF LedgerInit, LockInvariant, Holds, NoSession
<1>3. LedgerAccountsForBalance
  BY DEF LedgerInit, LedgerAccountsForBalance, Booked
<1> QED BY <1>1, <1>2, <1>3 DEF LedgerInvariant

\* Taking the lock keeps the invariant: nobody else held it.
LEMMA LockWalletInvariant ==
  ASSUME LedgerInvariant, NEW c \in Client, NEW w \in Wallet, LockWallet(c, w)
  PROVE  LedgerInvariant'
<1>1. LedgerTypeOK'
  BY DEF LedgerInvariant, LedgerTypeOK, LockWallet
<1>2. LockInvariant'
  BY DEF LedgerInvariant, LedgerTypeOK, LockInvariant, LockWallet, Holds
<1>3. LedgerAccountsForBalance'
  BY DEF LedgerInvariant, LedgerAccountsForBalance, LockWallet, Booked
<1> QED BY <1>1, <1>2, <1>3 DEF LedgerInvariant

\* Reading under the lock keeps the invariant: what is read is the balance.
LEMMA ReadWalletInvariant ==
  ASSUME LedgerInvariant, NEW c \in Client, ReadWallet(c)
  PROVE  LedgerInvariant'
<1>1. session[c].wallet \in Wallet
  BY SessionKinds DEF LedgerInvariant, ReadWallet
<1>2. LedgerTypeOK'
  BY <1>1 DEF LedgerInvariant, LedgerTypeOK, ReadWallet
<1>3. LockInvariant'
  BY <1>1 DEF LedgerInvariant, LedgerTypeOK, LockInvariant, ReadWallet, Holds
<1>4. LedgerAccountsForBalance'
  BY DEF LedgerInvariant, LedgerAccountsForBalance, ReadWallet, Booked
<1> QED BY <1>2, <1>3, <1>4 DEF LedgerInvariant

\* A posting that leaves a natural balance keeps the invariant: the balance
\* it read is the one its predecessor left, because it held the lock since.
LEMMA PostInvariant ==
  ASSUME LedgerInvariant, NEW c \in Client, session[c].phase = "read",
         NEW reference \in Reference, NEW after \in Nat, Post(c, reference, after)
  PROVE  LedgerInvariant'
<1>1. /\ session[c].wallet \in Wallet
      /\ session[c].seen \in Nat
      /\ session[c].seen = balance[session[c].wallet]
  BY SessionKinds DEF LedgerInvariant, LockInvariant
<1>2. PICK w \in Wallet : w = session[c].wallet
  BY <1>1
<1>3. PICK entry \in LedgerEntry :
        entry = [for |-> reference, before |-> session[c].seen, after |-> after]
  BY <1>1 DEF LedgerEntry
<1>4. entry.before = balance[w] /\ entry.after = after
  BY <1>1, <1>2, <1>3
<1>5. /\ balance' = [balance EXCEPT ![w] = after]
      /\ ledger' = [ledger EXCEPT ![w] = Append(ledger[w], entry)]
      /\ session' = [session EXCEPT ![c] = NoSession]
  BY <1>2, <1>3 DEF Post
<1>6. /\ balance \in [Wallet -> Nat]
      /\ ledger \in [Wallet -> Seq(LedgerEntry)]
      /\ LedgerTypeOK /\ LockInvariant /\ LedgerAccountsForBalance
  BY DEF LedgerInvariant, LedgerTypeOK
<1>7. LedgerTypeOK'
  <2>1. Append(ledger[w], entry) \in Seq(LedgerEntry)
    BY <1>6
  <2>2. ledger' \in [Wallet -> Seq(LedgerEntry)]
    BY <1>5, <1>6, <2>1
  <2> QED BY <1>5, <1>6, <2>2 DEF LedgerTypeOK
<1>8. LockInvariant'
  BY <1>2, <1>5, <1>6 DEF LedgerTypeOK, LockInvariant, Holds, NoSession
<1>9. LedgerAccountsForBalance'
  <2>1. ASSUME NEW v \in Wallet, v # w
        PROVE  /\ balance'[v] = Booked(v)'
               /\ \A i \in 1..Len(ledger'[v]) :
                    ledger'[v][i].before = IF i = 1 THEN 0 ELSE ledger'[v][i - 1].after
    BY <1>5, <1>6, <2>1 DEF LedgerAccountsForBalance, Booked
  <2>2. PICK old \in Seq(LedgerEntry) : old = ledger[w]
    BY <1>6
  <2>3. PICK new \in Seq(LedgerEntry) : new = ledger'[w] /\ new = Append(old, entry)
    <3>1. ledger'[w] = Append(old, entry)
      BY <1>5, <1>6, <2>2
    <3>2. Append(old, entry) \in Seq(LedgerEntry)
      OBVIOUS
    <3> QED BY <3>1, <3>2
  <2>4. PICK n \in Nat : n = Len(old)
    OBVIOUS
  <2>5. /\ balance[w] = IF old = <<>> THEN 0 ELSE old[n].after
        /\ \A i \in 1..n : old[i].before = IF i = 1 THEN 0 ELSE old[i - 1].after
    BY <1>6, <2>2, <2>4 DEF LedgerAccountsForBalance, Booked
  <2>6. /\ Len(new) = n + 1
        /\ new[n + 1] = entry
        /\ \A i \in 1..n : new[i] = old[i]
        /\ new # <<>>
        /\ old = <<>> <=> n = 0
    BY <2>3, <2>4
  <2>7. balance'[w] = Booked(w)'
    BY <1>4, <1>5, <1>6, <2>3, <2>6 DEF Booked
  <2>8. entry.before = IF n + 1 = 1 THEN 0 ELSE new[n].after
    <3>1. CASE n = 0
      BY <1>4, <2>5, <2>6, <3>1
    <3>2. CASE n # 0
      BY <1>4, <2>5, <2>6, <3>2
    <3> QED BY <3>1, <3>2
  <2>9. ASSUME NEW i \in 1..(n + 1)
        PROVE  new[i].before = IF i = 1 THEN 0 ELSE new[i - 1].after
    <3>1. CASE i = n + 1
      BY <2>6, <2>8, <3>1
    <3>2. CASE i \in 1..n
      <4>1. i = 1 \/ i - 1 \in 1..n
        BY <3>2
      <4> QED BY <2>5, <2>6, <3>2, <4>1
    <3> QED BY <3>1, <3>2
  <2>10. ASSUME NEW i \in 1..Len(ledger'[w])
         PROVE  ledger'[w][i].before = IF i = 1 THEN 0 ELSE ledger'[w][i - 1].after
    BY <2>3, <2>6, <2>9
  <2> QED BY <2>1, <2>7, <2>10 DEF LedgerAccountsForBalance
<1> QED BY <1>7, <1>8, <1>9 DEF LedgerInvariant

\* Giving up keeps the invariant: nothing was written.
LEMMA ReleaseWalletInvariant ==
  ASSUME LedgerInvariant, NEW c \in Client, ReleaseWallet(c)
  PROVE  LedgerInvariant'
<1>1. LedgerTypeOK'
  BY DEF LedgerInvariant, LedgerTypeOK, ReleaseWallet
<1>2. LockInvariant'
  BY DEF LedgerInvariant, LedgerTypeOK, LockInvariant, ReleaseWallet, Holds, NoSession
<1>3. LedgerAccountsForBalance'
  BY DEF LedgerInvariant, LedgerAccountsForBalance, ReleaseWallet, Booked
<1> QED BY <1>1, <1>2, <1>3 DEF LedgerInvariant

\* Every step of the ledger keeps the invariant.
LEMMA LedgerNextInvariant == LedgerInvariant /\ [LedgerNext]_ledgerVars => LedgerInvariant'
<1> SUFFICES ASSUME LedgerInvariant, [LedgerNext]_ledgerVars PROVE LedgerInvariant'
  OBVIOUS
<1>1. ASSUME NEW c \in Client, NEW w \in Wallet, LockWallet(c, w) PROVE LedgerInvariant'
  BY <1>1, LockWalletInvariant
<1>2. ASSUME NEW c \in Client, ReadWallet(c) PROVE LedgerInvariant'
  BY <1>2, ReadWalletInvariant
<1>3. ASSUME NEW c \in Client, NEW reference \in Reference, NEW amount \in Amount,
             CreditWallet(c, reference, amount) \/ DebitWallet(c, reference, amount)
      PROVE  LedgerInvariant'
  <2>1. amount \in Nat \ {0}
    BY AmountsArePositive
  <2>2. session[c].phase = "read" /\ session[c].seen \in Nat
    BY <1>3, SessionKinds DEF LedgerInvariant, CreditWallet, DebitWallet
  <2>3. CASE CreditWallet(c, reference, amount)
    <3>1. session[c].seen + amount \in Nat
      BY <2>1, <2>2
    <3> QED BY <2>2, <2>3, <3>1, PostInvariant DEF CreditWallet
  <2>4. CASE DebitWallet(c, reference, amount)
    <3>1. session[c].seen - amount \in Nat
      BY <2>1, <2>2, <2>4 DEF DebitWallet
    <3> QED BY <2>2, <2>4, <3>1, PostInvariant DEF DebitWallet
  <2> QED BY <1>3, <2>3, <2>4
<1>4. ASSUME NEW c \in Client, ReleaseWallet(c) PROVE LedgerInvariant'
  BY <1>4, ReleaseWalletInvariant
<1>5. CASE UNCHANGED ledgerVars
  BY <1>5 DEF ledgerVars, LedgerInvariant, LedgerTypeOK, LockInvariant, Holds,
              LedgerAccountsForBalance, Booked
<1> QED BY <1>1, <1>2, <1>3, <1>4, <1>5 DEF LedgerNext

(***************************************************************************)
(* What the modules that post to the ledger need of it.                    *)
(***************************************************************************)

\* What a posting does to the ledger: one entry more in one wallet.
LEMMA PostAppends ==
  ASSUME LedgerTypeOK, NEW c \in Client, session[c].phase = "read",
         NEW reference \in Reference, NEW after \in Nat, Post(c, reference, after)
  PROVE  \E w \in Wallet, n \in Nat :
           /\ w = session[c].wallet
           /\ n = Len(ledger[w])
           /\ Len(ledger'[w]) = n + 1
           /\ ledger'[w][n + 1].for = reference
           /\ ledger'[w][n + 1].before - ledger'[w][n + 1].after = session[c].seen - after
           /\ \A i \in 1..n : ledger'[w][i] = ledger[w][i]
           /\ \A v \in Wallet : v # w => ledger'[v] = ledger[v]
<1>1. PICK w \in Wallet : w = session[c].wallet
  BY SessionKinds
<1>2. session[c].seen \in Nat
  BY SessionKinds
<1>3. PICK entry \in LedgerEntry :
        entry = [for |-> reference, before |-> session[c].seen, after |-> after]
  BY <1>2 DEF LedgerEntry
<1>4. entry.for = reference /\ entry.before = session[c].seen /\ entry.after = after
  BY <1>3
<1>5. ledger' = [ledger EXCEPT ![w] = Append(ledger[w], entry)]
  BY <1>1, <1>3 DEF Post
<1>6. ledger \in [Wallet -> Seq(LedgerEntry)]
  BY DEF LedgerTypeOK
<1>7. PICK n \in Nat : n = Len(ledger[w])
  BY <1>6
<1>8. /\ Len(ledger'[w]) = n + 1
      /\ ledger'[w][n + 1] = entry
      /\ \A i \in 1..n : ledger'[w][i] = ledger[w][i]
  BY <1>5, <1>6, <1>7
<1>9. \A v \in Wallet : v # w => ledger'[v] = ledger[v]
  BY <1>5, <1>6
<1> QED BY <1>1, <1>4, <1>7, <1>8, <1>9

\* A debit or a credit is a posting of the difference.
LEMMA DebitPosts ==
  ASSUME LedgerTypeOK, NEW c \in Client, NEW reference, NEW amount \in Amount,
         DebitWallet(c, reference, amount)
  PROVE  \E after \in Nat : Post(c, reference, after) /\ session[c].seen - after = amount
<1>1. session[c].seen \in Nat /\ amount \in Nat /\ session[c].seen >= amount
  BY SessionKinds, AmountsArePositive DEF DebitWallet
<1>2. session[c].seen - amount \in Nat
  BY <1>1
<1>3. session[c].seen - (session[c].seen - amount) = amount
  BY <1>1
<1> QED BY <1>2, <1>3 DEF DebitWallet

LEMMA CreditPosts ==
  ASSUME LedgerTypeOK, NEW c \in Client, NEW reference, NEW amount \in Amount,
         CreditWallet(c, reference, amount)
  PROVE  \E after \in Nat : Post(c, reference, after) /\ session[c].seen - after = 0 - amount
<1>1. session[c].seen \in Nat /\ amount \in Nat
  BY SessionKinds, AmountsArePositive DEF CreditWallet
<1>2. session[c].seen + amount \in Nat
  BY <1>1
<1>3. session[c].seen - (session[c].seen + amount) = 0 - amount
  BY <1>1
<1> QED BY <1>2, <1>3 DEF CreditWallet

\* Balances are never negative, whatever credits and debits overlap.
THEOREM LedgerTypeCorrect == LedgerSpec => []LedgerTypeOK
<1>1. LedgerInvariant => LedgerTypeOK
  BY DEF LedgerInvariant
<1> QED BY <1>1, LedgerInitInvariant, LedgerNextInvariant, PTL DEF LedgerSpec

\* No movement is lost or counted twice, whatever credits and debits overlap.
THEOREM LedgerAccounts == LedgerSpec => []LedgerAccountsForBalance
<1>1. LedgerInvariant => LedgerAccountsForBalance
  BY DEF LedgerInvariant
<1> QED BY <1>1, LedgerInitInvariant, LedgerNextInvariant, PTL DEF LedgerSpec
=============================================================================
