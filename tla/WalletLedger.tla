---------------------------- MODULE WalletLedger ----------------------------
(***************************************************************************)
(* The wallet ledger.  A credit or a debit locks the row of the wallet     *)
(* with SELECT ... FOR UPDATE, reads the balance in a second statement,    *)
(* writes the new balance computed in the process, and appends a           *)
(* transaction that records the balance before and after.  Everything is   *)
(* visible at the commit, which also gives the lock back.                  *)
(*                                                                         *)
(* The callers (recharges, orders, amendments, dispatch, credit notes,     *)
(* administrators) bring the amount and what the transaction is for.       *)
(***************************************************************************)
EXTENDS Integers, Sequences

CONSTANTS
  Client,     \* concurrent requests
  Wallet,     \* wallets, one per user
  Reference,  \* what a transaction may be for
  Amount      \* amounts that are asked for

ASSUME AmountsArePositive == Amount \subseteq Nat \ {0}

VARIABLES
  balance,    \* currentBalance of each wallet
  ledger,     \* the transactions of each wallet, in the order they commit
  session     \* the ledger call each client is in

ledgerVars == <<balance, ledger, session>>

NoSession == [phase |-> "none"]

Holds(c, w) == session[c].phase \in {"locked", "read"} /\ session[c].wallet = w

\* Wallets are created empty.
LedgerInit ==
  /\ balance = [w \in Wallet |-> 0]
  /\ ledger = [w \in Wallet |-> <<>>]
  /\ session = [c \in Client |-> NoSession]

\* Mutant: the row is read without FOR UPDATE.
TouchWallet(c, w) ==
  /\ session[c] = NoSession
  /\ session' = [session EXCEPT ![c] = [phase |-> "locked", wallet |-> w]]
  /\ UNCHANGED <<balance, ledger>>

LockWallet(c, w) ==
  /\ session[c] = NoSession
  /\ \A other \in Client \ {c} : ~Holds(other, w)
  /\ session' = [session EXCEPT ![c] = [phase |-> "locked", wallet |-> w]]
  /\ UNCHANGED <<balance, ledger>>

ReadWallet(c) ==
  /\ session[c].phase = "locked"
  /\ session' = [session EXCEPT ![c] = [phase |-> "read", wallet |-> session[c].wallet,
                                        seen |-> balance[session[c].wallet]]]
  /\ UNCHANGED <<balance, ledger>>

Post(c, reference, after) ==
  LET w == session[c].wallet
  IN  /\ balance' = [balance EXCEPT ![w] = after]
      /\ ledger' = [ledger EXCEPT ![w] =
           Append(@, [for |-> reference, before |-> session[c].seen, after |-> after])]
      /\ session' = [session EXCEPT ![c] = NoSession]

CreditWallet(c, reference, amount) ==
  /\ session[c].phase = "read"
  /\ Post(c, reference, session[c].seen + amount)

\* A balance that is too small throws.
DebitWallet(c, reference, amount) ==
  /\ session[c].phase = "read"
  /\ session[c].seen >= amount
  /\ Post(c, reference, session[c].seen - amount)

\* The transaction ends without a commit.
ReleaseWallet(c) ==
  /\ session[c] # NoSession
  /\ session' = [session EXCEPT ![c] = NoSession]
  /\ UNCHANGED <<balance, ledger>>

LedgerNext ==
  \E c \in Client :
    \/ \E w \in Wallet : LockWallet(c, w)
    \/ ReadWallet(c)
    \/ \E reference \in Reference, amount \in Amount :
         CreditWallet(c, reference, amount) \/ DebitWallet(c, reference, amount)
    \/ ReleaseWallet(c)

LedgerSpec == LedgerInit /\ [][LedgerNext]_ledgerVars

(***************************************************************************)
(* Properties.                                                             *)
(***************************************************************************)

LedgerEntry == [for : Reference, before : Nat, after : Nat]

\* Balances are never negative, and every entry of the ledger has its shape.
LedgerTypeOK ==
  /\ balance \in [Wallet -> Nat]
  /\ ledger \in [Wallet -> Seq(LedgerEntry)]
  /\ session \in [Client -> {NoSession}
                            \cup [phase : {"locked"}, wallet : Wallet]
                            \cup [phase : {"read"}, wallet : Wallet, seen : Nat]]

\* The balance the ledger of a wallet accounts for.
Booked(w) == IF ledger[w] = <<>> THEN 0 ELSE ledger[w][Len(ledger[w])].after

\* No movement is lost or counted twice, whatever requests overlap: each
\* entry starts from the balance the entry before it left, the first one
\* from an empty wallet, and the wallet holds what the last one left.
LedgerAccountsForBalance ==
  \A w \in Wallet :
    /\ balance[w] = Booked(w)
    /\ \A i \in 1..Len(ledger[w]) :
         ledger[w][i].before = IF i = 1 THEN 0 ELSE ledger[w][i - 1].after
=============================================================================
