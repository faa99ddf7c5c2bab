SPECIFICATION RechargeSpec
CONSTANTS
  c1 = c1
  c2 = c2
  w1 = w1
  p1 = p1
  Spending = Spending
  Client = {c1, c2}
  Wallet = {w1}
  Amount = {1, 2}
  Reference <- References
  Payment <- OnePayment
  Owner <- OneOwner
  Value <- OneValue
  MaxEntries = 2
  MaxFailures = 1
INVARIANTS RechargeTypeOK LedgerAccountsForBalance CreditedOnce CreditedMeansCaptured
CHECK_DEADLOCK FALSE
PROPERTY CapturedIsCredited
