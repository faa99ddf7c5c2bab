SPECIFICATION MoneySpec
CONSTANTS
  c1 = c1
  c2 = c2
  w1 = w1
  o1 = o1
  o2 = o2
  TopUp = TopUp
  Client = {c1, c2}
  Wallet = {w1}
  Order = {o1, o2}
  Owner <- Owners
  Price = {1, 2}
  TopUps = {2}
  Amount = {1, 2}
  Reference <- References
  MaxChanges = 3
  MaxEntries = 2
INVARIANTS MoneyTypeOK EveryChangeIsPaid TotalIsCharged
SYMMETRY Alike
CHECK_DEADLOCK FALSE
