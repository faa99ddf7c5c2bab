SPECIFICATION DispatchSpec
CONSTANTS
  c1 = c1
  c2 = c2
  w1 = w1
  o1 = o1
  o2 = o2
  b1 = b1
  b2 = b2
  TopUp = TopUp
  NoBatch = NoBatch
  NoInvoice = NoInvoice
  NoCharge = NoCharge
  Client = {c1, c2}
  Wallet = {w1}
  Payer = w1
  Order = {o1, o2}
  Batch = {b1, b2}
  Charge = {1}
  TopUps = {2}
  Amount = {1, 2}
  Reference <- References
  MaxWindow = 2
  MaxEntries = 1
INVARIANT HeldIsUnbilled
SYMMETRY Alike
CHECK_DEADLOCK FALSE
