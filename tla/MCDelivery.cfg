SPECIFICATION DeliverySpec
CONSTANTS
  a1 = a1
  a2 = a2
  h1 = h1
  h2 = h2
  Nobody = Nobody
  Agent = {a1, a2}
  Client = {h1, h2}
  MaxAttempts = 3
INVARIANTS DeliveryTypeOK AttemptsNumbered DeliveredIsRecorded
SYMMETRY Alike
CHECK_DEADLOCK FALSE
