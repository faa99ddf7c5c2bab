SPECIFICATION ServedSpec
CONSTANTS
  Client = {h1, h2}
  Request = {r1, r2}
  Stage = {"IN_PRODUCTION"}
  DirectStage = {"VERIFICATION"}
  RequestStage = {"ARTWORK_APPROVED", "PRODUCTION"}
INVARIANTS OrderTypeOK CancelledHasNoWork ReadyIsProduced RequestedIsDecidable
PROPERTY FinishedIsBooked
CHECK_DEADLOCK FALSE
