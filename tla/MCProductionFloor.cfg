SPECIFICATION FloorSpec
CONSTANTS
  review = review
  design = design
  check = check
  NoTask = NoTask
  Task <- FloorTask
  StepOrder <- FloorOrder
  Dependency <- FloorDependency
  ReworkStep <- FloorRework
  Mandatory = {design, review, check}
  Skippable = {}
  Verification = {review}
  Gate = {}
  Inspection = {check}
  AllowRework = {check}
  Design = {design}
  Staffed = {review, check}
  MaxInterrupted = 1
INVARIANTS FloorTypeOK WorkCanGoOn SomeoneCanAct
CHECK_DEADLOCK FALSE
