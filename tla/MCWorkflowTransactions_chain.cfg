SPECIFICATION CompleteSpec
CONSTANTS
  review = review
  print = print
  laminate = laminate
  check = check
  c1 = c1
  c2 = c2
  c3 = c3
  NoTask = NoTask
  Client = {c1, c2, c3}
  Task <- ChainTask
  StepOrder <- ChainOrder
  Dependency <- ChainDependency
  ReworkStep <- ChainRework
  Mandatory = {review, print, check}
  Skippable = {review}
  Verification = {}
  Gate = {}
  Inspection = {}
  AllowRework = {}
INVARIANT FinishedPrerequisitesOpen
PROPERTY Spec
CHECK_DEADLOCK FALSE
