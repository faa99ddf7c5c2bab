SPECIFICATION CompleteSpec
CONSTANTS
  review = review
  print = print
  laminate = laminate
  check = check
  c1 = c1
  c2 = c2
  c3 = c3
  NoTask = NoTask
  Client = {c1, c2}
  Task <- JoinTask
  StepOrder <- JoinOrder
  Dependency <- JoinDependency
  ReworkStep <- JoinRework
  Mandatory = {print, check}
  Skippable = {laminate}
  Verification = {}
  Gate = {}
  Inspection = {}
  AllowRework = {}
INVARIANT FinishedPrerequisitesOpen
CHECK_DEADLOCK FALSE
