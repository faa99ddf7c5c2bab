SPECIFICATION Spec
CONSTANTS
  review = review
  approve = approve
  print = print
  check = check
  ship = ship
  NoTask = NoTask
  Task <- ShopTask
  StepOrder <- ShopOrder
  Dependency <- ShopDependency
  ReworkStep <- ShopRework
  Mandatory = {review, approve, print, ship}
  Skippable = {approve, check}
  Verification = {review}
  Gate = {approve}
  Inspection = {check}
  AllowRework = {check}
  Stage = {"UNDER_ARTWORK_REVIEW", "IN_PRODUCTION", "QUALITY_CHECK"}
  StageOf <- ShopStage
  Dispatch = {ship}
CONSTRAINT UpToTheCrossing
INVARIANTS TypeOK PrerequisitesFinished EndedIsSettled SomethingIsOpen
PROPERTIES EndedIsFrozen CompletedUndoneOnlyByRework ProgressSpec
CHECK_DEADLOCK FALSE
