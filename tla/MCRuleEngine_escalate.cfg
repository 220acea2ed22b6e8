SPECIFICATION Spec
CONSTANTS
  Rules <- OneRule
  SameText <- NoneSame
  ObservationLists <- OneRuleLists
  Target = {"system"}
  RejectedTarget = {}
  Evaluator = {agent}
  MaxTime = 4
PROPERTY EscalatesFromPending
