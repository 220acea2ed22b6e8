SPECIFICATION Spec
CONSTANTS
  Rules <- OneRule
  SameText <- NoneSame
  ObservationLists <- OneRuleLists
  Target = {"system"}
  RejectedTarget = {}
  Evaluator = {agent}
  MaxTime = 3
INVARIANT OkHasNoOpenIncident
