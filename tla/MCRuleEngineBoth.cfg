SPECIFICATION BothSpec
CONSTANTS
  agent = agent
  cli = cli
  Rules <- BothRules
  SameText <- NoneSame
  ObservationLists <- BothLists
  Target = {"system", "a", "b"}
  RejectedTarget = {"b"}
  Evaluator = {agent, cli}
  MaxTime = 3
SYMMETRY Symmetry
INVARIANTS
  TypeOK
  MemoryTellsRun
  SeverityHasOpenIncident
PROPERTIES
  OpensWhenSustained
  ResolvesWhenRecovered
  ChangeIsReported
  ImplementsLifecycle
