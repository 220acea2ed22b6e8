-------------------------- MODULE MCRuleEngineBoth --------------------------
(***************************************************************************)
(* The rules of MCRuleEngine in one configuration.  A behaviour moves one  *)
(* part of it: two evaluators look at the processor, or one at a time at   *)
(* the mounts, on a processor that is idle.                                *)
(***************************************************************************)
EXTENDS MCRuleEngine, TLC

CONSTANTS agent, cli

VARIABLE part

BothRules == AnyMount \o OneRule
OnIdle(lists) == {list \o CpuAt(0) : list \in lists}
BothLists == OneRuleLists \cup OnIdle(AnyMountLists)

lists == IF part = "processor" THEN OneRuleLists ELSE OnIdle(AnyMountLists)
evaluators ==
  IF part = "processor" THEN Evaluator
  ELSE {e \in Evaluator : \A other \in Evaluator \ {e} : ~eval[other].running}

Symmetry == Permutations({agent, cli})

BothInit == Init /\ part \in {"processor", "mounts"}

BothNext ==
  /\ UNCHANGED part
  /\ \/ Tick
     \/ \E e \in evaluators :
          \/ \E observations \in lists : Evaluate(e, observations)
          \/ \E p \in Pair : evaluateRuleTarget(e, p)
          \/ FinishEvaluate(e)
          \/ AbortEvaluate(e)

BothSpec == BothInit /\ [][BothNext]_<<vars, part>>
=============================================================================
