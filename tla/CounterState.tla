---------------------------- MODULE CounterState ----------------------------
(***************************************************************************)
(* Differences of counters and daily totals (collectors/resources/         *)
(* state.go), as operators.                                                *)
(***************************************************************************)
EXTENDS Integers

NoDelta == [delta |-> 0, reset |-> FALSE, valid |-> FALSE]

\* Mutated form: the difference of the converted numbers, without a check.
CalculateCounterDeltaSigned(previous, current, hasPrevious) ==
  IF ~hasPrevious THEN NoDelta
  ELSE [delta |-> current - previous, reset |-> FALSE, valid |-> TRUE]

CalculateCounterDelta(previous, current, hasPrevious) ==
  IF ~hasPrevious THEN NoDelta
  ELSE IF current < previous THEN [NoDelta EXCEPT !.reset = TRUE]
  ELSE [delta |-> current - previous, reset |-> FALSE, valid |-> TRUE]

\* Mutated form: the total of the day before goes on.
UpdateDailyCounterGoesOn(previous, day, delta) ==
  [day   |-> day,
   total |-> previous.total +
             IF delta.valid /\ ~delta.reset THEN delta.delta ELSE 0]

UpdateDailyCounter(previous, day, delta) ==
  [day   |-> day,
   total |-> (IF previous.day = day THEN previous.total ELSE 0) +
             IF delta.valid /\ ~delta.reset THEN delta.delta ELSE 0]
=============================================================================
