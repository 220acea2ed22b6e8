---------------------------- MODULE MCCollectors ----------------------------
(* The collectors with stored state.  They share a table and no row of it, *)
(* so one behaviour moves one of them: "part" says which.                  *)
EXTENDS JournalCursor, FileBaseline, DeviceCounters, CpuTime, BootIdentity,
        MonitoringCycle, TLC

VARIABLE part

collectorVars == <<part, journalVars, fileVars, counterVars, cpuVars, bootVars,
                   cycleVars>>

(* A rule on the number of records, and one on an event. *)
Level(op, n, t) == [set |-> TRUE, operator |-> op, kind |-> "number",
                    number |-> n, text |-> t, bool |-> FALSE, for |-> 0]
NoLevel == [Level("", 0, "") EXCEPT !.set = FALSE]
Warns(level) ==
  [s \in ActiveSeverity |-> IF s = "warning" THEN level ELSE NoLevel]
Burst ==
  [enabled |-> TRUE, collector |-> "journal",
   metric |-> "pooly_journal_events_total", eventCategory |-> "",
   target |-> "auth", threshold |-> Warns(Level("greater_than", 0, "")),
   recoverFor |-> 1, missingData |-> "stale", staleData |-> "stale"]
Login ==
  [Burst EXCEPT !.metric = "", !.eventCategory = "authentication_failure",
                !.threshold = Warns(Level("event_category_match", 0,
                                          "authentication_failure"))]
TwoRules == <<Burst, Login>>

CollectorsInit ==
  /\ part \in {"journal", "filewatch", "network", "diskio", "cpu", "boot", "cycle"}
  /\ JournalInit
  /\ FileInit
  /\ part # "filewatch" => file = Nothing
  /\ part # "journal" => tail = 0
  /\ CounterInit
  /\ CpuInit
  /\ BootInit
  /\ CycleInit

CollectorsNext ==
  /\ UNCHANGED part
  /\ \/ /\ part = "journal" /\ JournalNext
        /\ UNCHANGED <<fileVars, counterVars, cpuVars, bootVars, cycleVars>>
     \/ /\ part = "filewatch" /\ FileNext
        /\ UNCHANGED <<journalVars, counterVars, cpuVars, bootVars, cycleVars>>
     \/ /\ part \in Collector /\ CounterStep(part)
        /\ UNCHANGED <<journalVars, fileVars, cpuVars, bootVars, cycleVars>>
     \/ /\ part = "cpu" /\ CpuNext
        /\ UNCHANGED <<journalVars, fileVars, counterVars, bootVars, cycleVars>>
     \/ /\ part = "boot" /\ BootNext
        /\ UNCHANGED <<journalVars, fileVars, counterVars, cpuVars, cycleVars>>
     \/ /\ part = "cycle" /\ CycleNext
        /\ UNCHANGED <<journalVars, fileVars, counterVars, cpuVars, bootVars>>

CollectorsSpec == CollectorsInit /\ [][CollectorsNext]_collectorVars

(* Readers, watchers, samplers and cyclers are the same processes and run *)
(* the same code; the special bits of a file are like each other.         *)
Symmetry == Permutations(Reader) \cup Permutations(SpecialBits)

(* The types of the rows, of the processes and of the world, in the part *)
(* that moves; the others are as CollectorsInit has them.                *)
TypeOK ==
  /\ part = "journal" => JournalTypeOK
  /\ part = "filewatch" => FileTypeOK
  /\ part \in Collector => CounterTypeOK
  /\ part = "cpu" => CpuTypeOK
  /\ part = "boot" => BootTypeOK
  /\ part = "cycle" => CycleTypeOK
=============================================================================
