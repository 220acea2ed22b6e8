--------------------------- MODULE IncidentEngine ---------------------------
(***************************************************************************)
(* The incident engine (internal/incidents): what one rule result does to  *)
(* the stored incident that has the result's fingerprint.  The engine      *)
(* keeps no state of its own; the rows live in SQLite, one per             *)
(* fingerprint, and are never deleted.  A row that does not exist yet is   *)
(* NoIncident.                                                             *)
(*                                                                         *)
(* Summaries, evidence paths, occurrence counts and the first/last-seen    *)
(* stamps are left out: no decision of the program reads them.             *)
(***************************************************************************)
EXTENDS Integers

\* A nil *time.Time.  Clock readings are naturals.
NoTime == -1
Time == Nat \cup {NoTime}

ActiveSeverity == {"warning", "failure", "critical"}
Severity == {"none"} \cup ActiveSeverity

severityRank ==
  [s \in Severity |-> CASE s = "critical" -> 3
                        [] s = "failure"  -> 2
                        [] s = "warning"  -> 1
                        [] OTHER          -> 0]

Status == {"absent", "open", "resolved"}

IncidentRecord == [status         : Status,
                   severity       : Severity,
                   lastTransition : Time,
                   resolvedAt     : Time]

NoIncident == [status         |-> "absent",
               severity       |-> "none",
               lastTransition |-> NoTime,
               resolvedAt     |-> NoTime]

Action == {"none", "opened", "updated", "escalated", "resolved", "reopened"}

\* A rule result on its way to the engine; present is the nil test on the
\* *Candidate that transitionState returns.
Candidate == [present : BOOLEAN, active : BOOLEAN, severity : Severity]
NoCandidate == [present |-> FALSE, active |-> FALSE, severity |-> "none"]
Raise(s) == [present |-> TRUE, active |-> TRUE, severity |-> s]
Clear == [present |-> TRUE, active |-> FALSE, severity |-> "none"]

\* Outcome of Apply: the row to write and the transition reported back.
Outcome(record, action) == [record |-> record, action |-> action]

(***************************************************************************)
(* Apply, one operator per branch.                                         *)
(***************************************************************************)
open(candidate, now) ==
  Outcome([status         |-> "open",
           severity       |-> candidate.severity,
           lastTransition |-> now,
           resolvedAt     |-> NoTime],
          "opened")

\* Mutated forms of updateActive: the comparison of ranks reversed, the row
\* left resolved.
updateActiveReversed(record, candidate, now) ==
  LET reopened == record.status = "resolved"
      worse == severityRank[candidate.severity] < severityRank[record.severity]
  IN Outcome([status         |-> "open",
              severity       |-> candidate.severity,
              lastTransition |-> now,
              resolvedAt     |-> NoTime],
             IF reopened THEN "reopened"
             ELSE IF worse THEN "escalated"
             ELSE "updated")

updateActiveStaysResolved(record, candidate, now) ==
  Outcome([record EXCEPT !.severity = candidate.severity,
                         !.lastTransition = now],
          IF record.status = "resolved" THEN "reopened" ELSE "updated")

\* An active result for a row that exists.  An unchanged severity leaves
\* LastTransition, and so the delivery key of later notifications, alone.
updateActive(record, candidate, now) ==
  LET reopened == record.status = "resolved"
      worse == severityRank[candidate.severity] > severityRank[record.severity]
      action == IF reopened THEN "reopened"
                ELSE IF worse THEN "escalated"
                ELSE "updated"
      moved == reopened \/ record.severity # candidate.severity
  IN Outcome([status         |-> "open",
              severity       |-> candidate.severity,
              lastTransition |-> IF moved THEN now ELSE record.lastTransition,
              resolvedAt     |-> IF reopened THEN NoTime
                                 ELSE record.resolvedAt],
             action)

\* Mutated form of resolve: the severity of the incident is kept.
resolveKeepsSeverity(record, now) ==
  Outcome([record EXCEPT !.status = "resolved",
                         !.lastTransition = now,
                         !.resolvedAt = now],
          "resolved")

resolve(record, now) ==
  IF record.status = "resolved"
  THEN Outcome(record, "updated")
  ELSE Outcome([status         |-> "resolved",
                severity       |-> "none",
                lastTransition |-> now,
                resolvedAt     |-> now],
               "resolved")

\* Candidates with Active set always carry a severity (transitionState builds
\* them that way), so the engine's "requires severity" error has no branch.
Apply(record, candidate, now) ==
  IF ~candidate.active
  THEN IF record.status = "absent" THEN Outcome(record, "none")
       ELSE resolve(record, now)
  ELSE IF record.status = "absent" THEN open(candidate, now)
       ELSE updateActive(record, candidate, now)
=============================================================================
