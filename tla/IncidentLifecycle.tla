------------------------- MODULE IncidentLifecycle -------------------------
(***************************************************************************)
(* What the incident engine promises to everyone who reads incidents: the  *)
(* notifier, the reports and the API.  One row per fingerprint; a row is   *)
(* never deleted; it is open with a severity or resolved with none; every  *)
(* change of an open row's severity, and every opening and resolution, is  *)
(* a step of its own.                                                      *)
(***************************************************************************)
EXTENDS IncidentEngine

CONSTANT Fingerprints

VARIABLES status, severity

vars == <<status, severity>>

Init == /\ status = [f \in Fingerprints |-> "absent"]
        /\ severity = [f \in Fingerprints |-> "none"]

Open(f, s) == /\ status[f] # "open"
              /\ status' = [status EXCEPT ![f] = "open"]
              /\ severity' = [severity EXCEPT ![f] = s]

ChangeSeverity(f, s) == /\ status[f] = "open"
                        /\ s # severity[f]
                        /\ severity' = [severity EXCEPT ![f] = s]
                        /\ UNCHANGED status

Resolve(f) == /\ status[f] = "open"
              /\ status' = [status EXCEPT ![f] = "resolved"]
              /\ severity' = [severity EXCEPT ![f] = "none"]

Next == \E f \in Fingerprints :
          \/ \E s \in ActiveSeverity : Open(f, s) \/ ChangeSeverity(f, s)
          \/ Resolve(f)

Spec == Init /\ [][Next]_vars
=============================================================================
