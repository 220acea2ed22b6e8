-------------------------- MODULE MCNotifyDelivery --------------------------
(* Instances of NotifyDelivery: a disabled receiver, one with a filter on  *)
(* severities, one for everything.                                         *)
EXTENDS NotifyDelivery

Everything == [id |-> "everything", enabled |-> TRUE, events |-> Event,
               severities |-> ActiveSeverity]
Severe == [Everything EXCEPT !.id = "severe",
                             !.severities = {"failure", "critical"}]
Off == [Everything EXCEPT !.id = "off", !.enabled = FALSE]

OneReceiver == <<Everything>>
OffAndSevere == <<Off, Severe>>
=============================================================================
