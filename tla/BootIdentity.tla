---------------------------- MODULE BootIdentity ----------------------------
(***************************************************************************)
(* The uptime collector (collectors/resources/uptime.go) and its row in    *)
(* table collector_state: the boot id of the last sample.  A sample with   *)
(* another id reports that the machine was rebooted, once: the next one    *)
(* compares with the new row.  Boots are numbered; processes die with the  *)
(* machine, the row does not.                                              *)
(***************************************************************************)
EXTENDS Integers

CONSTANTS
  BootReader,  \* processes that collect
  LastBoot     \* bound on the boots

ASSUME BootAssumption == LastBoot \in Nat

VARIABLES
  boot,       \* the boot of the machine
  bootRow,    \* the row: a boot, NoBoot or BadBoot
  booter,     \* the readers
  baselines,  \* history: boots recorded when there was no row
  reported,   \* history: boots that an observation reported as a change
  unreported  \* history: boots saved by a reader that returned no observation

bootVars == <<boot, bootRow, booter, baselines, reported, unreported>>

NoBoot == -1
BadBoot == -2
Boot == 0..LastBoot
BooterRecord == [pc       : {"idle", "load", "save", "return"},
                 id       : Boot,
                 previous : Boot \cup {NoBoot}]
IdleBooter == [pc |-> "idle", id |-> 0, previous |-> NoBoot]

BootInit ==
  /\ boot = 0
  /\ bootRow = NoBoot
  /\ booter = [r \in BootReader |-> IdleBooter]
  /\ baselines = {} /\ reported = {} /\ unreported = {}

saved(r) == booter[r].pc = "return"

\* The boots whose reader ends before its observation gets anywhere.
lostWith(readers) == unreported \cup {booter[r].id : r \in {x \in readers : saved(x)}}

NextBoot ==
  /\ boot < LastBoot
  /\ boot' = boot + 1
  /\ booter' = [r \in BootReader |-> IdleBooter]
  /\ unreported' = lostWith(BootReader)
  /\ UNCHANGED <<bootRow, baselines, reported>>

DamageBoot ==
  /\ bootRow # NoBoot
  /\ bootRow' = BadBoot
  /\ UNCHANGED <<boot, booter, baselines, reported, unreported>>

readBootID(r) ==
  /\ booter[r].pc = "idle"
  /\ booter' = [booter EXCEPT ![r].pc = "load", ![r].id = boot]
  /\ UNCHANGED <<boot, bootRow, baselines, reported, unreported>>

\* Mutated form: the row is saved before it is compared with.
loadBootAfterSave(r) ==
  /\ booter[r].pc = "load"
  /\ bootRow # BadBoot
  /\ bootRow' = booter[r].id
  /\ booter' = [booter EXCEPT ![r].pc = "save", ![r].previous = bootRow']
  /\ UNCHANGED <<boot, baselines, reported, unreported>>

\* A row that cannot be decoded fails the collection (BootFails), ever after.
loadBoot(r) ==
  /\ booter[r].pc = "load"
  /\ bootRow # BadBoot
  /\ booter' = [booter EXCEPT ![r].pc = "save", ![r].previous = bootRow]
  /\ UNCHANGED <<boot, bootRow, baselines, reported, unreported>>

saveBoot(r) ==
  /\ booter[r].pc = "save"
  /\ bootRow' = booter[r].id
  /\ baselines' = IF booter[r].previous = NoBoot
                  THEN baselines \cup {booter[r].id} ELSE baselines
  /\ booter' = [booter EXCEPT ![r].pc = "return"]
  /\ UNCHANGED <<boot, reported, unreported>>

\* CollectUptime returns pooly_system_boot_id_changed.
returnUptime(r) ==
  /\ saved(r)
  /\ reported' = IF booter[r].previous \in Boot \ {booter[r].id}
                 THEN reported \cup {booter[r].id} ELSE reported
  /\ booter' = [booter EXCEPT ![r] = IdleBooter]
  /\ UNCHANGED <<boot, bootRow, baselines, unreported>>

\* The context ended, the store refused, or the process died.
BootFails(r) ==
  /\ booter[r].pc # "idle"
  /\ booter' = [booter EXCEPT ![r] = IdleBooter]
  /\ unreported' = lostWith({r})
  /\ UNCHANGED <<boot, bootRow, baselines, reported>>

BootNext ==
  \/ NextBoot \/ DamageBoot
  \/ \E r \in BootReader :
       \/ readBootID(r) \/ loadBoot(r) \/ saveBoot(r) \/ returnUptime(r)
       \/ BootFails(r)

BootSpec == BootInit /\ [][BootNext]_bootVars
-----------------------------------------------------------------------------
\* The types of the row, of the readers and of the history.
BootTypeOK ==
  /\ boot \in Boot
  /\ bootRow \in Boot \cup {NoBoot, BadBoot}
  /\ booter \in [BootReader -> BooterRecord]
  /\ baselines \subseteq Boot
  /\ reported \subseteq Boot
  /\ unreported \subseteq Boot

\* "The first observation records a baseline without reporting a false reboot.
\* A later boot-ID change is emitted" (docs/uptime-reboot-collector.md).  What
\* the row has taken for granted was a baseline or was reported, by whichever
\* process got there first, unless its reader ended between the save and the
\* report (uptime.go 95-127); and no first boot is reported.
RebootReported ==
  /\ bootRow \in Boot =>
       \/ bootRow \in baselines \cup reported \cup unreported
       \/ \E r \in BootReader : saved(r) /\ booter[r].id = bootRow
  /\ \A b \in reported : \E a \in baselines : a < b
=============================================================================
