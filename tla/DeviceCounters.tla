--------------------------- MODULE DeviceCounters ---------------------------
(***************************************************************************)
(* The collectors of network and disk traffic (collectors/resources:       *)
(* network.go, diskio.go) and their rows in table collector_state.         *)
(*                                                                         *)
(* The kernel counts the bytes of each device; one counter stands for      *)
(* receive and transmit, read and write, which the code treats alike.      *)
(* Devices come and go and the machine reboots; both start counters again  *)
(* from zero.  The agent and a command may collect at a time; everything   *)
(* may change, and a sampler may fail or die, between its reading the      *)
(* counters, its loading the row and its saving it.                        *)
(***************************************************************************)
EXTENDS CounterState

CONSTANTS
  Nic, Disk,   \* network interfaces and disks
  Sampler,     \* processes that collect them
  MaxBytes,    \* bound on the bytes a device moves
  MaxBoots,    \* bound on reboots, removals and returns
  MaxDay       \* bound on the days

Device == Nic \cup Disk

ASSUME CounterAssumption ==
  /\ Nic \cap Disk = {}
  /\ MaxBytes \in Nat /\ MaxBoots \in Nat /\ MaxDay \in Nat

VARIABLES
  bytes,     \* counter of each device, Gone when it is not there
  boots,     \* reboots, removals and returns so far
  today,     \* the UTC day
  sample,    \* the sample each process has in hand, or NoSample
  row,       \* the rows of network and diskio
  moved,     \* history: bytes each device has moved in all
  overtaken  \* history: collectors that compared with a newer sample

\* A row carries history too: "at" is moved when its counters were read,
\* "since" is moved at the last sample before the day of its totals, "boots"
\* is boots when its counters were read.

counterWorld == <<bytes, boots, today, moved>>
counterRows == <<row, overtaken>>
counterVars == <<counterWorld, sample, counterRows>>

Gone == -1
NoSample == [of |-> "none"]
NoRow == [of |-> "none"]
Damaged == [of |-> "damaged"]
NotLoaded == [of |-> "not loaded"]

Collector == {"network", "diskio"}
devicesOf(collector) == IF collector = "network" THEN Nic ELSE Disk

DailyCounter == [day : 0..MaxDay, total : Nat]
NoDaily == [day |-> Gone, total |-> 0]

CounterInit ==
  /\ bytes = [d \in Device |-> 0]
  /\ boots = 0
  /\ today = 0
  /\ sample = [p \in Sampler |-> NoSample]
  /\ row = [c \in Collector |-> NoRow]
  /\ moved = [d \in Device |-> 0]
  /\ overtaken = {}

(***************************************************************************)
(* The world.                                                              *)
(***************************************************************************)
Traffic(collector) ==
  /\ \E d \in devicesOf(collector) :
       /\ bytes[d] # Gone
       /\ moved[d] < MaxBytes
       /\ bytes' = [bytes EXCEPT ![d] = @ + 1]
       /\ moved' = [moved EXCEPT ![d] = @ + 1]
  /\ UNCHANGED <<boots, today, sample, counterRows>>

RemoveDevice(collector) ==
  /\ \E d \in devicesOf(collector) :
       bytes[d] # Gone /\ bytes' = [bytes EXCEPT ![d] = Gone]
  /\ boots < MaxBoots
  /\ boots' = boots + 1
  /\ UNCHANGED <<today, moved, sample, counterRows>>

ReturnDevice(collector) ==
  /\ \E d \in devicesOf(collector) :
       bytes[d] = Gone /\ bytes' = [bytes EXCEPT ![d] = 0]
  /\ boots < MaxBoots
  /\ boots' = boots + 1
  /\ UNCHANGED <<today, moved, sample, counterRows>>

\* The samplers die with the machine.
Reboot ==
  /\ boots < MaxBoots
  /\ boots' = boots + 1
  /\ bytes' = [d \in Device |-> IF bytes[d] = Gone THEN Gone ELSE 0]
  /\ sample' = [p \in Sampler |-> NoSample]
  /\ UNCHANGED <<today, moved, counterRows>>

NewDay ==
  /\ today < MaxDay
  /\ today' = today + 1
  /\ UNCHANGED <<bytes, boots, moved, sample, counterRows>>

DamageRow(collector) ==
  /\ row[collector] # NoRow
  /\ row' = [row EXCEPT ![collector] = Damaged]
  /\ UNCHANGED <<counterWorld, sample, overtaken>>

(***************************************************************************)
(* CollectNetwork and CollectDiskIO.                                       *)
(***************************************************************************)
readDevices(p, collector) ==
  /\ sample[p] = NoSample
  /\ sample' = [sample EXCEPT ![p] =
       [of    |-> collector,
        day   |-> today,
        stats |-> [d \in {x \in devicesOf(collector) : bytes[x] # Gone}
                     |-> bytes[d]],
        moved |-> moved,
        boots |-> boots,
        base  |-> NotLoaded]]
  /\ UNCHANGED <<counterWorld, counterRows>>

\* The daily counters of the row that follows a row: of every device that
\* had one and of every device that is there.
dailyAfter(previous, stats, day) ==
  LET deltaOf(d) ==
        IF d \in DOMAIN previous.stats
        THEN CalculateCounterDelta(previous.stats[d], stats[d], TRUE)
        ELSE CalculateCounterDelta(0, stats[d], FALSE)
      dailyOf(d) ==
        IF d \in DOMAIN previous.daily THEN previous.daily[d] ELSE NoDaily
  IN [d \in DOMAIN previous.daily \cup DOMAIN stats |->
        IF d \in DOMAIN stats
        THEN UpdateDailyCounter(dailyOf(d), day, deltaOf(d))
        ELSE previous.daily[d]]

\* A row that cannot be decoded fails the collection, now and ever after.
loadDevices(p, collector) ==
  /\ sample[p].of = collector
  /\ sample[p].base = NotLoaded
  /\ row[collector] # Damaged
  /\ sample' = [sample EXCEPT ![p].base = row[collector]]
  /\ LET newer == /\ row[collector] # NoRow
                 /\ \/ row[collector].boots > sample[p].boots
                    \/ \E d \in DOMAIN sample[p].stats :
                         row[collector].at[d] > sample[p].moved[d]
     IN overtaken' = IF newer THEN overtaken \cup {collector} ELSE overtaken
  /\ UNCHANGED <<counterWorld, row>>

\* The row that follows the one the sampler has loaded.
rowAfter(s) ==
  IF s.base = NoRow
  THEN [stats |-> s.stats, daily |-> [d \in {} |-> NoDaily],
        at |-> s.moved, since |-> [d \in Device |-> 0], boots |-> s.boots]
  ELSE LET daily == dailyAfter(s.base, s.stats, s.day)
           starts(d) == /\ d \in DOMAIN s.stats
                        /\ \/ d \notin DOMAIN s.base.daily
                           \/ s.base.daily[d].day # s.day
       IN [stats |-> s.stats,
           daily |-> daily,
           boots |-> s.boots,
           at    |-> [d \in Device |->
                        IF d \in DOMAIN s.stats THEN s.moved[d]
                        ELSE s.base.at[d]],
           since |-> [d \in Device |->
                        IF starts(d) THEN s.base.at[d] ELSE s.base.since[d]]]

saveDevices(p, collector) ==
  /\ sample[p].of = collector
  /\ sample[p].base # NotLoaded
  /\ row' = [row EXCEPT ![collector] = rowAfter(sample[p])]
  /\ sample' = [sample EXCEPT ![p] = NoSample]
  /\ UNCHANGED <<counterWorld, overtaken>>

\* The context ended, the store refused or the process died.
sampleFails(p) ==
  /\ sample[p] # NoSample
  /\ sample' = [sample EXCEPT ![p] = NoSample]
  /\ UNCHANGED <<counterWorld, counterRows>>

CounterStep(collector) ==
  \/ Traffic(collector)
  \/ RemoveDevice(collector)
  \/ ReturnDevice(collector)
  \/ Reboot
  \/ NewDay
  \/ DamageRow(collector)
  \/ \E p \in Sampler :
       \/ readDevices(p, collector)
       \/ loadDevices(p, collector)
       \/ saveDevices(p, collector)
       \/ sampleFails(p)

CounterNext == \E c \in Collector : CounterStep(c)

CounterSpec == CounterInit /\ [][CounterNext]_counterVars

(***************************************************************************)
(* Properties.                                                             *)
(***************************************************************************)
CounterTypeOK ==
  /\ bytes \in [Device -> {Gone} \cup 0..MaxBytes]
  /\ boots \in 0..MaxBoots
  /\ today \in 0..MaxDay
  /\ moved \in [Device -> 0..MaxBytes]
  /\ overtaken \subseteq Collector
  /\ \A p \in Sampler : sample[p] # NoSample =>
       /\ sample[p].of \in Collector
       /\ sample[p].day \in 0..MaxDay
       /\ DOMAIN sample[p].stats \subseteq devicesOf(sample[p].of)
  /\ \A c \in Collector :
       row[c] \notin {NoRow, Damaged} =>
         /\ DOMAIN row[c].stats \subseteq devicesOf(c)
         /\ \A d \in DOMAIN row[c].daily : row[c].daily[d] \in DailyCounter

\* The total of a day never exceeds what the device has moved since the last
\* sample of an earlier day, however often counters start again, devices
\* come and go, samples fail and days change ("Counter resets do not add
\* negative deltas", docs/resource-daily-accumulation.md; network.go 35-78,
\* diskio.go 99-143, state.go 131-155).  The one exception: a slow sampler
\* finds a row with newer counters than its own, takes them for a reset and
\* puts the older ones back; the next sample counts the difference again.
DailyWithinTrafficUnlessOvertaken ==
  \A c \in Collector \ overtaken : row[c] \notin {NoRow, Damaged} =>
    \A d \in DOMAIN row[c].daily :
      row[c].daily[d].total <= row[c].at[d] - row[c].since[d]
=============================================================================
