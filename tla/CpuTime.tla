------------------------------ MODULE CpuTime ------------------------------
(***************************************************************************)
(* The processor collector (collectors/resources/cpu.go) and its row in    *)
(* table collector_state.  The kernel counts ticks of the aggregate "cpu"  *)
(* line, from zero after a reboot; the row survives the reboot.  The       *)
(* classes user, nice, system, irq and softirq, which the code only adds,  *)
(* are one counter here.                                                   *)
(***************************************************************************)
EXTENDS CounterState

CONSTANTS
  MaxTicks,   \* bound on each counter
  MaxReboots  \* bound on reboots

ASSUME CpuAssumption == MaxTicks \in Nat /\ MaxReboots \in Nat

VARIABLES
  cpu,      \* the counters of the kernel
  reboots,  \* reboots so far
  reading,  \* the counters just read, or NoCpu
  cpuRow,   \* the row: the counters of the last sample, or NoCpu
  cpuSeen   \* the latest observation

cpuVars == <<cpu, reboots, reading, cpuRow, cpuSeen>>

CPUStat == [idle : 0..MaxTicks, iowait : 0..MaxTicks, steal : 0..MaxTicks,
            other : 0..MaxTicks]
CpuStart == [idle |-> 0, iowait |-> 0, steal |-> 0, other |-> 0]
NoCpu == [idle |-> -1, iowait |-> -1, steal |-> -1, other |-> -1]

\* The used ratio as numerator and denominator; 0/0 is no metric.
NoRatio == [stale |-> FALSE, busy |-> 0, total |-> 0]

CpuInit ==
  /\ cpu = CpuStart
  /\ reboots = 0
  /\ reading = NoCpu
  /\ cpuRow = NoCpu
  /\ cpuSeen = NoRatio

Work ==
  /\ \E c \in DOMAIN cpu :
       /\ cpu[c] < MaxTicks
       /\ cpu' = [cpu EXCEPT ![c] = @ + 1]
  /\ UNCHANGED <<reboots, reading, cpuRow, cpuSeen>>

\* The reader dies with the machine.
RebootMachine ==
  /\ reboots < MaxReboots
  /\ reboots' = reboots + 1
  /\ cpu' = CpuStart
  /\ reading' = NoCpu
  /\ UNCHANGED <<cpuRow, cpuSeen>>

Total(c) == c.idle + c.iowait + c.steal + c.other
Busy(c) == Total(c) - (c.idle + c.iowait)

readCPU ==
  /\ reading = NoCpu
  /\ reading' = cpu
  /\ UNCHANGED <<cpu, reboots, cpuRow, cpuSeen>>

cpuObservation(previous, current) ==
  LET total == CalculateCounterDelta(Total(previous), Total(current), TRUE)
      busy == CalculateCounterDelta(Busy(previous), Busy(current), TRUE)
      iowait == CalculateCounterDelta(previous.iowait, current.iowait, TRUE)
      steal == CalculateCounterDelta(previous.steal, current.steal, TRUE)
  IN IF total.reset \/ busy.reset \/ iowait.reset \/ steal.reset
       THEN [NoRatio EXCEPT !.stale = TRUE]
     ELSE IF total.delta = 0 THEN NoRatio
     ELSE [stale |-> FALSE, busy |-> busy.delta, total |-> total.delta]

CollectCPU ==
  /\ reading # NoCpu
  /\ cpuSeen' = IF cpuRow = NoCpu THEN NoRatio
                ELSE cpuObservation(cpuRow, reading)
  /\ cpuRow' = reading
  /\ reading' = NoCpu
  /\ UNCHANGED <<cpu, reboots>>

\* The context ended, the store refused or the process died.
cpuFails ==
  /\ reading # NoCpu
  /\ reading' = NoCpu
  /\ UNCHANGED <<cpu, reboots, cpuRow, cpuSeen>>

CpuNext == Work \/ RebootMachine \/ readCPU \/ CollectCPU \/ cpuFails

CpuSpec == CpuInit /\ [][CpuNext]_cpuVars

(***************************************************************************)
(* Properties.                                                             *)
(***************************************************************************)
CpuTypeOK ==
  /\ cpu \in CPUStat
  /\ reboots \in 0..MaxReboots
  /\ reading \in CPUStat \cup {NoCpu}
  /\ cpuRow \in CPUStat \cup {NoCpu}
  /\ cpuSeen \in [stale : BOOLEAN, busy : Nat, total : Nat]

\* A used ratio is a share of the ticks between two samples.  "Counter resets
\* mark the observation stale and refresh the baseline", and the first sample
\* "does not emit a false usage spike" (docs/cpu-collector.md).  A reboot is
\* noticed only when total, busy, iowait or steal is lower than before; the
\* idle counter is not compared (cpu.go 143-147), and a machine that has been
\* busy since shows a ratio above one.
UsedWithinTotal == cpuSeen.busy <= cpuSeen.total
=============================================================================
