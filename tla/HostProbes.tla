----------------------------- MODULE HostProbes -----------------------------
(***************************************************************************)
(* The collectors that run a program and read its output: systemctl show,  *)
(* once per unit (collectors/systemd), sshd -T, once per user profile, and *)
(* ss (collectors/ssh).  They keep no state, but the host changes between  *)
(* their commands, commands fail, and a command may succeed although the   *)
(* end of its output was lost (see CommandRunner).                         *)
(*                                                                         *)
(* What the host is (truth), what a command prints of it (shown), what of  *)
(* that is left to read (readable) and what the code makes of it (parses,  *)
(* stateMetrics, the ports and directives found) are four things.  The     *)
(* order of the lines is the command's own, so any of them may be lost.    *)
(* One directive stands for the seven, which are compared one by one.      *)
(***************************************************************************)
EXTENDS Integers, FiniteSets

CONSTANTS
  Unit,        \* Options.Services
  Port,        \* expected and forbidden ports
  CutPort,     \* of each port: those its number may read as without its end
  Profile,     \* effectiveProfiles
  Value,       \* what sshd may say of the directive
  CutValue,    \* of each value: those it may read as without its end
  Expected,    \* ExpectedConfig: the value wanted
  MaxChanges,  \* bound on the changes of the host
  MaxProbes    \* bound on the collections

Malformed == "malformed"
UnitFact == {"present", "active", "failed", "activating"}

\* Unit names end with their type.
ASSUME ProbeAssumption ==
  /\ MaxChanges \in Nat /\ MaxProbes \in Nat
  /\ Unit \cap {"ssh_effective_config", "ssh_listeners"} = {}
  /\ (Port \cup Profile) \cap UnitFact = {}
  /\ CutPort \in [Port -> SUBSET Port] /\ Malformed \notin Port
  /\ CutValue \in [Value -> SUBSET Value] /\ Malformed \notin Value

VARIABLES
  host,     \* the units, the listening ports, what sshd would do for whom
  changes,  \* changes so far
  probe,    \* the collection in progress
  probes,   \* collections begun so far
  told,     \* the latest observation
  during    \* history: what the host was when that observation's commands ran

probeVars == <<host, changes, probe, probes, told, during>>

\* A unit may be gone although it still runs, or be between two attempts.
UnitCondition ==
  {"running", "stopped", "starting", "retrying", "failed", "missing", "removed"}
HostState == [unit      : [Unit -> UnitCondition],
              listening : SUBSET Port,
              directive : [Profile -> Value]]

Subject == Unit \cup {"ssh_effective_config", "ssh_listeners"}

\* The fact that is true of a unit in these conditions.
conditions(fact) ==
  CASE fact = "present" -> UnitCondition \ {"missing", "removed"}
    [] fact = "active" -> {"running", "removed"}
    [] fact = "failed" -> {"failed", "retrying"}
    [] fact = "activating" -> {"starting", "retrying"}

\* What is true of a subject on a host.
truth(h, subject) ==
  CASE subject \in Unit -> {f \in UnitFact : h.unit[subject] \in conditions(f)}
    [] subject = "ssh_effective_config" ->
         {p \in Profile : h.directive[p] = Expected}
    [] subject = "ssh_listeners" -> h.listening

(***************************************************************************)
(* Output.  It is whole, or ends after a line, or amid one; of that line   *)
(* there may be too little for a line, or a value that is not the whole    *)
(* one.  No state of systemd is the beginning of another one.              *)
(***************************************************************************)
Ending == {"whole", "line", "amid"}
worse(e, f) == IF "amid" \in {e, f} THEN "amid"
               ELSE IF "line" \in {e, f} THEN "line" ELSE "whole"

\* systemctl show.
shown(condition) ==
  [LoadState   |-> IF condition \in {"missing", "removed"} THEN "not-found"
                   ELSE "loaded",
   ActiveState |-> CASE condition \in {"running", "removed"} -> "active"
                     [] condition \in {"starting", "retrying"} -> "activating"
                     [] condition = "failed" -> "failed"
                     [] condition \in {"stopped", "missing"} -> "inactive",
   SubState    |-> "any",
   Result      |-> IF condition \in {"failed", "retrying"} THEN "exit-code"
                   ELSE "success"]

Property == {"LoadState", "ActiveState", "SubState", "Result"}

\* What is left of the output of systemctl.
readableUnit(out, ended) ==
  CASE ended = "whole" -> {out}
    [] ended = "line" -> {[k \in kept |-> out[k]] : kept \in SUBSET Property}
    [] ended = "amid" ->
         UNION {{[k \in kept \cup {last} |-> IF k = last THEN "cut" ELSE out[k]] :
                   kept \in SUBSET Property} : last \in Property \cup {Malformed}}

\* What is left of a list of items of which each is on a line of its own.
readableList(items, cut, ended) ==
  CASE ended = "whole" -> {items}
    [] ended = "line" -> SUBSET items
    [] ended = "amid" ->
         UNION {{kept \cup last : kept \in SUBSET items} :
                  last \in {{}, {Malformed}} \cup
                           {{x} : x \in UNION {cut[i] : i \in items}}}

(***************************************************************************)
(* The collectors.                                                         *)
(***************************************************************************)
\* todo holds the units or profiles whose turn is still to come; matches is
\* what the profiles before them have given, seen the host they gave it on.
ProbeRecord == [pc      : {"idle", "systemd", "sshd", "ss"},
                todo    : SUBSET (Unit \cup Profile),
                matches : SUBSET Profile,
                ended   : Ending,
                seen    : SUBSET HostState]
NoProbe ==
  [pc |-> "idle", todo |-> {}, matches |-> {}, ended |-> "whole", seen |-> {}]

\* An observation: what it claims, and how the output it was read from ended.
claim(subject, ended, facts) ==
  [subject |-> subject, success |-> TRUE, ended |-> ended, facts |-> facts]
NoClaim(subject) ==
  [subject |-> subject, success |-> FALSE, ended |-> "whole", facts |-> {}]

ProbeInit ==
  /\ host \in {[unit |-> [u \in Unit |-> c], listening |-> ports,
                directive |-> [p \in Profile |-> v]] :
                 c \in UnitCondition, ports \in SUBSET Port, v \in Value}
  /\ changes = 0
  /\ probe = NoProbe
  /\ probes = 0
  /\ told = NoClaim("ssh_listeners")
  /\ during = {}

\* Whatever happens on the host meanwhile.
ChangeHost ==
  /\ changes < MaxChanges
  /\ changes' = changes + 1
  /\ \/ \E u \in Unit, c \in UnitCondition : host' = [host EXCEPT !.unit[u] = c]
     \/ \E p \in Port : host' = [host EXCEPT !.listening =
                                   IF p \in @ THEN @ \ {p} ELSE @ \cup {p}]
     \/ \E p \in Profile, v \in Value : host' = [host EXCEPT !.directive[p] = v]
  /\ UNCHANGED <<probe, probes, told, during>>

BeginProbe ==
  /\ probe.pc = "idle"
  /\ probes < MaxProbes
  /\ probes' = probes + 1
  /\ probe' = [NoProbe EXCEPT !.pc = "systemd", !.todo = Unit]
  /\ UNCHANGED <<host, changes, told, during>>

\* One observation is complete.
tell(observation, hosts) ==
  /\ told' = observation
  /\ during' = hosts

\* Mutated form: no property is required.
parsesAny(lines) == Malformed \notin DOMAIN lines

\* ParseShowOutput: a line without "=" is refused, and so is an output that
\* lacks one of these.
parses(lines) ==
  /\ Malformed \notin DOMAIN lines
  /\ {"LoadState", "ActiveState", "SubState"} \subseteq DOMAIN lines

valueIn(lines, property) ==
  IF property \in DOMAIN lines THEN lines[property] ELSE ""

\* stateMetrics: what an observation claims of a unit.
stateMetrics(lines) ==
  {f \in UnitFact :
     CASE f = "present" -> valueIn(lines, "LoadState") # "not-found"
       [] f = "active" -> valueIn(lines, "ActiveState") = "active"
       [] f = "failed" -> \/ valueIn(lines, "ActiveState") = "failed"
                          \/ valueIn(lines, "Result") \notin {"", "success"}
       [] f = "activating" -> valueIn(lines, "ActiveState") = "activating"}

afterUnit(u) ==
  LET rest == probe.todo \ {u}
  IN IF rest = {}
     THEN [NoProbe EXCEPT !.pc = "sshd", !.todo = Profile]
     ELSE [probe EXCEPT !.todo = rest]

\* The output of a command that failed is believed in one case: it tells that
\* the unit is not there.
collectUnit(u) ==
  /\ probe.pc = "systemd" /\ u \in probe.todo
  /\ \E ended \in Ending, err \in {"none", "command", "other"} :
     \E lines \in readableUnit(shown(host.unit[u]), ended) :
       IF /\ parses(lines)
          /\ \/ err = "none"
             \/ err = "command" /\ valueIn(lines, "LoadState") = "not-found"
       THEN tell(claim(u, ended, stateMetrics(lines)), {host})
       ELSE tell(NoClaim(u), {host})
  /\ probe' = afterUnit(u)
  /\ UNCHANGED <<host, changes, probes>>

\* One profile; the first failure is the observation.
collectEffective(p) ==
  LET subject == "ssh_effective_config"
      hosts == probe.seen \cup {host}
      next(match, worst) ==
        LET matches == IF match THEN probe.matches \cup {p} ELSE probe.matches
        IN IF probe.todo = {p}
           THEN /\ tell(claim(subject, worst, matches), hosts)
                /\ probe' = [NoProbe EXCEPT !.pc = "ss"]
           ELSE /\ probe' = [probe EXCEPT !.todo = @ \ {p}, !.matches = matches,
                               !.ended = worst, !.seen = hosts]
                /\ UNCHANGED <<told, during>>
  IN /\ probe.pc = "sshd" /\ p \in probe.todo
     /\ \/ \E ended \in Ending :
           \E said \in readableList({host.directive[p]}, CutValue, ended) :
             /\ Malformed \notin said
             /\ next(Expected \in said, worse(probe.ended, ended))
        \/ /\ tell(NoClaim(subject), hosts)
           /\ probe' = [NoProbe EXCEPT !.pc = "ss"]
     /\ UNCHANGED <<host, changes, probes>>

collectPorts ==
  LET subject == "ssh_listeners"
  IN /\ probe.pc = "ss"
     /\ \/ \E ended \in Ending :
           \E ports \in readableList(host.listening, CutPort, ended) :
             /\ Malformed \notin ports
             /\ tell(claim(subject, ended, ports), {host})
        \/ tell(NoClaim(subject), {host})
     /\ probe' = NoProbe
     /\ UNCHANGED <<host, changes, probes>>

ProbeNext ==
  \/ ChangeHost \/ BeginProbe \/ collectPorts
  \/ \E u \in Unit : collectUnit(u)
  \/ \E p \in Profile : collectEffective(p)

ProbeSpec == ProbeInit /\ [][ProbeNext]_probeVars
-----------------------------------------------------------------------------
Fact == UnitFact \cup Profile \cup Port

\* The types of the host, of the collection and of what it has told.
ProbeTypeOK ==
  /\ host \in HostState
  /\ changes \in 0..MaxChanges
  /\ probe \in ProbeRecord
  /\ probes \in 0..MaxProbes
  /\ told \in [subject : Subject, success : BOOLEAN, ended : Ending,
               facts : SUBSET Fact]
  /\ during \in SUBSET HostState

\* What may be relied on of a fact that is claimed or denied.  Lost lines may
\* hide a failure, a match or a port, and nothing else, since the states of a
\* unit are required.  A line that lost its own end may also make a unit
\* present or failed, a port out of the beginning of another and a match out
\* of the beginning of a value: then only these are left.
assured(ended, f, claimed) ==
  \/ ended = "whole"
  \/ ended = "line" /\ (claimed \/ f \in {"present", "active", "activating"})
  \/ ended = "amid" /\ IF claimed THEN f \in {"active", "activating"}
                       ELSE f = "present"

\* A successful observation claims and denies of each unit, profile and port
\* what was the case, or not, at some moment of the collection, not before it,
\* as far as the output it was read from allows (services.go 70-148, parser.go
\* 41-110, effective.go 64-119, ports.go 9-30).  The profiles of one observation
\* may be from different moments: they need not have been true together.
ClaimsWereTrue ==
  told.success =>
    \A f \in Fact :
      assured(told.ended, f, f \in told.facts) =>
        \E h \in during : f \in told.facts <=> f \in truth(h, told.subject)
=============================================================================
