----------------------------- MODULE HostProofs -----------------------------
(***************************************************************************)
(* Proofs about what is read from the host: the result of a command says   *)
(* what happened (CommandRunner), and every observation claims what was    *)
(* the case (HostProbes); about what a call of the command line leaves on  *)
(* it (CommandLine); about what an agent starts with, whatever its         *)
(* configuration file holds (AgentConfig); and about all parts of the host *)
(* side by side (MCHost).                                                  *)
(***************************************************************************)
EXTENDS MCHost, StorageProofs, TLAPS

(***************************************************************************)
(* HostProbes.                                                             *)
(***************************************************************************)
\* Every claim and denial among the facts that can be relied on is right.
right(ended, facts, h, subject) ==
  \A f \in Fact :
    assured(ended, f, f \in facts) => (f \in facts <=> f \in truth(h, subject))

\* What sshd has said so far: of every profile before those in todo, what was
\* the case on a host that was seen, as far as it can be relied on.
ProfilesWereTrue ==
  probe.pc = "sshd" =>
    /\ probe.todo \cap probe.matches = {}
    /\ \A p \in Profile \ probe.todo :
         assured(probe.ended, p, p \in probe.matches) =>
           \E h \in probe.seen :
             p \in probe.matches <=> p \in truth(h, "ssh_effective_config")

ProbeInv == ProbeTypeOK /\ ProfilesWereTrue /\ ClaimsWereTrue

\* What is true of each kind of subject.
LEMMA TruthOf ==
  ASSUME NEW h
  PROVE  /\ \A u \in Unit :
              truth(h, u) = {f \in UnitFact : h.unit[u] \in conditions(f)}
         /\ truth(h, "ssh_effective_config") =
              {p \in Profile : h.directive[p] = Expected}
         /\ truth(h, "ssh_listeners") = h.listening
BY ProbeAssumption DEF ProbeAssumption, truth

\* Ports and profiles are no facts of units.
LEMMA KindsApart == \A f \in Port \cup Profile : f \notin UnitFact
BY ProbeAssumption DEF ProbeAssumption

\* Whatever can be relied on when several outputs were read, can be relied on
\* in each of them.
LEMMA WorseAssuresLess ==
  ASSUME NEW d \in Ending, NEW e \in Ending, NEW f, NEW x, NEW S,
         assured(worse(d, e), f, x \in S)
  PROVE  assured(d, f, x \in S) /\ assured(e, f, x \in S)
BY DEF Ending, worse, assured

\* What is read of a property is what systemctl printed, or nothing when its
\* line was lost, or something else when the line itself was cut.
LEMMA ValuesRead ==
  ASSUME NEW condition \in UnitCondition, NEW ended \in Ending,
         NEW lines \in readableUnit(shown(condition), ended), parses(lines),
         NEW k \in Property
  PROVE  /\ ended = "whole" => valueIn(lines, k) = shown(condition)[k]
         /\ ended = "line" => \/ valueIn(lines, k) = shown(condition)[k]
                              \/ (k = "Result" /\ valueIn(lines, k) = "")
         /\ ended = "amid" => valueIn(lines, k) \in {shown(condition)[k], "cut", ""}
<1> DEFINE out == shown(condition)
<1>1. DOMAIN out = Property
  BY DEF shown, Property
<1>2. k # "Result" => k \in DOMAIN lines
  BY DEF parses, Property
<1>3. CASE ended = "whole"
  BY <1>1, <1>3 DEF readableUnit, valueIn
<1>4. CASE ended = "line"
  <2>1. PICK kept \in SUBSET Property : lines = [j \in kept |-> out[j]]
    BY <1>4 DEF readableUnit
  <2> HIDE DEF out
  <2>2. k \in DOMAIN lines => lines[k] = out[k]
    BY <2>1
  <2>3. valueIn(lines, k) = out[k] \/ (k = "Result" /\ valueIn(lines, k) = "")
    BY <1>2, <2>2 DEF valueIn
  <2> QED
    BY <1>4, <2>3 DEF out
<1>5. CASE ended = "amid"
  <2>1. PICK kept \in SUBSET Property, last \in Property \cup {Malformed} :
          lines = [j \in kept \cup {last} |-> IF j = last THEN "cut" ELSE out[j]]
    <3> HIDE DEF out
    <3> DEFINE cutIn(last) ==
                 {[j \in kept \cup {last} |-> IF j = last THEN "cut" ELSE out[j]] :
                    kept \in SUBSET Property}
    <3>1. readableUnit(out, ended) =
            UNION {cutIn(last) : last \in Property \cup {Malformed}}
      BY <1>5 DEF readableUnit
    <3>2. lines \in readableUnit(out, ended)
      BY DEF out
    <3> HIDE DEF cutIn
    <3>3. PICK last \in Property \cup {Malformed} : lines \in cutIn(last)
      BY <3>1, <3>2
    <3> USE DEF cutIn
    <3>4. PICK kept \in SUBSET Property :
            lines = [j \in kept \cup {last} |-> IF j = last THEN "cut" ELSE out[j]]
      BY <3>3
    <3> HIDE DEF cutIn
    <3> QED
      BY <3>4
  <2> HIDE DEF out
  <2>2. k \in DOMAIN lines => lines[k] \in {out[k], "cut"}
    BY <2>1
  <2>3. valueIn(lines, k) \in {out[k], "cut", ""}
    BY <2>2 DEF valueIn
  <2> QED
    BY <1>5, <2>3 DEF out
<1> QED
  BY <1>3, <1>4, <1>5 DEF Ending

\* Where systemctl's answer was read, the facts that can be relied on are right
\* (services.go 121-160).
LEMMA UnitRight ==
  ASSUME NEW u \in Unit, NEW ended \in Ending, host \in HostState,
         NEW lines \in readableUnit(shown(host.unit[u]), ended), parses(lines)
  PROVE  right(ended, stateMetrics(lines), host, u)
<1> DEFINE c == host.unit[u]
           load == valueIn(lines, "LoadState")
           active == valueIn(lines, "ActiveState")
           result == valueIn(lines, "Result")
<1>1. c \in UnitCondition
  BY DEF HostState
<1>2. /\ "LoadState" \in Property /\ "ActiveState" \in Property
      /\ "Result" \in Property
  BY DEF Property
<1>3. /\ ended = "whole" =>
           /\ load = shown(c)["LoadState"] /\ active = shown(c)["ActiveState"]
           /\ result = shown(c)["Result"]
      /\ ended = "line" =>
           /\ load = shown(c)["LoadState"] /\ active = shown(c)["ActiveState"]
           /\ result \in {shown(c)["Result"], ""}
      /\ ended = "amid" =>
           /\ load \in {shown(c)["LoadState"], "cut", ""}
           /\ active \in {shown(c)["ActiveState"], "cut", ""}
  <2>1. ASSUME NEW k \in Property
        PROVE  /\ ended = "whole" => valueIn(lines, k) = shown(c)[k]
               /\ ended = "line" => \/ valueIn(lines, k) = shown(c)[k]
                                    \/ (k = "Result" /\ valueIn(lines, k) = "")
               /\ ended = "amid" => valueIn(lines, k) \in {shown(c)[k], "cut", ""}
    BY <1>1, <2>1, ValuesRead
  <2> HIDE DEF c
  <2> QED
    BY <1>2, <2>1
<1>4. /\ "present" \in stateMetrics(lines) <=> load # "not-found"
      /\ "active" \in stateMetrics(lines) <=> active = "active"
      /\ "failed" \in stateMetrics(lines) <=>
           active = "failed" \/ result \notin {"", "success"}
      /\ "activating" \in stateMetrics(lines) <=> active = "activating"
      /\ stateMetrics(lines) \subseteq UnitFact
  <2> HIDE DEF load, active, result
  <2>1. stateMetrics(lines) =
          {f \in UnitFact :
             CASE f = "present" -> load # "not-found"
               [] f = "active" -> active = "active"
               [] f = "failed" -> active = "failed" \/ result \notin {"", "success"}
               [] f = "activating" -> active = "activating"}
    BY Zenon DEF stateMetrics, load, active, result
  <2> QED
    BY <2>1 DEF UnitFact
<1>5. /\ "present" \in truth(host, u) <=> c \notin {"missing", "removed"}
      /\ "active" \in truth(host, u) <=> c \in {"running", "removed"}
      /\ "failed" \in truth(host, u) <=> c \in {"failed", "retrying"}
      /\ "activating" \in truth(host, u) <=> c \in {"starting", "retrying"}
      /\ truth(host, u) \subseteq UnitFact
  <2>1. truth(host, u) = {f \in UnitFact : c \in conditions(f)}
    BY TruthOf
  <2> HIDE DEF c
  <2> QED
    BY <1>1, <2>1 DEF UnitFact, conditions
<1>6. /\ shown(c)["LoadState"] = "not-found" <=> c \in {"missing", "removed"}
      /\ shown(c)["ActiveState"] = "active" <=> c \in {"running", "removed"}
      /\ shown(c)["ActiveState"] = "activating" <=> c \in {"starting", "retrying"}
      /\ shown(c)["ActiveState"] = "failed" <=> c = "failed"
      /\ shown(c)["Result"] \in {"exit-code", "success"}
      /\ shown(c)["Result"] = "exit-code" <=> c \in {"failed", "retrying"}
  <2> HIDE DEF c
  <2> QED
    BY <1>1 DEF shown, UnitCondition
<1> HIDE DEF c, load, active, result
<1>7. ASSUME NEW f \in UnitFact, assured(ended, f, f \in stateMetrics(lines))
      PROVE  f \in stateMetrics(lines) <=> f \in truth(host, u)
  <2>1. CASE f = "present"
    BY <1>3, <1>4, <1>5, <1>6, <1>7, <2>1 DEF assured
  <2>2. CASE f = "active"
    BY <1>3, <1>4, <1>5, <1>6, <1>7, <2>2 DEF assured
  <2>3. CASE f = "failed"
    BY <1>3, <1>4, <1>5, <1>6, <1>7, <2>3 DEF assured
  <2>4. CASE f = "activating"
    BY <1>3, <1>4, <1>5, <1>6, <1>7, <2>4 DEF assured
  <2> QED
    BY <2>1, <2>2, <2>3, <2>4 DEF UnitFact
<1>8. ASSUME NEW f \in Fact, f \notin UnitFact
      PROVE  f \notin stateMetrics(lines) /\ f \notin truth(host, u)
  BY <1>4, <1>5, <1>8
<1> QED
  BY <1>7, <1>8 DEF right

\* Where the list of ports was read, likewise (ports.go 9-31).
LEMMA PortsRight ==
  ASSUME NEW ended \in Ending, host \in HostState,
         NEW ports \in readableList(host.listening, CutPort, ended),
         Malformed \notin ports
  PROVE  ports \subseteq Port /\ right(ended, ports, host, "ssh_listeners")
<1>1. host.listening \subseteq Port
  BY DEF HostState
<1>2. truth(host, "ssh_listeners") = host.listening
  BY TruthOf
<1>3. \A f \in Port : f \notin UnitFact
  BY KindsApart
<1>4. CASE ended = "whole"
  BY <1>1, <1>2, <1>4 DEF readableList, right
<1>5. CASE ended = "line"
  <2>1. ports \subseteq host.listening
    BY <1>5 DEF readableList
  <2> QED
    BY <1>1, <1>2, <1>3, <1>5, <2>1 DEF right, assured, UnitFact
<1>6. CASE ended = "amid"
  <2>1. PICK kept \in SUBSET host.listening,
             last \in {{}, {Malformed}} \cup
               {{x} : x \in UNION {CutPort[i] : i \in host.listening}} :
          ports = kept \cup last
    <3> DEFINE lasts == {{}, {Malformed}} \cup
                 {{x} : x \in UNION {CutPort[i] : i \in host.listening}}
    <3>1. readableList(host.listening, CutPort, ended) =
            UNION {{kept \cup last : kept \in SUBSET host.listening} : last \in lasts}
      BY <1>6 DEF readableList
    <3> HIDE DEF lasts
    <3>2. \E kept \in SUBSET host.listening, last \in lasts :
            ports = kept \cup last
      <4>1. PICK last \in lasts :
              ports \in {kept \cup last : kept \in SUBSET host.listening}
        BY <3>1, Zenon
      <4> QED
        BY <4>1, Zenon
    <3> QED
      BY <3>2 DEF lasts
  <2>2. last \subseteq Port \cup {Malformed}
    BY <1>1, <2>1, ProbeAssumption DEF ProbeAssumption
  <2>3. ports \subseteq Port
    BY <1>1, <2>1, <2>2
  <2> QED
    BY <1>1, <1>2, <1>3, <1>6, <2>3 DEF right, assured, UnitFact
<1> QED
  BY <1>4, <1>5, <1>6 DEF Ending

\* Where the directive of a profile was read, likewise (syntax.go 92-121).
LEMMA ProfileRight ==
  ASSUME NEW p \in Profile, NEW ended \in Ending,
         NEW said \in readableList({host.directive[p]}, CutValue, ended),
         assured(ended, p, Expected \in said)
  PROVE  Expected \in said <=> p \in truth(host, "ssh_effective_config")
<1>1. p \in truth(host, "ssh_effective_config") <=> host.directive[p] = Expected
  BY TruthOf
<1>2. p \notin UnitFact
  BY KindsApart
<1>3. CASE ended = "whole"
  BY <1>1, <1>3 DEF readableList
<1>4. CASE ended = "line"
  BY <1>1, <1>2, <1>4 DEF readableList, assured, UnitFact
<1>5. CASE ended = "amid"
  BY <1>2, <1>5 DEF assured, UnitFact
<1> QED
  BY <1>3, <1>4, <1>5 DEF Ending

\* An answer about one host tells what was the case on it; one that failed
\* claims nothing.
LEMMA ToldOfHost ==
  ASSUME NEW subject \in Subject, NEW ended, NEW facts,
         \/ /\ tell(claim(subject, ended, facts), {host})
            /\ right(ended, facts, host, subject)
         \/ tell(NoClaim(subject), {host})
  PROVE  ClaimsWereTrue'
<1>1. CASE tell(claim(subject, ended, facts), {host})
           /\ right(ended, facts, host, subject)
  <2>1. /\ told'.facts = facts /\ told'.subject = subject
        /\ told'.ended = ended /\ during' = {host}
    BY <1>1 DEF tell, claim
  <2>2. \A f \in Fact : assured(told'.ended, f, f \in told'.facts) =>
          (f \in told'.facts <=> f \in truth(host, told'.subject))
    BY <1>1, <2>1, Zenon DEF right
  <2> QED
    BY <2>1, <2>2, Zenon DEF ClaimsWereTrue, truth, assured
<1>2. CASE tell(NoClaim(subject), {host})
  BY <1>2 DEF tell, NoClaim, ClaimsWereTrue
<1> QED
  BY <1>1, <1>2

\* Initially nothing has been told.
LEMMA ProbeInitInv == ProbeInit => ProbeInv
<1> SUFFICES ASSUME ProbeInit PROVE ProbeInv
  OBVIOUS
<1>1. host \in HostState
  <2>1. PICK c \in UnitCondition, ports \in SUBSET Port, v \in Value :
          host = [unit |-> [u \in Unit |-> c], listening |-> ports,
                  directive |-> [p \in Profile |-> v]]
    BY DEF ProbeInit
  <2> QED
    BY <2>1 DEF HostState
<1>2. probe \in ProbeRecord /\ ProfilesWereTrue
  BY DEF ProbeInit, NoProbe, ProbeRecord, ProfilesWereTrue, Ending
<1>3. /\ told \in [subject : Subject, success : BOOLEAN, ended : Ending,
                    facts : SUBSET Fact]
      /\ ClaimsWereTrue
  BY DEF ProbeInit, NoClaim, Subject, ClaimsWereTrue, Ending
<1> QED
  BY <1>1, <1>2, <1>3, ProbeAssumption
     DEF ProbeInit, ProbeInv, ProbeTypeOK, ProbeAssumption

\* What is told is of the right type when its facts are.
LEMMA ToldType ==
  ASSUME NEW subject \in Subject, NEW ended \in Ending,
         NEW facts \in SUBSET Fact, NEW hosts \in SUBSET HostState,
         \/ tell(claim(subject, ended, facts), hosts)
         \/ tell(NoClaim(subject), hosts)
  PROVE  /\ told' \in [subject : Subject, success : BOOLEAN, ended : Ending,
                       facts : SUBSET Fact]
         /\ during' \in SUBSET HostState
<1>1. CASE tell(claim(subject, ended, facts), hosts)
  BY <1>1 DEF tell, claim
<1>2. CASE tell(NoClaim(subject), hosts)
  BY <1>2 DEF tell, NoClaim, Ending
<1> QED
  BY <1>1, <1>2

\* The host may change at any time into another host.
LEMMA ChangeHostStep ==
  ASSUME ProbeInv, ChangeHost PROVE ProbeInv'
<1> USE DEF ProbeInv, ProbeTypeOK
<1>1. host' \in HostState
  <2>1. CASE \E u \in Unit, c \in UnitCondition :
               host' = [host EXCEPT !.unit[u] = c]
    BY <2>1 DEF HostState
  <2>2. CASE \E p \in Port : host' = [host EXCEPT !.listening =
                                 IF p \in @ THEN @ \ {p} ELSE @ \cup {p}]
    BY <2>2 DEF HostState
  <2>3. CASE \E p \in Profile, v \in Value :
               host' = [host EXCEPT !.directive[p] = v]
    BY <2>3 DEF HostState
  <2> QED
    BY <2>1, <2>2, <2>3 DEF ChangeHost
<1>2. UNCHANGED <<probe, probes, told, during>> /\ changes' \in 0..MaxChanges
  BY ProbeAssumption DEF ChangeHost, ProbeAssumption
<1>3. ProfilesWereTrue' /\ ClaimsWereTrue'
  BY <1>2 DEF ProfilesWereTrue, ClaimsWereTrue, truth, assured
<1> QED
  BY <1>1, <1>2, <1>3

\* One systemctl: its observation is about the host of that moment, and the
\* first sshd starts with nothing seen.
LEMMA UnitStep ==
  ASSUME ProbeInv, NEW u \in Unit, collectUnit(u) PROVE ProbeInv'
<1> USE DEF ProbeInv, ProbeTypeOK
<1>1. UNCHANGED <<host, changes, probes>> /\ u \in Subject
  BY DEF collectUnit, Subject
<1>2. probe' \in ProbeRecord /\ ProfilesWereTrue'
  <2>1. CASE probe.todo \ {u} = {}
    <3>1. probe' = [pc |-> "sshd", todo |-> Profile, matches |-> {},
                    ended |-> "whole", seen |-> {}]
      BY <2>1 DEF collectUnit, afterUnit, NoProbe
    <3> QED
      BY <3>1 DEF ProbeRecord, ProfilesWereTrue, Ending
  <2>2. CASE probe.todo \ {u} # {}
    BY <2>2 DEF collectUnit, afterUnit, ProbeRecord, ProfilesWereTrue
  <2> QED
    BY <2>1, <2>2
<1>3. PICK ended \in Ending :
        \E lines \in readableUnit(shown(host.unit[u]), ended) :
          \/ /\ parses(lines)
             /\ tell(claim(u, ended, stateMetrics(lines)), {host})
          \/ tell(NoClaim(u), {host})
  BY Zenon DEF collectUnit
<1>4. PICK lines \in readableUnit(shown(host.unit[u]), ended) :
        \/ /\ parses(lines)
           /\ tell(claim(u, ended, stateMetrics(lines)), {host})
        \/ tell(NoClaim(u), {host})
  BY <1>3
<1> DEFINE facts == stateMetrics(lines)
<1>5. parses(lines) => right(ended, facts, host, u)
  BY UnitRight
<1>6. facts \in SUBSET Fact
  <2>1. facts \subseteq UnitFact
    BY Zenon DEF stateMetrics
  <2> QED
    BY <2>1 DEF Fact
<1> HIDE DEF facts
<1>7. \/ tell(claim(u, ended, facts), {host}) /\ right(ended, facts, host, u)
      \/ tell(NoClaim(u), {host})
  BY <1>4, <1>5, Zenon DEF facts
<1>8. ClaimsWereTrue'
  BY <1>1, <1>7, ToldOfHost
<1>9. /\ told' \in [subject : Subject, success : BOOLEAN, ended : Ending,
                    facts : SUBSET Fact]
      /\ during' \in SUBSET HostState
  <2>1. {host} \in SUBSET HostState
    OBVIOUS
  <2> QED
    BY <1>1, <1>6, <1>7, <2>1, ToldType
<1> QED
  BY <1>1, <1>2, <1>8, <1>9

\* One ss, likewise.
LEMMA PortsStep ==
  ASSUME ProbeInv, collectPorts PROVE ProbeInv'
<1> USE DEF ProbeInv, ProbeTypeOK
<1> DEFINE subject == "ssh_listeners"
<1>1. /\ UNCHANGED <<host, changes, probes>> /\ probe' = NoProbe
      /\ subject \in Subject
  BY DEF collectPorts, Subject
<1>2. probe' \in ProbeRecord /\ ProfilesWereTrue'
  BY <1>1 DEF NoProbe, ProbeRecord, ProfilesWereTrue, Ending
<1>3. \/ \E ended \in Ending :
           \E ports \in readableList(host.listening, CutPort, ended) :
             /\ Malformed \notin ports
             /\ tell(claim(subject, ended, ports), {host})
      \/ tell(NoClaim(subject), {host})
  BY Zenon DEF collectPorts
<1>4. \E ended \in Ending, ports \in SUBSET Fact :
        \/ /\ tell(claim(subject, ended, ports), {host})
           /\ right(ended, ports, host, subject)
        \/ tell(NoClaim(subject), {host})
  <2>1. ASSUME NEW ended \in Ending,
               NEW ports \in readableList(host.listening, CutPort, ended),
               Malformed \notin ports
        PROVE  ports \in SUBSET Fact /\ right(ended, ports, host, subject)
    BY <2>1, PortsRight DEF Fact
  <2>2. {} \in SUBSET Fact /\ "whole" \in Ending
    BY DEF Ending
  <2> QED
    BY <1>3, <2>1, <2>2, Zenon
<1>5. PICK ended \in Ending, ports \in SUBSET Fact :
        \/ /\ tell(claim(subject, ended, ports), {host})
           /\ right(ended, ports, host, subject)
        \/ tell(NoClaim(subject), {host})
  BY <1>4
<1> HIDE DEF subject
<1>6. ClaimsWereTrue'
  BY <1>1, <1>5, ToldOfHost
<1>7. /\ told' \in [subject : Subject, success : BOOLEAN, ended : Ending,
                    facts : SUBSET Fact]
      /\ during' \in SUBSET HostState
  <2>1. {host} \in SUBSET HostState
    OBVIOUS
  <2> QED
    BY <1>1, <1>5, <2>1, ToldType
<1> QED
  BY <1>1, <1>2, <1>6, <1>7

\* One sshd: what it says of its profile is about the host of that moment, which
\* joins those the profiles before it were asked on.
LEMMA ProfileStep ==
  ASSUME ProbeInv, NEW p \in Profile, collectEffective(p) PROVE ProbeInv'
<1> USE DEF ProbeInv, ProbeTypeOK
<1> DEFINE subject == "ssh_effective_config"
           hosts == probe.seen \cup {host}
           next(matches, worst) ==
             IF probe.todo = {p}
             THEN /\ tell(claim(subject, worst, matches), hosts)
                  /\ probe' = [NoProbe EXCEPT !.pc = "ss"]
             ELSE /\ probe' = [probe EXCEPT !.todo = @ \ {p},
                       !.matches = matches, !.ended = worst, !.seen = hosts]
                  /\ UNCHANGED <<told, during>>
           follows(matches, worst) ==
             /\ \A q \in Profile \ {p} :
                  /\ q \in matches <=> q \in probe.matches
                  /\ assured(worst, q, q \in matches) =>
                       assured(probe.ended, q, q \in probe.matches)
             /\ assured(worst, p, p \in matches) =>
                  (p \in matches <=> p \in truth(host, subject))
<1>1. /\ UNCHANGED <<host, changes, probes>>
      /\ probe.pc = "sshd" /\ p \in probe.todo
  BY DEF collectEffective
<1>2. /\ subject \in Subject
      /\ \A h : truth(h, subject) = {q \in Profile : h.directive[q] = Expected}
  BY TruthOf DEF Subject
<1>3. hosts \in SUBSET HostState
  BY DEF ProbeRecord
<1>4. /\ probe.matches \in SUBSET Profile /\ p \notin probe.matches
      /\ probe.ended \in Ending
  BY <1>1 DEF ProbeRecord, ProfilesWereTrue
<1>5. CASE tell(NoClaim(subject), hosts) /\ probe' = [NoProbe EXCEPT !.pc = "ss"]
  <2>1. probe' \in ProbeRecord /\ ProfilesWereTrue'
    BY <1>5 DEF NoProbe, ProbeRecord, ProfilesWereTrue, Ending
  <2>2. ClaimsWereTrue'
    BY <1>5 DEF tell, NoClaim, ClaimsWereTrue
  <2>3. /\ told' \in [subject : Subject, success : BOOLEAN, ended : Ending,
                      facts : SUBSET Fact]
        /\ during' \in SUBSET HostState
    BY <1>2, <1>3, <1>5 DEF tell, NoClaim, Ending
  <2> QED
    BY <1>1, <2>1, <2>2, <2>3
<1>6. ASSUME NEW matches \in SUBSET Profile, NEW worst \in Ending,
             follows(matches, worst), next(matches, worst)
      PROVE  ProbeInv'
  <2>1. ASSUME NEW q \in Profile \ (probe.todo \ {p}),
               assured(worst, q, q \in matches)
        PROVE  \E h \in hosts : q \in matches <=> q \in truth(h, subject)
    <3>1. CASE q = p
      BY <1>6, <2>1, <3>1
    <3>2. CASE q # p
      <4>1. assured(probe.ended, q, q \in probe.matches)
        BY <1>6, <2>1, <3>2
      <4>2. PICK h \in probe.seen :
              q \in probe.matches <=> q \in truth(h, subject)
        BY <1>1, <2>1, <3>2, <4>1 DEF ProfilesWereTrue
      <4> QED
        BY <1>6, <3>2, <4>2
    <3> QED
      BY <3>1, <3>2
  <2>2. CASE probe.todo = {p}
    <3>1. /\ told' = claim(subject, worst, matches) /\ during' = hosts
          /\ probe' = [NoProbe EXCEPT !.pc = "ss"]
      BY <1>6, <2>2 DEF tell
    <3>2. probe' \in ProbeRecord /\ ProfilesWereTrue'
      BY <3>1 DEF NoProbe, ProbeRecord, ProfilesWereTrue, Ending
    <3>3. ClaimsWereTrue'
      <4> SUFFICES ASSUME NEW f \in Fact, assured(worst, f, f \in matches)
                   PROVE  \E h \in hosts :
                            f \in matches <=> f \in truth(h, subject)
        BY <3>1 DEF ClaimsWereTrue, claim, truth, assured
      <4>1. CASE f \in Profile
        BY <2>1, <2>2, <4>1
      <4>2. CASE f \notin Profile
        BY <1>2, <4>2
      <4> QED
        BY <4>1, <4>2
    <3>4. /\ told' \in [subject : Subject, success : BOOLEAN, ended : Ending,
                        facts : SUBSET Fact]
          /\ during' \in SUBSET HostState
      BY <1>2, <1>3, <3>1 DEF claim, Fact
    <3> QED
      BY <1>1, <3>2, <3>3, <3>4
  <2>3. CASE probe.todo # {p}
    <3>1. /\ probe' = [probe EXCEPT !.todo = @ \ {p}, !.matches = matches,
                                   !.ended = worst, !.seen = hosts]
          /\ UNCHANGED <<told, during>>
      BY <1>6, <2>3
    <3>2. probe' \in ProbeRecord
      BY <1>3, <3>1 DEF ProbeRecord
    <3>3. /\ probe'.todo = probe.todo \ {p} /\ probe'.matches = matches
          /\ probe'.ended = worst /\ probe'.seen = hosts
      BY <3>1 DEF ProbeRecord
    <3>4. (probe.todo \ {p}) \cap matches = {}
      BY <1>1, <1>6 DEF ProfilesWereTrue, ProbeRecord
    <3>5. ProfilesWereTrue'
      BY <2>1, <3>3, <3>4 DEF ProfilesWereTrue, truth, assured
    <3>6. ClaimsWereTrue'
      BY <3>1 DEF ClaimsWereTrue, truth, assured
    <3> QED
      BY <1>1, <3>1, <3>2, <3>5, <3>6
  <2> QED
    BY <2>2, <2>3
<1>7. CASE ~(tell(NoClaim(subject), hosts)
             /\ probe' = [NoProbe EXCEPT !.pc = "ss"])
  <2> DEFINE added(match) ==
               IF match THEN probe.matches \cup {p} ELSE probe.matches
  <2>1. \E ended \in Ending :
          \E said \in readableList({host.directive[p]}, CutValue, ended) :
            next(added(Expected \in said), worse(probe.ended, ended))
    BY <1>7, Zenon DEF collectEffective
  <2> HIDE DEF next
  <2>a. PICK ended \in Ending :
          \E said \in readableList({host.directive[p]}, CutValue, ended) :
            next(added(Expected \in said), worse(probe.ended, ended))
    BY <2>1
  <2>2. PICK said \in readableList({host.directive[p]}, CutValue, ended) :
          next(added(Expected \in said), worse(probe.ended, ended))
    BY <2>a
  <2> DEFINE match == Expected \in said
             matches == added(match)
             worst == worse(probe.ended, ended)
  <2>3. worst \in Ending /\ matches \in SUBSET Profile
    BY <1>4 DEF worse, Ending
  <2>4. p \in matches <=> match
    BY <1>4
  <2>5. \A q \in Profile \ {p} : q \in matches <=> q \in probe.matches
    OBVIOUS
  <2>6. ASSUME assured(worst, p, p \in matches)
        PROVE  p \in matches <=> p \in truth(host, subject)
    <3>1. assured(worst, p, Expected \in said)
      BY <2>4, <2>6 DEF assured
    <3>2. assured(ended, p, Expected \in said)
      BY <1>4, <3>1, WorseAssuresLess, Zenon
    <3> QED
      BY <2>4, <3>2, ProfileRight
  <2>7. ASSUME NEW q \in Profile \ {p}, assured(worst, q, q \in matches)
        PROVE  assured(probe.ended, q, q \in probe.matches)
    <3>1. assured(worst, q, q \in probe.matches)
      BY <2>5, <2>7 DEF assured
    <3> QED
      BY <1>4, <3>1, WorseAssuresLess, Zenon
  <2>8. follows(matches, worst)
    BY <2>5, <2>6, <2>7
  <2>9. next(matches, worst)
    BY <2>2
  <2> HIDE DEF matches, worst, follows
  <2> QED
    BY <1>6, <2>3, <2>8, <2>9
<1> QED
  BY <1>5, <1>7

\* Every step of a collection keeps the invariant.
LEMMA ProbeInvStep == ProbeInv /\ [ProbeNext]_probeVars => ProbeInv'
<1> SUFFICES ASSUME ProbeInv, [ProbeNext]_probeVars PROVE ProbeInv'
  OBVIOUS
<1>1. CASE ChangeHost
  BY <1>1, ChangeHostStep
<1>2. CASE BeginProbe
  <2>1. probe' = [pc |-> "systemd", todo |-> Unit, matches |-> {},
                  ended |-> "whole", seen |-> {}]
    BY <1>2 DEF BeginProbe, NoProbe
  <2>2. probe' \in ProbeRecord /\ ProfilesWereTrue'
    BY <2>1 DEF ProbeRecord, ProfilesWereTrue, Ending
  <2>3. UNCHANGED <<host, changes, told, during>> /\ probes' \in 0..MaxProbes
    BY <1>2, ProbeAssumption
       DEF BeginProbe, ProbeInv, ProbeTypeOK, ProbeAssumption
  <2> QED
    BY <2>2, <2>3 DEF ProbeInv, ProbeTypeOK, ClaimsWereTrue, truth, assured
<1>3. CASE collectPorts
  BY <1>3, PortsStep
<1>4. ASSUME NEW u \in Unit, collectUnit(u) PROVE ProbeInv'
  BY <1>4, UnitStep
<1>5. ASSUME NEW p \in Profile, collectEffective(p) PROVE ProbeInv'
  BY <1>5, ProfileStep
<1>6. CASE UNCHANGED probeVars
  BY <1>6 DEF probeVars, ProbeInv, ProbeTypeOK, ProfilesWereTrue,
              ClaimsWereTrue, truth, assured
<1> QED
  BY <1>1, <1>2, <1>3, <1>4, <1>5, <1>6 DEF ProbeNext

\* An observation that succeeded claims and denies of every unit, profile and
\* port what was the case, or not, while its commands ran, as far as what was
\* lost of their output allows, whatever the host did between them and however
\* many were asked about (services.go 65-88, parser.go 41-107, syntax.go 79-164,
\* ports.go 9-31).
THEOREM ClaimsAreTrue == ProbeSpec => []ClaimsWereTrue
<1>1. ProbeInit => ProbeInv
  BY ProbeInitInv
<1>2. ProbeInv /\ [ProbeNext]_probeVars => ProbeInv'
  BY ProbeInvStep
<1>3. ProbeInv => ClaimsWereTrue
  BY DEF ProbeInv
<1> QED
  BY <1>1, <1>2, <1>3, PTL DEF ProbeSpec

\* The types of the host, of the collection and of what it has told.
THEOREM ProbeTypes == ProbeSpec => []ProbeTypeOK
<1>1. ProbeInv => ProbeTypeOK
  BY DEF ProbeInv
<1> QED
  BY <1>1, ProbeInitInv, ProbeInvStep, PTL DEF ProbeSpec

(***************************************************************************)
(* CommandLine.  A switch can be hidden from the parser, but only as the   *)
(* value of another flag; nothing has that name, so such a call ends       *)
(* before it does anything, unless a second value takes its place.         *)
(***************************************************************************)
deserved(l) == l.asked \/ l.repeated

\* The stages in which a store is open, or was.
Working == {"collect", "evaluate", "notify", "status", "close"}

\* What is known of the line that was read, at every stage.
LineRead ==
  /\ line \in LineRecord
  /\ line.act => deserved(line) \/ line.config \in Off \/ line.subject \in Off
  /\ line.command = "run" => line.act
  /\ ~line.started => line.config = ""
  /\ line.subject # "" => subjectFlag(line.command) # {}
  /\ line.family # "none" => line.command = "collectors run"

\* What LoadFile has made sure of.
Loaded ==
  line.pc \in Working \cup {"open"} =>
    /\ line.config \notin Off
    /\ line.command \in {"rules test", "notifications test"} => line.subject \in Name

\* The configured store is open for a cycle or a test only if it is to act.
StoreChosen ==
  /\ line.pc \in {"arguments", "load", "open"} =>
       tables["configured"] = {} /\ ~posted /\ ~scratch
  /\ store \in {"none", "configured", "temporary"}
  /\ store = "configured" /\ line.command \in Cycling \cup {"rules test"} => line.act
  /\ tables \in [{"configured", "temporary"} -> SUBSET Table]

\* No store is open before the stage that opens one.
Early == line.pc \in {"arguments", "load", "open"} => store = "none"

LineInv == LineRead /\ Loaded /\ StoreChosen /\ Early /\ UnaskedLeavesNothing

\* A call that acts, past LoadFile, was asked to if its command takes no value
\* beside the configuration or its value names something.
LEMMA ActIsDeserved ==
  ASSUME LineInv, line.pc \in Working \cup {"open"}, line.act,
         \/ subjectFlag(line.command) = {}
         \/ line.subject \in Name
         \/ line.command \in {"rules test", "notifications test"}
  PROVE  deserved(line)
<1>1. line.config \notin Off
  BY DEF LineInv, Loaded
<1>2. line.subject \notin Off
  <2>1. Off \subseteq Flag /\ "" \notin Off
    BY DEF Off, Flag
  <2>2. CASE line.subject \in Name
    BY <2>1, <2>2, CommandLineAssumption
  <2>3. CASE subjectFlag(line.command) = {}
    BY <2>1, <2>3 DEF LineInv, LineRead
  <2>4. CASE line.command \in {"rules test", "notifications test"}
    BY <2>1, <2>2, <2>4 DEF LineInv, Loaded
  <2> QED
    BY <2>2, <2>3, <2>4
<1> QED
  BY <1>1, <1>2 DEF LineInv, LineRead

\* The commands that write rows or run a cycle take no value, except tests.
LEMMA NoSubject ==
  \A c \in Cycling \cup {"collectors run"} : subjectFlag(c) = {}
BY DEF Cycling, subjectFlag

\* Nothing is read yet.
LEMMA LineInvInit == LineInit => LineInv
<1> SUFFICES ASSUME LineInit PROVE LineInv
  OBVIOUS
<1>1. PICK c \in Command, f \in Family \cup {"none", "unknown"} :
        /\ f = "none" <=> c # "collectors run"
        /\ line = [pc |-> "arguments", command |-> c, family |-> f,
                   started |-> FALSE, config |-> "", subject |-> "",
                   act |-> actsByDefault(c), asked |-> actsByDefault(c),
                   repeated |-> FALSE]
  BY DEF LineInit
<1>2. actsByDefault(c) \in BOOLEAN /\ actsByDefault("run")
  BY DEF actsByDefault
<1>3. "" \in Token /\ "arguments" \in Stage
  BY DEF Token, Stage
<1> HIDE DEF actsByDefault
<1>4. line \in LineRecord
  BY <1>1, <1>2, <1>3 DEF LineRecord
<1>5. LineRead
  BY <1>1, <1>2, <1>4 DEF LineRead, deserved
<1>6. Loaded
  BY <1>1 DEF Loaded, Working
<1>7. StoreChosen
  BY DEF LineInit, StoreChosen
<1>8. Early /\ UnaskedLeavesNothing
  BY DEF LineInit, Early, UnaskedLeavesNothing
<1> QED
  BY <1>5, <1>6, <1>7, <1>8 DEF LineInv

\* A value is read, whatever it looks like.
LEMMA TypeValueStep ==
  ASSUME LineInv, NEW flag \in Flag, NEW value \in Token, TypeValue(flag, value)
  PROVE  LineInv'
<1> DEFINE still == line.asked /\ value \notin Off
           c == [line EXCEPT !.started = TRUE, !.asked = still, !.config = value,
                             !.repeated = line.repeated \/ line.config # ""]
           d == [line EXCEPT !.started = TRUE, !.asked = still, !.subject = value,
                             !.repeated = line.repeated \/ line.subject # ""]
<1>1. /\ line.pc = "arguments" /\ value # ""
      /\ line' = c \/ (flag \in subjectFlag(line.command) /\ line' = d)
      /\ UNCHANGED <<config, store, scratch, tables, posted>>
  BY DEF TypeValue, effects, LineInv, LineRead, LineRecord
<1>2. line \in LineRecord /\ still \in BOOLEAN
  BY DEF LineInv, LineRead, LineRecord
<1>3. /\ c \in LineRecord /\ c.pc = line.pc /\ c.command = line.command
      /\ c.family = line.family /\ c.act = line.act /\ c.subject = line.subject
      /\ c.started /\ c.asked = still /\ c.config = value
      /\ c.repeated = (line.repeated \/ line.config # "")
  BY <1>2 DEF LineRecord
<1>4. /\ d \in LineRecord /\ d.pc = line.pc /\ d.command = line.command
      /\ d.family = line.family /\ d.act = line.act /\ d.subject = value
      /\ d.started /\ d.asked = still /\ d.config = line.config
      /\ d.repeated = (line.repeated \/ line.subject # "")
  BY <1>2 DEF LineRecord
<1>5. "" \notin Off
  BY DEF Off
<1> HIDE DEF c, d
<1>6. LineRead'
  <2>1. CASE line' = c
    BY <1>2, <1>3, <1>5, <2>1 DEF LineInv, LineRead, deserved
  <2>2. CASE flag \in subjectFlag(line.command) /\ line' = d
    BY <1>2, <1>4, <1>5, <2>2 DEF LineInv, LineRead, deserved
  <2> QED
    BY <1>1, <2>1, <2>2
<1>7. line'.pc = "arguments" /\ line'.command = line.command /\ line'.act = line.act
  BY <1>1, <1>3, <1>4
<1>8. Loaded' /\ StoreChosen' /\ Early' /\ UnaskedLeavesNothing'
  BY <1>1, <1>7
     DEF LineInv, Loaded, Working, StoreChosen, Early, UnaskedLeavesNothing
<1> QED
  BY <1>6, <1>8 DEF LineInv

\* A switch is the last one, and both the parser and the reader see it.
LEMMA TypeSwitchStep ==
  ASSUME LineInv, NEW w \in Flag, TypeSwitch(w)
  PROVE  LineInv'
<1> DEFINE c == [line EXCEPT !.started = TRUE,
                             !.act = (line.act \/ w \in On) /\ w \notin Off,
                             !.asked = (line.asked \/ w \in On) /\ w \notin Off]
<1>1. /\ line.pc = "arguments" /\ w \in switches(line.command) /\ line' = c
      /\ UNCHANGED <<config, store, scratch, tables, posted>>
  BY DEF TypeSwitch, effects
<1>2. line \in LineRecord
  BY DEF LineInv, LineRead
<1>3. /\ c \in LineRecord /\ c.pc = line.pc /\ c.command = line.command
      /\ c.family = line.family /\ c.subject = line.subject
      /\ c.config = line.config /\ c.repeated = line.repeated /\ c.started
      /\ c.act = ((line.act \/ w \in On) /\ w \notin Off)
      /\ c.asked = ((line.asked \/ w \in On) /\ w \notin Off)
  BY <1>2 DEF LineRecord
<1>4. line.command # "run"
  BY <1>1 DEF switches, Persisting
<1> HIDE DEF c
<1>5. LineRead'
  BY <1>1, <1>3, <1>4 DEF LineInv, LineRead, deserved
<1>6. Loaded'
  BY <1>1, <1>3 DEF Loaded, Working
<1>7. StoreChosen' /\ Early' /\ UnaskedLeavesNothing'
  <2>1. tables["configured"] = {} /\ ~posted /\ ~scratch
    BY <1>1 DEF LineInv, StoreChosen
  <2>2. store # "configured"
    BY <1>1 DEF LineInv, Early
  <2> QED
    BY <1>1, <1>3, <2>1, <2>2
       DEF LineInv, StoreChosen, Early, UnaskedLeavesNothing
<1> QED
  BY <1>5, <1>6, <1>7 DEF LineInv

\* What a line becomes when it only goes to another stage.
LEMMA GotoLine ==
  ASSUME LineInv, NEW stage \in Stage, goto(stage)
  PROVE  /\ line' \in LineRecord /\ line'.pc = stage
         /\ line'.command = line.command /\ line'.family = line.family
         /\ line'.started = line.started /\ line'.config = line.config
         /\ line'.subject = line.subject /\ line'.act = line.act
         /\ line'.asked = line.asked /\ line'.repeated = line.repeated
         /\ LineRead'
<1>1. line \in LineRecord /\ line' = [line EXCEPT !.pc = stage]
  BY DEF goto, LineInv, LineRead
<1>2. /\ line' \in LineRecord /\ line'.pc = stage
      /\ line'.command = line.command /\ line'.family = line.family
      /\ line'.started = line.started /\ line'.config = line.config
      /\ line'.subject = line.subject /\ line'.act = line.act
      /\ line'.asked = line.asked /\ line'.repeated = line.repeated
  BY <1>1 DEF LineRecord
<1> QED
  BY <1>2 DEF LineInv, LineRead, deserved

\* A working stage leads to the next one; rows and posts come only from a call
\* that deserved them.
LEMMA GotoKeeps ==
  ASSUME LineInv, NEW stage \in {"evaluate", "notify", "status", "close"},
         goto(stage), line.pc \in Working, store' = store, scratch' = scratch,
         tables' \in [{"configured", "temporary"} -> SUBSET Table],
         tables'["configured"] = tables["configured"] \/ deserved(line),
         posted' = posted \/ deserved(line)
  PROVE  LineInv'
<1>1. stage \in Stage /\ stage \in Working
  BY DEF Stage, Working
<1>2. /\ LineRead' /\ line'.pc = stage /\ line'.command = line.command
      /\ line'.act = line.act /\ line'.config = line.config
      /\ line'.subject = line.subject /\ line'.asked = line.asked
      /\ line'.repeated = line.repeated
  BY <1>1, GotoLine
<1>3. Loaded'
  BY <1>2 DEF LineInv, Loaded
<1>4. StoreChosen' /\ Early'
  BY <1>2 DEF LineInv, StoreChosen, Early
<1>5. UnaskedLeavesNothing'
  BY <1>2 DEF LineInv, UnaskedLeavesNothing, deserved
<1> QED
  BY <1>2, <1>3, <1>4, <1>5 DEF LineInv

\* The arguments are complete or refused, and nothing has been done.
LEMMA ArgumentsStep ==
  ASSUME LineInv, BadArgument \/ ArgumentsEnd
  PROVE  LineInv'
<1>1. /\ line.pc = "arguments"
      /\ UNCHANGED <<config, store, scratch, tables, posted>>
  BY DEF BadArgument, ArgumentsEnd, effects
<1>2. PICK stage \in {"load", "ended"} : goto(stage)
  BY DEF BadArgument, ArgumentsEnd
<1>3. stage \in Stage /\ stage \notin Working \cup {"open"}
  BY DEF Stage, Working
<1>4. ~scratch
  BY <1>1 DEF LineInv, StoreChosen
<1>5. tables \in [{"configured", "temporary"} -> SUBSET Table]
  BY DEF LineInv, StoreChosen
<1> HIDE DEF Working
<1>6. LineRead' /\ line'.pc = stage /\ line'.command = line.command
      /\ line'.act = line.act
  BY <1>2, <1>3, GotoLine
<1>7. Loaded'
  BY <1>3, <1>6 DEF Loaded
<1>8. StoreChosen' /\ Early' /\ UnaskedLeavesNothing'
  BY <1>1, <1>6, <1>4 DEF LineInv, StoreChosen, Early, UnaskedLeavesNothing
<1> QED
  BY <1>6, <1>7, <1>8 DEF LineInv

\* A configuration that exists has no flag's name, nor has what a test names.
LEMMA LoadFileStep ==
  ASSUME LineInv, LoadFile
  PROVE  LineInv'
<1>1. /\ line.pc = "load" /\ goto("open")
      /\ line.config \in ConfigFile \/ ~line.started
      /\ line.command \in {"rules test", "notifications test"} =>
           line.subject \in Name
      /\ UNCHANGED <<store, scratch, tables, posted>>
  BY DEF LoadFile, subjectFound, effects
<1>2. "open" \in Stage /\ Off \subseteq Flag /\ "" \notin Off
  BY DEF Stage, Off, Flag
<1>3. /\ LineRead' /\ line'.pc = "open" /\ line'.command = line.command
      /\ line'.act = line.act /\ line'.config = line.config
      /\ line'.subject = line.subject
  BY <1>1, <1>2, GotoLine
<1>4. line.config \notin Off
  BY <1>1, <1>2, CommandLineAssumption DEF LineInv, LineRead
<1>5. Loaded'
  BY <1>1, <1>3, <1>4 DEF Loaded
<1>6. StoreChosen' /\ Early' /\ UnaskedLeavesNothing'
  BY <1>1, <1>3 DEF LineInv, StoreChosen, Early, UnaskedLeavesNothing
<1> QED
  BY <1>3, <1>5, <1>6 DEF LineInv

\* A cycle or a test opens the configured store only to act on it.
LEMMA OpenStoreStep ==
  ASSUME LineInv, OpenStore
  PROVE  LineInv'
<1>1. /\ line.pc = "open" /\ goto("collect") /\ store' \in storeOf(line)
      /\ UNCHANGED <<config, tables, posted>>
  BY DEF OpenStore
<1>2. "collect" \in Stage
  BY DEF Stage
<1>3. /\ LineRead' /\ line'.pc = "collect" /\ line'.command = line.command
      /\ line'.act = line.act /\ line'.config = line.config
      /\ line'.subject = line.subject
  BY <1>1, <1>2, GotoLine
<1>4. Loaded'
  BY <1>1, <1>3 DEF LineInv, Loaded
<1>5. store' \in {"none", "configured", "temporary"}
  BY <1>1 DEF storeOf
<1>6. store' = "configured" /\ line.command \in Cycling \cup {"rules test"} =>
        line.act
  BY <1>1 DEF storeOf, Cycling, Persisting, LineInv, LineRead
<1>7. StoreChosen' /\ Early' /\ UnaskedLeavesNothing'
  <2>1. tables["configured"] = {} /\ ~posted
    BY <1>1 DEF LineInv, StoreChosen
  <2> QED
    BY <1>1, <1>3, <1>5, <1>6, <2>1
       DEF LineInv, StoreChosen, Early, UnaskedLeavesNothing
<1> QED
  BY <1>3, <1>4, <1>7 DEF LineInv

\* Rows go to the store that is open.
LEMMA WriteToStore ==
  ASSUME LineInv, NEW names \in SUBSET Table, writeTo(names)
  PROVE  /\ tables' \in [{"configured", "temporary"} -> SUBSET Table]
         /\ tables'["configured"] = tables["configured"] \/ store = "configured"
BY DEF writeTo, LineInv, StoreChosen

\* The stages of a call write to the configured store and post only if they
\* were asked to.
LEMMA StagesStep ==
  ASSUME LineInv, Collect \/ EvaluateRules \/ Notify \/ SaveStatus
  PROVE  LineInv'
<1>1. /\ line \in LineRecord /\ line.pc \in Working /\ store' = store
      /\ scratch' = scratch
      /\ tables \in [{"configured", "temporary"} -> SUBSET Table]
  BY DEF Collect, EvaluateRules, Notify, SaveStatus, Working, LineInv, LineRead,
         StoreChosen
<1>2. store = "configured" /\ line.command \in Cycling \cup {"rules test"} =>
        deserved(line)
  BY <1>1, ActIsDeserved, NoSubject DEF LineInv, StoreChosen
<1>3. ASSUME NEW stage \in {"evaluate", "notify", "status", "close"}, goto(stage),
             tables' \in [{"configured", "temporary"} -> SUBSET Table],
             tables'["configured"] = tables["configured"] \/ deserved(line),
             posted' = posted \/ deserved(line)
      PROVE  LineInv'
  BY <1>1, <1>3, GotoKeeps
<1>4. CASE Collect
  <2>1. goto("evaluate") /\ posted' = posted
    BY <1>4 DEF Collect
  <2>2. {"collector_state"} \in SUBSET Table
    BY DEF Table
  <2>3. CASE tables' = tables
    BY <1>1, <1>3, <2>1, <2>3
  <2>4. CASE /\ line.act /\ writeTo({"collector_state"})
             /\ \/ line.command \in Cycling
                \/ line.family \in {"resources", "journal", "filewatch"}
    <3>1. line.command \in Cycling \cup {"collectors run"}
      BY <2>4 DEF LineInv, LineRead
    <3>2. deserved(line)
      BY <1>1, <2>4, <3>1, ActIsDeserved, NoSubject
    <3> QED
      BY <1>3, <2>1, <2>2, <2>4, <3>2, WriteToStore
  <2> QED
    BY <1>4, <2>3, <2>4 DEF Collect
<1>5. CASE EvaluateRules
  <2>1. PICK stage \in {"notify", "status"} : goto(stage)
    BY <1>5 DEF EvaluateRules
  <2>2. posted' = posted
    BY <1>5 DEF EvaluateRules
  <2>3. {"rule_state", "incidents"} \in SUBSET Table
    BY DEF Table
  <2>4. CASE tables' = tables
    BY <1>1, <1>3, <2>1, <2>2, <2>4
  <2>5. CASE /\ line.command \in Cycling \cup {"rules test"}
             /\ writeTo({"rule_state", "incidents"})
    BY <1>2, <1>3, <2>1, <2>2, <2>3, <2>5, WriteToStore
  <2> QED
    BY <1>5, <2>4, <2>5 DEF EvaluateRules
<1>6. CASE Notify
  <2>1. goto("status")
    BY <1>6 DEF Notify
  <2>2. {"deliveries"} \in SUBSET Table
    BY DEF Table
  <2>3. CASE UNCHANGED <<posted, tables>>
    BY <1>1, <1>3, <2>1, <2>3
  <2>4. CASE /\ line.command = "notifications test" /\ line.act /\ posted'
             /\ tables' = tables
    <3>1. deserved(line)
      BY <1>1, <2>4, ActIsDeserved
    <3> QED
      BY <1>1, <1>3, <2>1, <2>4, <3>1
  <2>5. CASE /\ \/ line.command \in Cycling
                \/ line.command = "notifications send" /\ line.subject \in Name
             /\ line.act /\ posted' /\ writeTo({"deliveries"})
    <3>1. deserved(line)
      BY <1>1, <2>5, ActIsDeserved, NoSubject
    <3> QED
      BY <1>3, <2>1, <2>2, <2>5, <3>1, WriteToStore
  <2> QED
    BY <1>6, <2>3, <2>4, <2>5 DEF Notify
<1>7. CASE SaveStatus
  <2>1. goto("close") /\ posted' = posted
    BY <1>7 DEF SaveStatus
  <2>2. {"scheduler_status"} \in SUBSET Table
    BY DEF Table
  <2>3. CASE tables' = tables
    BY <1>1, <1>3, <2>1, <2>3
  <2>4. CASE line.command \in Cycling /\ writeTo({"scheduler_status"})
    BY <1>2, <1>3, <2>1, <2>2, <2>4, WriteToStore
  <2> QED
    BY <1>7, <2>3, <2>4 DEF SaveStatus
<1> QED
  BY <1>4, <1>5, <1>6, <1>7

\* Failing, cleaning up and being killed.
LEMMA EndingStep ==
  ASSUME LineInv, CommandFails \/ Cleanup \/ Killed
  PROVE  LineInv'
<1>1. tables' = tables /\ posted' = posted
  BY DEF CommandFails, Cleanup, Killed, effects
<1>2. store' \in {store, "none"}
  BY DEF CommandFails, Cleanup, Killed
<1>3. ASSUME NEW stage \in Stage, goto(stage),
             stage \notin {"arguments", "load", "open"},
             stage \in Working => line.pc \in Working,
             stage = "ended" => ~scratch'
      PROVE  LineInv'
  <2>1. /\ LineRead' /\ line'.pc = stage /\ line'.command = line.command
        /\ line'.act = line.act /\ line'.config = line.config
        /\ line'.subject = line.subject /\ line'.asked = line.asked
        /\ line'.repeated = line.repeated
    BY <1>3, GotoLine
  <2>2. Loaded'
    BY <1>3, <2>1 DEF LineInv, Loaded
  <2>3. StoreChosen' /\ Early'
    BY <1>1, <1>2, <1>3, <2>1 DEF LineInv, StoreChosen, Early
  <2>4. UnaskedLeavesNothing'
    BY <1>1, <1>3, <2>1 DEF LineInv, UnaskedLeavesNothing
  <2> QED
    BY <2>1, <2>2, <2>3, <2>4 DEF LineInv
<1>4. {"close", "ended", "killed"} \subseteq Stage
      /\ "ended" \notin Working /\ "killed" \notin Working
      /\ "collect" \in Working
  BY DEF Stage, Working
<1>5. CASE CommandFails
  <2>1. scratch' = scratch
    BY <1>5 DEF CommandFails, effects
  <2>2. CASE line.pc = "collect"
    <3>1. goto("close")
      BY <1>5, <2>2 DEF CommandFails
    <3> QED
      BY <1>3, <1>4, <2>2, <3>1
  <2>3. CASE line.pc \in {"load", "open"}
    <3>1. goto("ended")
      BY <1>5, <2>3 DEF CommandFails
    <3>2. ~scratch'
      BY <2>1, <2>3 DEF LineInv, StoreChosen
    <3> QED
      BY <1>3, <1>4, <3>1, <3>2
  <2> QED
    BY <1>5, <2>2, <2>3 DEF CommandFails
<1>6. CASE Cleanup
  <2>1. goto("ended") /\ ~scratch'
    BY <1>6 DEF Cleanup
  <2> QED
    BY <1>3, <1>4, <2>1
<1>7. CASE Killed
  <2>1. goto("killed")
    BY <1>7 DEF Killed
  <2> QED
    BY <1>3, <1>4, <2>1
<1> QED
  BY <1>5, <1>6, <1>7

\* Every argument and every stage keeps the invariant.
LEMMA LineInvStep == LineInv /\ [LineNext]_lineVars => LineInv'
<1> SUFFICES ASSUME LineInv, [LineNext]_lineVars PROVE LineInv'
  OBVIOUS
<1>1. CASE UNCHANGED lineVars
  BY <1>1 DEF lineVars, effects, LineInv, LineRead, Loaded, StoreChosen, Early,
              UnaskedLeavesNothing, deserved
<1> QED
  BY <1>1, TypeValueStep, TypeSwitchStep, ArgumentsStep, LoadFileStep,
     OpenStoreStep, StagesStep, EndingStep DEF LineNext

\* A call whose last switch is a dry run, or that has none, leaves the
\* configured rows alone and posts nothing, whatever its other arguments are,
\* unless a value was given twice; a call that ends by itself leaves no
\* temporary store (cmd/pooly-agent/main.go).
THEOREM NothingUnasked == LineSpec => []UnaskedLeavesNothing
<1>1. LineInv => UnaskedLeavesNothing
  BY DEF LineInv
<1> QED
  BY <1>1, LineInvInit, LineInvStep, PTL DEF LineSpec

\* What the line's own invariant leaves out.
LineRest == config \in ConfigRecord /\ scratch \in BOOLEAN /\ posted \in BOOLEAN

\* Every argument and every stage keeps them.
LEMMA LineRestStep == LineRest /\ [LineNext]_lineVars => LineRest'
<1> SUFFICES ASSUME LineRest, [LineNext]_lineVars PROVE LineRest'
  OBVIOUS
<1>1. config' = config \/ config' \in ConfigRecord
  BY DEF LineNext, lineVars, TypeValue, TypeSwitch, BadArgument, ArgumentsEnd,
         LoadFile, OpenStore, CommandFails, Collect, EvaluateRules, Notify,
         SaveStatus, Cleanup, Killed
<1>2. scratch' = scratch \/ scratch' = (store' = "temporary") \/ scratch' = FALSE
  BY Zenon
     DEF LineNext, lineVars, effects, TypeValue, TypeSwitch, BadArgument,
         ArgumentsEnd, LoadFile, OpenStore, CommandFails, Collect,
         EvaluateRules, Notify, SaveStatus, Cleanup, Killed
<1>3. posted' = posted \/ posted' = TRUE
  BY Zenon
     DEF LineNext, lineVars, effects, TypeValue, TypeSwitch, BadArgument,
         ArgumentsEnd, LoadFile, OpenStore, CommandFails, Collect,
         EvaluateRules, Notify, SaveStatus, Cleanup, Killed
<1> QED
  BY <1>1, <1>2, <1>3, Zenon DEF LineRest

\* The types of the call, of what it has open and of what it leaves.
THEOREM LineTypes == LineSpec => []LineTypeOK
<1>1. LineInit => LineRest
  <2>1. FALSE \in BOOLEAN /\ [enabled |-> FALSE, dryRun |-> FALSE] \in ConfigRecord
    BY DEF ConfigRecord
  <2> QED
    BY <2>1, Zenon DEF LineInit, LineRest
<1>2. LineInv /\ LineRest => LineTypeOK
  BY Zenon DEF LineInv, LineRead, StoreChosen, LineRest, LineTypeOK
<1> QED
  BY <1>1, <1>2, LineInvInit, LineInvStep, LineRestStep, PTL DEF LineSpec

(***************************************************************************)
(* AgentConfig.  What an agent starts with comes from one file that passed *)
(* every check, so what holds of it follows from the checks alone.         *)
(***************************************************************************)
\* A value that converts is of a kind the conditions know.
LEMMA ValueConverted ==
  ASSUME NEW v \in ValueConfig, v.type # "list"
  PROVE  /\ valueFromConfig(v).kind \in STRING
         /\ valueFromConfig(v).number \in Int
         /\ valueFromConfig(v).text \in STRING
         /\ valueFromConfig(v).bool \in BOOLEAN
<1>1. /\ v.type \in {"null", "number", "nan", "bool", "string"}
      /\ v.number \in Int /\ v.text \in STRING /\ v.bool \in BOOLEAN
  BY DEF ValueConfig
<1>2. (\A t \in DOMAIN NumberText : NumberText[t] \in Int) /\ "" \in STRING
  BY ConfigAssumption, LiteralsAreText, Zenon
<1>3. valueFromConfig(v).kind \in {"", "number", "nan", "bool", "string"}
  BY <1>1 DEF valueFromConfig
<1>4. valueFromConfig(v).number \in Int /\ valueFromConfig(v).text \in STRING
  <2>1. CASE v.type = "number"
    <3>1. valueFromConfig(v).number = v.number /\ valueFromConfig(v).text = ""
      BY <2>1 DEF valueFromConfig
    <3> QED
      BY <1>1, <3>1, LiteralsAreText
  <2>2. CASE v.type = "string" /\ v.text \in DOMAIN NumberText
    <3>1. NumberText[v.text] \in Int
      BY <1>2, <2>2
    <3>2. /\ valueFromConfig(v).number = NumberText[v.text]
          /\ valueFromConfig(v).text = v.text
      BY <2>2 DEF valueFromConfig
    <3> QED
      BY <1>1, <3>1, <3>2
  <2>3. CASE v.type = "string" /\ v.text \notin DOMAIN NumberText
    BY <1>1, <2>3 DEF valueFromConfig
  <2>4. CASE v.type \notin {"number", "string"}
    <3>1. valueFromConfig(v).number = 0
      BY <2>4 DEF valueFromConfig
    <3>2. valueFromConfig(v).text = ""
      BY <2>4 DEF valueFromConfig
    <3>3. valueFromConfig(v).number \in Int
      BY <3>1
    <3>4. valueFromConfig(v).text \in STRING
      BY <1>2, <3>2, Zenon
    <3> QED
      BY <3>3, <3>4, Zenon
  <2> QED
    BY <2>1, <2>2, <2>3, <2>4
<1>5. valueFromConfig(v).bool = (v.type = "bool" /\ v.bool)
  BY DEF valueFromConfig
<1>6. (v.type = "bool" /\ v.bool) \in BOOLEAN
  BY Zenon
<1>7. valueFromConfig(v).bool \in BOOLEAN
  BY <1>5, <1>6, Zenon
<1> QED
  BY <1>3, <1>4, <1>7, LiteralsAreText

\* A level that is checked and converted is a threshold of the conditions.
LEMMA ThresholdConverted ==
  ASSUME NEW t \in RuleThresholdConfig, NEW metric,
         t.set => t.value.type # "list" /\ validateRuleThreshold(metric, t)
  PROVE  /\ thresholdFromConfig(t) \in Threshold
         /\ thresholdFromConfig(t).set = t.set
<1>1. /\ t.set \in BOOLEAN /\ t.operator \in STRING /\ t.value \in ValueConfig
      /\ t.for \in Int
  BY DEF RuleThresholdConfig
<1>2. CASE ~t.set
  <2>1. t.set = FALSE
    BY <1>1, <1>2
  <2>2. thresholdFromConfig(t) =
          [set |-> FALSE, operator |-> "", kind |-> "", number |-> 0,
           text |-> "", bool |-> FALSE, for |-> 0]
    BY <1>2 DEF thresholdFromConfig
  <2>3. PICK empty \in STRING : empty = ""
    BY LiteralsAreText, Zenon
  <2>4. thresholdFromConfig(t) =
          [set |-> FALSE, operator |-> empty, kind |-> empty, number |-> 0,
           text |-> empty, bool |-> FALSE, for |-> 0]
    BY <2>2, <2>3, Zenon
  <2>5. thresholdFromConfig(t) \in Threshold
    BY <2>4 DEF Threshold
  <2>6. thresholdFromConfig(t).set = FALSE
    BY <2>4
  <2> QED
    BY <2>1, <2>5, <2>6, Zenon
<1>3. CASE t.set
  <2>1. t.set = TRUE /\ t.for \in Nat
    BY <1>1, <1>3 DEF validateRuleThreshold
  <2> DEFINE value == valueFromConfig(t.value)
  <2>2. /\ value.kind \in STRING /\ value.number \in Int
        /\ value.text \in STRING /\ value.bool \in BOOLEAN
    BY <1>1, <1>3, ValueConverted
  <2> HIDE DEF value
  <2>3. thresholdFromConfig(t) =
          [set |-> TRUE, operator |-> t.operator, kind |-> value.kind,
           number |-> value.number, text |-> value.text, bool |-> value.bool,
           for |-> t.for]
    BY <1>3 DEF thresholdFromConfig, value
  <2>4. thresholdFromConfig(t) \in Threshold
    BY <1>1, <2>1, <2>2, <2>3 DEF Threshold
  <2>5. thresholdFromConfig(t).set = TRUE
    BY <2>3
  <2> QED
    BY <2>1, <2>4, <2>5, Zenon
<1> QED
  BY <1>2, <1>3

\* A rule that is checked and converted is a rule of the engine that can
\* raise something.
LEMMA RuleConverted ==
  ASSUME NEW r \in RuleConfig, validateRule(r),
         \A s \in ActiveSeverity : r.level[s].set => r.level[s].value.type # "list"
  PROVE  /\ ruleFromConfig(r) \in Rule
         /\ \E s \in ActiveSeverity : ruleFromConfig(r).threshold[s].set
<1>1. /\ r.enabled \in BOOLEAN /\ r.collector \in STRING /\ r.metric \in STRING
      /\ r.eventCategory \in STRING /\ r.target \in STRING
      /\ r.level \in [ActiveSeverity -> RuleThresholdConfig]
      /\ r.recoverFor \in Int
  BY DEF RuleConfig
<1>2. /\ r.recoverFor >= 0
      /\ \E s \in ActiveSeverity : r.level[s].set
      /\ \A s \in ActiveSeverity :
           r.level[s].set => validateRuleThreshold(r.metric, r.level[s])
      /\ validateRulePolicy(r.missingData) /\ validateRulePolicy(r.staleData)
  BY DEF validateRule
<1>3. \A s \in ActiveSeverity :
        /\ thresholdFromConfig(r.level[s]) \in Threshold
        /\ thresholdFromConfig(r.level[s]).set = r.level[s].set
  BY <1>1, <1>2, ThresholdConverted
<1>4. policyOrDefault(r.missingData) \in Policy
      /\ policyOrDefault(r.staleData) \in Policy
  BY <1>2 DEF validateRulePolicy, policyOrDefault, Policy
<1> DEFINE thresholds == [s \in ActiveSeverity |-> thresholdFromConfig(r.level[s])]
<1>5. /\ thresholds \in [ActiveSeverity -> Threshold]
      /\ \E s \in ActiveSeverity : thresholds[s].set
  BY <1>2, <1>3
<1> HIDE DEF thresholds
<1>6. /\ ruleFromConfig(r) =
           [enabled       |-> r.enabled,
            collector     |-> r.collector,
            metric        |-> r.metric,
            eventCategory |-> r.eventCategory,
            target        |-> r.target,
            threshold     |-> thresholds,
            recoverFor    |-> r.recoverFor,
            missingData   |-> policyOrDefault(r.missingData),
            staleData     |-> policyOrDefault(r.staleData)]
  BY DEF ruleFromConfig, thresholds
<1> QED
  BY <1>1, <1>2, <1>4, <1>5, <1>6 DEF Rule

\* The rules of a file that passed its checks.
LEMMA RulesConverted ==
  ASSUME NEW rules \in Seq(RuleConfig), validateRules(rules), convertible(rules)
  PROVE  /\ FromConfig(rules) \in Seq(Rule)
         /\ \A i \in DOMAIN FromConfig(rules) :
              \E s \in ActiveSeverity : FromConfig(rules)[i].threshold[s].set
<1>1. /\ DOMAIN rules = 1..Len(rules) /\ Len(rules) \in Nat
      /\ \A i \in DOMAIN rules : rules[i] \in RuleConfig
  OBVIOUS
<1>2. \A i \in DOMAIN rules :
        /\ ruleFromConfig(rules[i]) \in Rule
        /\ \E s \in ActiveSeverity : ruleFromConfig(rules[i]).threshold[s].set
  BY <1>1, RuleConverted DEF validateRules, convertible
<1>3. FromConfig(rules) = [i \in 1..Len(rules) |-> ruleFromConfig(rules[i])]
  BY <1>1 DEF FromConfig
<1> QED
  BY <1>1, <1>2, <1>3

\* A filter that is checked leaves allowed words, and the default when empty.
LEMMA FilterConverted ==
  ASSUME NEW list \in Seq(STRING), NEW allowed, validateFilter(list, allowed),
         NEW default \in SUBSET allowed, default # {}
  PROVE  orDefault(list, default) \in SUBSET allowed /\ orDefault(list, default) # {}
<1>1. CASE list = <<>>
  BY <1>1 DEF orDefault
<1>2. CASE list # <<>>
  <2>1. 1 \in DOMAIN list
    BY <1>2
  <2> QED
    BY <1>2, <2>1 DEF orDefault, validateFilter
<1> QED
  BY <1>1, <1>2

\* The receivers of a file that passed its checks.
LEMMA ReceiversConverted ==
  ASSUME NEW receivers \in Seq(NotifyReceiverConfig), validateNotify(receivers)
  PROVE  LET specs == OptionsFromConfig(receivers)
         IN /\ specs \in Seq(ReceiverSpec)
            /\ distinctIDs(specs)
            /\ \A i \in DOMAIN specs : specs[i].events # {} /\ specs[i].severities # {}
<1> DEFINE specs == OptionsFromConfig(receivers)
<1>1. /\ DOMAIN receivers = 1..Len(receivers) /\ Len(receivers) \in Nat
      /\ \A i \in DOMAIN receivers : receivers[i] \in NotifyReceiverConfig
  OBVIOUS
<1>2. ASSUME NEW r \in NotifyReceiverConfig, validateReceiver(r)
      PROVE  /\ receiverSpec(r) \in ReceiverSpec /\ receiverSpec(r).id = r.id
             /\ receiverSpec(r).events # {} /\ receiverSpec(r).severities # {}
  <2>1. /\ r.id \in STRING /\ r.enabled \in BOOLEAN
        /\ r.events \in Seq(STRING) /\ r.severities \in Seq(STRING)
    BY DEF NotifyReceiverConfig
  <2> DEFINE kinds == orDefault(r.events, {"opened", "escalated", "resolved"})
             severities == orDefault(r.severities, ActiveSeverity)
             url == r.type = "webhook" /\ r.urlEnv /\ environment = "valid"
  <2>2. kinds \in SUBSET EventFilter /\ kinds # {}
    <3> DEFINE default == {"opened", "escalated", "resolved"}
    <3>1. default \in SUBSET EventFilter /\ default # {}
      BY DEF EventFilter
    <3>2. validateFilter(r.events, EventFilter)
      BY <1>2 DEF validateReceiver
    <3>3. kinds = orDefault(r.events, default)
      OBVIOUS
    <3> HIDE DEF default, kinds
    <3> QED
      BY <2>1, <3>1, <3>2, <3>3, FilterConverted
  <2>3. severities \in SUBSET Severity /\ severities # {}
    <3>1. ActiveSeverity \in SUBSET Severity /\ ActiveSeverity # {}
      BY DEF ActiveSeverity, Severity
    <3>2. validateFilter(r.severities, Severity)
      BY <1>2 DEF validateReceiver
    <3> QED
      BY <2>1, <3>1, <3>2, FilterConverted
  <2>4. url \in BOOLEAN
    BY Zenon
  <2> HIDE DEF kinds, severities, url
  <2>5. receiverSpec(r) = [id |-> r.id, enabled |-> r.enabled, events |-> kinds,
                           severities |-> severities, url |-> url]
    BY DEF receiverSpec, kinds, severities, url
  <2> QED
    BY <2>1, <2>2, <2>3, <2>4, <2>5 DEF ReceiverSpec
<1>3. specs = [i \in 1..Len(receivers) |-> receiverSpec(receivers[i])]
  BY <1>1 DEF OptionsFromConfig
<1> HIDE DEF specs
<1>4. /\ \A i \in 1..Len(receivers) : validateReceiver(receivers[i])
      /\ distinctIDs(receivers)
  BY <1>1 DEF validateNotify
<1>5. /\ DOMAIN specs = DOMAIN receivers
      /\ \A i \in DOMAIN specs :
           /\ specs[i] \in ReceiverSpec /\ specs[i].id = receivers[i].id
           /\ specs[i].events # {} /\ specs[i].severities # {}
  BY <1>1, <1>2, <1>3, <1>4
<1>6. specs \in Seq(ReceiverSpec)
  BY <1>1, <1>3, <1>5
<1>7. distinctIDs(specs)
  BY <1>4, <1>5 DEF distinctIDs
<1> QED
  BY <1>5, <1>6, <1>7 DEF specs

\* What the defaults leave of the sections.
LEMMA LoadBytesFields ==
  ASSUME NEW file \in SectionsConfig
  PROVE  LET s == LoadBytes(file)
         IN /\ s.interval \in Int /\ s.cycleTimeout \in Int
            /\ s.allowNonLoopback = file.allowNonLoopback
            /\ s.units = file.units /\ s.targets = file.targets
BY DEF LoadBytes, SectionsConfig, Default

\* The sections of a file that passed its checks.
LEMMA SectionsConverted ==
  ASSUME NEW file \in SectionsConfig, validateSections(file)
  PROVE  ServiceAsAssumed(serviceFromConfig(file))
<1> DEFINE s == LoadBytes(file)
           service == serviceFromConfig(file)
<1>1. s.interval \in Int /\ s.cycleTimeout \in Int
  BY LoadBytesFields
<1>2. /\ validateScheduler(s) /\ validateAPI(s) /\ validateUnits(s.units)
      /\ validateFilewatch(s.targets)
  BY DEF validateSections
<1> HIDE DEF s
<1>3. /\ service.interval = s.interval /\ service.cycleTimeout = s.cycleTimeout
      /\ service.listen \in {"", EffectiveAPIListen(s)}
      /\ service.exposed = s.allowNonLoopback /\ service.units = s.units
      /\ service.watches = filewatchOptionsFromConfig(s.targets)
  BY DEF serviceFromConfig, s
<1> HIDE DEF service
<1>4. service.cycleTimeout \in 1..(service.interval - 1)
  <2>1. 0 < s.cycleTimeout /\ s.cycleTimeout < s.interval
    BY <1>2 DEF validateScheduler
  <2>2. service.interval = s.interval /\ service.cycleTimeout = s.cycleTimeout
    BY <1>3
  <2> QED
    BY <1>1, <2>1, <2>2
<1>5. isSet(service.listen) => service.listen \in Loopback \/ service.exposed
  BY <1>2, <1>3 DEF isSet, EffectiveAPIListen, validateAPI, validateAPIBind
<1>6. distinct(service.units)
  BY <1>2, <1>3 DEF validateUnits
<1>7. /\ DOMAIN service.watches = DOMAIN s.targets
      /\ \A i \in DOMAIN s.targets :
           service.watches[i] =
             [row  |-> safeName(s.targets[i].name),
              cut  |-> s.targets[i].name \in DOMAIN LongName,
              path |-> CleanPath[s.targets[i].path]]
  BY <1>3 DEF filewatchOptionsFromConfig
<1>8. ASSUME NEW i \in DOMAIN s.targets
      PROVE  /\ service.watches[i].row = safeName(s.targets[i].name)
             /\ service.watches[i].path = CleanPath[s.targets[i].path]
             /\ service.watches[i].cut \/ s.targets[i].name \notin DOMAIN LongName
  <2>1. PICK cut : cut = (s.targets[i].name \in DOMAIN LongName)
    OBVIOUS
  <2>2. service.watches[i] =
          [row  |-> safeName(s.targets[i].name), cut |-> cut,
           path |-> CleanPath[s.targets[i].path]]
    BY <1>7, <2>1
  <2>3. /\ service.watches[i].row = safeName(s.targets[i].name)
        /\ service.watches[i].path = CleanPath[s.targets[i].path]
    BY <2>2
  <2>4. service.watches[i].cut = cut
    BY <2>2
  <2>5. service.watches[i].cut \/ s.targets[i].name \notin DOMAIN LongName
    BY <2>1, <2>4, Zenon
  <2> QED
    BY <2>3, <2>5
<1>9. \A i \in DOMAIN s.targets :
        /\ service.watches[i].row = safeName(s.targets[i].name)
        /\ service.watches[i].path = CleanPath[s.targets[i].path]
        /\ service.watches[i].cut \/ s.targets[i].name \notin DOMAIN LongName
  BY <1>8
<1>10. ASSUME NEW i \in DOMAIN s.targets, NEW j \in DOMAIN s.targets, i # j
       PROVE  /\ service.watches[i].path # service.watches[j].path
              /\ \/ service.watches[i].row # service.watches[j].row
                 \/ service.watches[i].cut \/ service.watches[j].cut
  <2>1. /\ s.targets[i].name # s.targets[j].name
        /\ CleanPath[s.targets[i].path] # CleanPath[s.targets[j].path]
    BY <1>2, <1>10 DEF validateFilewatch
  <2>2. s.targets[i].name \notin DOMAIN LongName =>
          service.watches[i].row = s.targets[i].name
    BY <1>9 DEF safeName
  <2>3. s.targets[j].name \notin DOMAIN LongName =>
          service.watches[j].row = s.targets[j].name
    BY <1>9 DEF safeName
  <2> QED
    BY <1>9, <2>1, <2>2, <2>3
<1>11. \A i, j \in DOMAIN service.watches :
         /\ service.watches[i].path = service.watches[j].path => i = j
         /\ service.watches[i].row = service.watches[j].row =>
              i = j \/ service.watches[i].cut \/ service.watches[j].cut
  BY <1>7, <1>10
<1> QED
  BY <1>4, <1>5, <1>6, <1>11 DEF ServiceAsAssumed, service

\* Whatever the file holds, an agent that has started has rules that the engine
\* can evaluate and that can raise something, receivers with different IDs that
\* listen to something, and sections as the services assume them
\* (config/validate.go, rules/config.go, notify/config.go).
THEOREM StartsAsAssumed == ConfigSpec => []StartedAsAssumed
<1> DEFINE Inv == configuration \in Configurations /\ StartedAsAssumed
<1>1. ASSUME NEW x, x = NotStarted
      PROVE  /\ x.running = FALSE /\ x.rules \in Seq(Rule) /\ DOMAIN x.rules = {}
             /\ x.receivers \in Seq(ReceiverSpec) /\ DOMAIN x.receivers = {}
  <2>1. x.running = FALSE /\ x.rules = <<>> /\ x.receivers = <<>>
    BY <1>1 DEF NotStarted
  <2> QED
    BY <2>1
<1>2. ConfigInit => Inv
  <2> SUFFICES ASSUME ConfigInit PROVE Inv
    OBVIOUS
  <2>1. started = NotStarted /\ configuration \in Configurations
    BY DEF ConfigInit
  <2> QED
    BY <1>1, <2>1 DEF StartedAsAssumed, distinctIDs
<1>3. ASSUME Inv, [ConfigNext]_configVars PROVE Inv'
  <2>1. CASE UNCHANGED configVars
    BY <1>3, <2>1 DEF configVars, StartedAsAssumed
  <2>2. CASE StopAgent
    <3>1. started' = NotStarted /\ configuration' = configuration
      BY <2>2 DEF StopAgent
    <3> QED
      BY <1>1, <1>3, <3>1 DEF StartedAsAssumed, distinctIDs
  <2>3. CASE RunAgent
    <3>1. /\ rulesFile \in Seq(RuleConfig)
          /\ receiversFile \in Seq(NotifyReceiverConfig)
          /\ configuration.sections \in SectionsConfig
      BY <1>3, ConfigAssumption DEF rulesFile, receiversFile
    <3>2. /\ validateSections(configuration.sections) /\ validateRules(rulesFile)
          /\ validateNotify(receiversFile)
          /\ configuration' = configuration
      BY <2>3 DEF RunAgent
    <3>3. PICK dryRun \in BOOLEAN :
            /\ ~schedulerFails(dryRun)
            /\ started' = [running   |-> TRUE,
                           dryRun    |-> dryRun,
                           rules     |-> FromConfig(rulesFile),
                           receivers |-> OptionsFromConfig(receiversFile),
                           service   |-> serviceFromConfig(configuration.sections)]
      BY <2>3 DEF RunAgent
    <3>4. convertible(rulesFile)
      BY <3>3 DEF schedulerFails
    <3>5. /\ started'.rules = FromConfig(rulesFile)
          /\ started'.receivers = OptionsFromConfig(receiversFile)
          /\ started'.service = serviceFromConfig(configuration.sections)
      BY <3>3
    <3>6. /\ started'.rules \in Seq(Rule)
          /\ \A i \in DOMAIN started'.rules :
               \E s \in ActiveSeverity : started'.rules[i].threshold[s].set
      BY <3>1, <3>2, <3>4, <3>5, RulesConverted
    <3>7. /\ started'.receivers \in Seq(ReceiverSpec)
          /\ distinctIDs(started'.receivers)
          /\ \A i \in DOMAIN started'.receivers :
               started'.receivers[i].events # {} /\ started'.receivers[i].severities # {}
      BY <3>1, <3>2, <3>5, ReceiversConverted
    <3>8. ServiceAsAssumed(started'.service)
      BY <3>1, <3>2, <3>5, SectionsConverted
    <3>9. StartedAsAssumed'
      BY <3>6, <3>7, <3>8 DEF StartedAsAssumed, distinctIDs
    <3> QED
      BY <1>3, <3>2, <3>9
  <2> QED
    BY <1>3, <2>1, <2>2, <2>3 DEF ConfigNext
<1> QED
  BY <1>2, <1>3, PTL DEF ConfigSpec

\* The types of the file, of the environment and of the agent.
THEOREM ConfigTypes == ConfigSpec => []ConfigTypeOK
<1>1. ConfigInit => ConfigTypeOK
  <2>1. ConfigInit => started.running \in BOOLEAN
    <3>1. \A x : x = NotStarted => x.running = FALSE
      BY DEF NotStarted
    <3> QED
      BY <3>1 DEF ConfigInit
  <2> QED
    BY <2>1 DEF ConfigInit, ConfigTypeOK
<1>2. ASSUME ConfigTypeOK, [ConfigNext]_configVars PROVE ConfigTypeOK'
  <2>1. UNCHANGED <<configuration, environment>>
    BY <1>2 DEF ConfigNext, configVars, RunAgent, StopAgent
  <2>2. started'.running \in BOOLEAN
    <3>1. CASE UNCHANGED configVars
      BY <1>2, <3>1 DEF configVars, ConfigTypeOK
    <3>2. CASE StopAgent
      <4>1. \A x : x = NotStarted => x.running = FALSE
        BY DEF NotStarted
      <4> QED
        BY <3>2, <4>1 DEF StopAgent
    <3>3. CASE RunAgent
      BY <3>3 DEF RunAgent
    <3> QED
      BY <1>2, <3>1, <3>2, <3>3 DEF ConfigNext
  <2> QED
    BY <1>2, <2>1, <2>2 DEF ConfigTypeOK
<1> QED
  BY <1>1, <1>2, PTL DEF ConfigSpec

(***************************************************************************)
(* CommandRunner.  A reader has in its buffer what was written and is not  *)
(* in the pipe any more, until it exceeds the limit or its pipe is closed; *)
(* only an exceeded limit cancels the run from inside.                     *)
(***************************************************************************)
Begun ==
  /\ caller = "called" => /\ child = "none" /\ heir = "gone" /\ ~canceled
                          /\ \A s \in Stream :
                               /\ copier[s] = "none"
                               /\ written[s] = 0 /\ pipe[s] = 0 /\ buffer[s] = 0
  /\ caller = "wait" => /\ child # "none"
                        /\ \A s \in Stream :
                             copier[s] \in {"copying", "done", "exceeded"}
  /\ caller \in {"classify", "returned"} =>
       child # "running" /\ \A s \in Stream : copier[s] # "copying"

ReaderHas(s) ==
  /\ copier[s] \in {"copying", "done"} => buffer[s] + pipe[s] = written[s]
  /\ copier[s] = "done" => pipe[s] = 0 /\ child # "running" /\ heir = "gone"
  /\ copier[s] = "exceeded" => buffer[s] = Limit /\ written[s] > Limit

Ended ==
  /\ canceled => \E s \in Stream : copier[s] = "exceeded"
  /\ parent # "none" => deadline # "none"
  /\ caller = "classify" =>
       /\ child \in {"exited", "failed", "killed"}
       /\ \A s \in Stream : copier[s] \in {"done", "exceeded", "closed"}
       /\ child # "exited" => waitErr
       /\ waitErr => child # "exited" \/ canceled \/ deadline # "none"

RunnerInv ==
  /\ CommandTypeOK
  /\ Begun
  /\ \A s \in Stream : ReaderHas(s)
  /\ Ended
  /\ ResultIsTrue

\* Nothing has been read, and nobody has ended, when Run is called.
LEMMA RunnerInvInit == CommandInit => RunnerInv
<1>. SUFFICES ASSUME CommandInit PROVE RunnerInv
  OBVIOUS
<1>1. 0 \in 0..MaxOutput /\ 0 \in 0..PipeSize /\ 0 \in 0..Limit
  BY CommandAssumption
<1>2. timed \in BOOLEAN /\ canceled \in BOOLEAN /\ waitErr \in BOOLEAN
  BY Zenon DEF CommandInit
<1>3. CommandTypeOK
  BY <1>1, <1>2 DEF CommandInit, CommandTypeOK, ContextErr, ErrorClass
<1> QED
  BY <1>3 DEF CommandInit, RunnerInv, Begun, ReaderHas, Ended, ResultIsTrue

\* A step of the contexts takes back none of what they have told.
LEMMA ContextStep ==
  ASSUME RunnerInv, ParentDone \/ TimerFires
  PROVE  RunnerInv'
<1>0. /\ UNCHANGED <<timed, canceled, child, heir, written, pipe, buffer, copier,
                     caller, waitErr, class>>
      /\ \/ parent' = parent /\ deadline = "none" /\ deadline' = "deadline"
         \/ /\ parent = "none" /\ parent' \in {"canceled", "deadline"}
            /\ deadline' = IF deadline = "none" THEN parent' ELSE deadline
  BY DEF ParentDone, TimerFires, commandOut
<1>1. CommandTypeOK'
  <2>1. timed' \in BOOLEAN /\ canceled' \in BOOLEAN /\ waitErr' \in BOOLEAN
    BY <1>0, Zenon DEF RunnerInv, CommandTypeOK
  <2>2. parent' \in ContextErr /\ deadline' \in ContextErr
    BY <1>0 DEF RunnerInv, CommandTypeOK, ContextErr
  <2>3. UNCHANGED <<child, heir, written, pipe, buffer, copier, caller, class>>
    BY <1>0
  <2> QED
    BY <2>1, <2>2, <2>3 DEF RunnerInv, CommandTypeOK
<1>2. /\ (\A s \in Stream : ReaderHas(s))'
      /\ Begun'
  BY <1>0 DEF RunnerInv, Begun, ReaderHas
<1>3. Ended'
  BY <1>0 DEF RunnerInv, Ended
<1>4. ResultIsTrue'
  BY <1>0 DEF RunnerInv, ResultIsTrue, Ended
<1> QED
  BY <1>1, <1>2, <1>3, <1>4 DEF RunnerInv

\* A program that does not start, and one that does.
LEMMA StartStep ==
  ASSUME RunnerInv, refuse \/ Start
  PROVE  RunnerInv'
<1>1. CommandTypeOK'
  BY DEF RunnerInv, CommandTypeOK, refuse, Start, ErrorClass,
         classifyContextError, commandCtx, commandOut
<1>2. CASE refuse
  <2>1. class' # "" /\ class' # "output_limit" /\ class' # "non_zero_exit"
    BY <1>2 DEF refuse, classifyContextError
  <2>2. /\ class' = "timeout" => parent = "deadline"
        /\ class' = "canceled" => parent = "canceled"
    BY <1>2 DEF RunnerInv, CommandTypeOK, ContextErr, refuse,
                classifyContextError
  <2>3. ResultIsTrue'
    BY <1>2, <2>1, <2>2 DEF RunnerInv, Begun, ResultIsTrue, refuse, commandCtx
  <2> QED
    BY <1>1, <1>2, <2>3 DEF RunnerInv, Begun, ReaderHas, Ended, refuse,
                            commandCtx, commandOut
<1>3. CASE Start
  <2>1. \A s \in Stream : copier'[s] = "copying"
    BY <1>3 DEF Start
  <2> QED
    BY <1>1, <1>3, <2>1 DEF RunnerInv, Begun, ReaderHas, Ended, ResultIsTrue,
                            Start, commandCtx
<1> QED
  BY <1>2, <1>3

\* The child and its descendant: they write only before a reader has seen the
\* end of its stream.
LEMMA ChildStep ==
  ASSUME RunnerInv, childSteps \/ terminateCommandProcessGroup
  PROVE  RunnerInv'
<1>1. CASE \E s \in Stream : ChildWrites(s)
  <2>1. PICK t \in Stream : ChildWrites(t)
    BY <1>1
  <2>2. /\ written \in [Stream -> 0..MaxOutput] /\ pipe \in [Stream -> 0..PipeSize]
        /\ buffer \in [Stream -> 0..Limit]
        /\ caller = "wait" /\ written[t] < MaxOutput /\ pipe[t] < PipeSize
        /\ child = "running" \/ heir # "gone"
    BY <2>1 DEF RunnerInv, CommandTypeOK, ChildWrites, writers
  <2>3. /\ written' = [written EXCEPT ![t] = @ + 1]
        /\ pipe' = [pipe EXCEPT ![t] = @ + 1]
        /\ UNCHANGED <<timed, parent, deadline, canceled, child, heir, buffer,
                       copier, caller, waitErr, class>>
    BY <2>1 DEF ChildWrites, commandCtx
  <2>4. CommandTypeOK'
    <3>1. /\ written' \in [Stream -> 0..MaxOutput]
          /\ pipe' \in [Stream -> 0..PipeSize]
      BY <2>2, <2>3, CommandAssumption
    <3> QED
      BY <2>3, <3>1 DEF RunnerInv, CommandTypeOK
  <2>5. ASSUME NEW s \in Stream PROVE ReaderHas(s)'
    BY <2>2, <2>3, CommandAssumption DEF RunnerInv, ReaderHas
  <2> QED
    BY <2>2, <2>3, <2>4, <2>5 DEF RunnerInv, Begun, Ended, ResultIsTrue
<1>2. CASE ChildForks \/ ChildExits \/ HeirExits \/ terminateCommandProcessGroup
  <2>1. /\ UNCHANGED <<timed, parent, deadline, canceled, written, pipe, buffer,
                       copier, caller, waitErr, class>>
        /\ child' = child \/ (child = "running" /\ child' \in {"exited", "failed", "killed"})
        /\ heir' = heir \/ heir' = "gone" \/
             (child = "running" /\ heir' \in {"in group", "outside"})
    BY <1>2 DEF ChildForks, ChildExits, HeirExits, terminateCommandProcessGroup,
                commandCtx, commandOut
  <2>2. CommandTypeOK'
    BY <2>1 DEF RunnerInv, CommandTypeOK
  <2>3. caller = "called" => heir' = "gone" /\ child' = "none"
    BY <2>1 DEF RunnerInv, Begun
  <2>4. Begun' /\ Ended'
    BY <2>1, <2>3 DEF RunnerInv, Begun, Ended
  <2>5. (\A s \in Stream : ReaderHas(s))'
    BY <2>1 DEF RunnerInv, ReaderHas
  <2>6. ResultIsTrue'
    BY <2>1 DEF RunnerInv, ResultIsTrue, Begun
  <2> QED
    BY <2>2, <2>4, <2>5, <2>6 DEF RunnerInv
<1> QED
  BY <1>1, <1>2 DEF childSteps

\* A reader keeps what is below the limit, or has exceeded it.
LEMMA ReadStep ==
  ASSUME RunnerInv, NEW t \in Stream, copyStream(t)
  PROVE  RunnerInv'
<1>1. /\ written \in [Stream -> 0..MaxOutput] /\ pipe \in [Stream -> 0..PipeSize]
      /\ buffer \in [Stream -> 0..Limit]
      /\ copier \in [Stream -> {"none", "copying", "done", "exceeded", "closed"}]
      /\ copier[t] = "copying" /\ buffer[t] + pipe[t] = written[t]
  BY DEF RunnerInv, CommandTypeOK, ReaderHas, copyStream
<1>2. PICK n \in 1..pipe[t] :
         LET room == Limit - buffer[t]
         IN /\ pipe' = [pipe EXCEPT ![t] = @ - n]
            /\ buffer' = [buffer EXCEPT ![t] = @ + IF n > room THEN room ELSE n]
            /\ copier' = [copier EXCEPT ![t] =
                 IF n > room THEN "exceeded" ELSE "copying"]
            /\ canceled' = (canceled \/ n > room)
  BY DEF copyStream
<1>a. /\ pipe' = [pipe EXCEPT ![t] = @ - n]
      /\ buffer' = [buffer EXCEPT ![t] =
           @ + IF n > Limit - buffer[t] THEN Limit - buffer[t] ELSE n]
      /\ copier' = [copier EXCEPT ![t] =
           IF n > Limit - buffer[t] THEN "exceeded" ELSE "copying"]
  BY <1>2, Zenon
<1>3. UNCHANGED <<timed, parent, deadline, child, heir, written, caller, waitErr,
                  class>>
  BY DEF copyStream, commandCtx
<1>4. caller = "wait"
  BY <1>1 DEF RunnerInv, Begun, CommandTypeOK
<1>5. CASE n > Limit - buffer[t]
  <2>1. /\ pipe' = [pipe EXCEPT ![t] = pipe[t] - n]
        /\ buffer' = [buffer EXCEPT ![t] = Limit]
        /\ copier' = [copier EXCEPT ![t] = "exceeded"]
    <3>1. buffer[t] + (Limit - buffer[t]) = Limit
      BY <1>1, CommandAssumption
    <3> QED
      BY <1>a, <1>5, <3>1
  <2>2. pipe[t] - n \in 0..PipeSize /\ written[t] > Limit
    BY <1>1, <1>5, CommandAssumption
  <2>3. CommandTypeOK'
    <3>1. timed' \in BOOLEAN /\ canceled' \in BOOLEAN /\ waitErr' \in BOOLEAN
      BY <1>2, <1>3, Zenon DEF RunnerInv, CommandTypeOK
    <3>2. Limit \in 0..Limit
      BY CommandAssumption
    <3>3. /\ pipe' \in [Stream -> 0..PipeSize] /\ buffer' \in [Stream -> 0..Limit]
          /\ copier' \in
               [Stream -> {"none", "copying", "done", "exceeded", "closed"}]
      BY <1>1, <2>1, <2>2, <3>2
    <3> QED
      BY <1>3, <3>1, <3>3 DEF RunnerInv, CommandTypeOK
  <2>4. ASSUME NEW s \in Stream PROVE ReaderHas(s)'
    BY <1>1, <1>3, <2>1, <2>2 DEF RunnerInv, ReaderHas
  <2>5. copier'[t] = "exceeded"
    BY <1>1, <2>1
  <2>6. Begun'
    BY <1>1, <1>3, <1>4, <2>1 DEF RunnerInv, Begun
  <2> QED
    BY <1>3, <1>4, <2>3, <2>4, <2>5, <2>6 DEF RunnerInv, Ended, ResultIsTrue
<1>6. CASE ~(n > Limit - buffer[t])
  <2>1. /\ pipe' = [pipe EXCEPT ![t] = pipe[t] - n]
        /\ buffer' = [buffer EXCEPT ![t] = buffer[t] + n]
        /\ copier' = copier
    BY <1>1, <1>a, <1>6
  <2>0. canceled' = canceled
    BY <1>2, <1>6 DEF RunnerInv, CommandTypeOK
  <2>2. pipe[t] - n \in 0..PipeSize /\ buffer[t] + n \in 0..Limit
    BY <1>1, <1>6, CommandAssumption
  <2>3. CommandTypeOK'
    BY <1>1, <1>3, <2>0, <2>1, <2>2 DEF RunnerInv, CommandTypeOK
  <2>4. ASSUME NEW s \in Stream PROVE ReaderHas(s)'
    BY <1>1, <1>3, <2>1, <2>2, CommandAssumption DEF RunnerInv, ReaderHas
  <2> QED
    BY <1>3, <1>4, <2>0, <2>1, <2>3, <2>4
       DEF RunnerInv, Begun, Ended, ResultIsTrue
<1> QED
  BY <1>5, <1>6

\* A reader sees the end of its stream when nobody can write to it any more.
LEMMA EndOfStreamStep ==
  ASSUME RunnerInv, NEW t \in Stream, endOfStream(t)
  PROVE  RunnerInv'
<1>1. /\ copier[t] = "copying" /\ pipe[t] = 0 /\ child # "running" /\ heir = "gone"
      /\ copier' = [copier EXCEPT ![t] = "done"]
      /\ UNCHANGED <<timed, parent, deadline, canceled, child, heir, written, pipe,
                     buffer, caller, waitErr, class>>
  BY DEF endOfStream, writers, commandCtx
<1>2. /\ copier \in [Stream -> {"none", "copying", "done", "exceeded", "closed"}]
      /\ caller = "wait"
  BY <1>1 DEF RunnerInv, CommandTypeOK, Begun
<1>3. CommandTypeOK'
  BY <1>1, <1>2 DEF RunnerInv, CommandTypeOK
<1>4. ASSUME NEW s \in Stream PROVE ReaderHas(s)'
  BY <1>1, <1>2 DEF RunnerInv, ReaderHas
<1>5. \A s \in Stream : copier[s] = "exceeded" => copier'[s] = "exceeded"
  BY <1>1, <1>2
<1>6. Begun'
  BY <1>1, <1>2 DEF RunnerInv, Begun
<1> QED
  BY <1>1, <1>2, <1>3, <1>4, <1>5, <1>6 DEF RunnerInv, Ended, ResultIsTrue

\* Wait returns only when the child has ended, and closes the pipes.
LEMMA WaitStep ==
  ASSUME RunnerInv, Wait
  PROVE  RunnerInv'
<1>1. \A s \in Stream :
        copier'[s] = IF copier[s] = "copying" THEN "closed" ELSE copier[s]
  BY DEF Wait
<1>2. CommandTypeOK'
  BY DEF RunnerInv, CommandTypeOK, Wait, commandCtx
<1>3. Begun' /\ (\A s \in Stream : ReaderHas(s))'
  BY <1>1 DEF RunnerInv, Begun, ReaderHas, Wait, commandCtx
<1>4. Ended'
  BY <1>1 DEF RunnerInv, Begun, Ended, Wait, commandCtx
<1> QED
  BY <1>2, <1>3, <1>4 DEF RunnerInv, ResultIsTrue, Wait

\* The class that Run chooses names what has happened.
LEMMA FinishStep ==
  ASSUME RunnerInv, finishRun
  PROVE  RunnerInv'
<1> DEFINE over == \E s \in Stream : copier[s] = "exceeded"
<1>1. /\ child \in {"exited", "failed", "killed"}
      /\ \A s \in Stream : copier[s] \in {"done", "exceeded", "closed"}
      /\ child # "exited" => waitErr
      /\ waitErr /\ ~over => child # "exited" \/ deadline # "none"
      /\ parent # "none" => deadline # "none"
      /\ deadline \in ContextErr /\ parent \in ContextErr
  BY DEF RunnerInv, Ended, CommandTypeOK, finishRun
<1>2. /\ caller' = "returned"
      /\ UNCHANGED <<timed, parent, deadline, canceled, child, heir, written, pipe,
                     buffer, copier, waitErr>>
  BY DEF finishRun, commandCtx, commandOut
<1>3. CASE over
  <2>1. class' = "output_limit"
    BY <1>3 DEF finishRun
  <2>2. \E s \in Stream : buffer[s] = Limit /\ written[s] > Limit
    BY <1>3 DEF RunnerInv, ReaderHas
  <2> QED
    BY <1>1, <1>2, <2>1, <2>2 DEF RunnerInv, CommandTypeOK, ErrorClass, Begun,
                                  ReaderHas, Ended, ResultIsTrue
<1>4. CASE ~over /\ deadline # "none"
  <2>1. \/ class' = "timeout" /\ "deadline" \in {parent, deadline}
        \/ class' = "canceled" /\ "canceled" \in {parent, deadline}
    BY <1>1, <1>4 DEF finishRun, classifyWaitError, classifyContextError,
                      ContextErr
  <2> QED
    BY <1>1, <1>2, <2>1 DEF RunnerInv, CommandTypeOK, ErrorClass, Begun,
                            ReaderHas, Ended, ResultIsTrue
<1>5. CASE ~over /\ deadline = "none" /\ waitErr
  <2>1. child \in {"failed", "killed"} /\ parent = "none"
    BY <1>1, <1>5
  <2>2. class' = "non_zero_exit"
    BY <1>5, <2>1 DEF finishRun, classifyWaitError
  <2> QED
    BY <1>1, <1>2, <2>1, <2>2 DEF RunnerInv, CommandTypeOK, ErrorClass, Begun,
                                  ReaderHas, Ended, ResultIsTrue
<1>6. CASE ~over /\ deadline = "none" /\ ~waitErr
  <2>1. class' = "" /\ child = "exited"
    BY <1>1, <1>6 DEF finishRun
  <2>2. ASSUME NEW s \in Stream, copier[s] # "closed"
        PROVE  copier[s] = "done" /\ buffer[s] = written[s]
    <3>1. copier[s] = "done" /\ pipe[s] = 0 /\ buffer[s] + pipe[s] = written[s]
      BY <1>1, <1>6, <2>2 DEF RunnerInv, ReaderHas
    <3>2. buffer \in [Stream -> 0..Limit]
      BY DEF RunnerInv, CommandTypeOK
    <3> QED
      BY <3>1, <3>2
  <2> QED
    BY <1>1, <1>2, <2>1, <2>2 DEF RunnerInv, CommandTypeOK, ErrorClass, Begun,
                                  ReaderHas, Ended, ResultIsTrue
<1> QED
  BY <1>3, <1>4, <1>5, <1>6

\* Every step of a call keeps what is known of it.
LEMMA RunnerInvStep == RunnerInv /\ [CommandNext]_commandVars => RunnerInv'
<1>. SUFFICES ASSUME RunnerInv, [CommandNext]_commandVars PROVE RunnerInv'
  OBVIOUS
<1>1. CASE UNCHANGED commandVars
  <2>1. UNCHANGED <<timed, parent, deadline, canceled, child, heir, written, pipe,
                    buffer, copier, caller, waitErr, class>>
    BY <1>1 DEF commandVars, commandCtx, commandOut
  <2>2. CommandTypeOK'
    BY <2>1, Zenon DEF RunnerInv, CommandTypeOK
  <2>3. Begun' /\ (\A s \in Stream : ReaderHas(s))' /\ Ended'
    BY <2>1, Zenon DEF RunnerInv, Begun, ReaderHas, Ended
  <2>4. ResultIsTrue'
    BY <2>1, Zenon DEF RunnerInv, ResultIsTrue
  <2> QED
    BY <2>2, <2>3, <2>4 DEF RunnerInv
<1> QED
  BY <1>1, ContextStep, StartStep, ChildStep, ReadStep, EndOfStreamStep,
     WaitStep, FinishStep
     DEF CommandNext, runSteps, copierSteps

\* A command without the fairness of its schedule.
CommandSafety == CommandInit /\ [][CommandNext]_commandVars

\* The invariant needs no fairness.
LEMMA RunnerInvariant == CommandSafety => []RunnerInv
BY RunnerInvInit, RunnerInvStep, PTL DEF CommandSafety

\* However the child, the readers, the kill and the contexts race, the error
\* class of a result names what has happened, and a success has all of the output
\* of every stream that was read to its end, for any limit and any output
\* (runner.go 87-150).
THEOREM ResultsAreTrue == CommandSpec => []ResultIsTrue
<1>1. RunnerInv => ResultIsTrue
  BY DEF RunnerInv
<1> QED
  BY <1>1, RunnerInvariant, PTL DEF CommandSpec, CommandSafety

\* The types of the child, of its streams and of the caller.
THEOREM CommandTypes == CommandSafety => []CommandTypeOK
<1>1. RunnerInv => CommandTypeOK
  BY DEF RunnerInv
<1> QED
  BY <1>1, RunnerInvariant, PTL
-----------------------------------------------------------------------------
(***************************************************************************)
(* The host.  Its parts share nothing, so what is proved of each holds of  *)
(* all of them side by side.                                               *)
(***************************************************************************)
\* A step of one part is no step of another.
LEMMA HostStep ==
  [HostNext]_hostVars =>
    /\ [CommandNext]_commandVars
    /\ [ProbeNext]_probeVars
    /\ [MigrationNext]_migrationVars
    /\ [AtomicNext]_atomicVars
    /\ [LogNext]_logVars
    /\ [LineNext]_lineVars
    /\ [ConfigNext]_configVars
<1>1. CASE UNCHANGED hostVars
  BY <1>1 DEF hostVars
<1>2. CASE HostNext
  BY <1>2 DEF HostNext
<1> QED
  BY <1>1, <1>2

\* What the parts do side by side is a behaviour of each of them.
THEOREM HostRunsParts ==
  HostSpec =>
    CommandSafety /\ ProbeSpec /\ MigrationSpec /\ AtomicSpec /\ LogSpec /\
    LineSpec /\ ConfigSpec
<1>1. HostInit =>
        /\ CommandInit /\ ProbeInit /\ MigrationInit /\ AtomicInit /\ LogInit
        /\ LineInit /\ ConfigInit
  BY DEF HostInit
<1> QED
  BY <1>1, HostStep, PTL
     DEF HostSpec, CommandSafety, ProbeSpec, MigrationSpec, AtomicSpec, LogSpec,
         LineSpec, ConfigSpec

\* The types of the parts, of all of them.
THEOREM HostTyped == HostSpec => []TypeOK
BY HostRunsParts, CommandTypes, ProbeTypes, MigrationTypes, AtomicTypes,
   LogTypes, LineTypes, ConfigTypes, PTL DEF TypeOK
=============================================================================
