--------------------------- MODULE ServiceConfig ---------------------------
(***************************************************************************)
(* The parts of a configuration file that say how often the agent runs,    *)
(* where its server listens, which units and files it looks at and what    *)
(* its node is called: their defaults (config/defaults.go), their checks   *)
(* (config/validate.go) and what cmd/pooly-agent/main.go makes of them.    *)
(*                                                                         *)
(* Text is told apart by what the checks ask of it; times are in seconds.  *)
(* The intervals and timeouts of the collectors, ports, commands and       *)
(* directories are left out: their checks look at one value at a time, or  *)
(* are the one of the scheduler's interval again.                          *)
(***************************************************************************)
EXTENDS Integers, Sequences

CONSTANTS
  UnsafeText,     \* texts with characters that the patterns do not allow
  SecretText,     \* texts that Redact changes
  Loopback,       \* host:port on this machine only
  Routable,       \* host:port that others reach
  LongName,       \* names that safeName cuts, with what it leaves of them
  CleanPath,      \* absolute paths, with their normal forms
  MaxUnits,       \* the limit of 64 critical services
  MaxTargets      \* the limit of 128 watched paths

ASSUME ServiceAssumption ==
  /\ MaxUnits \in Nat /\ MaxTargets \in Nat
  /\ "" \notin Loopback \cup Routable
  /\ Loopback \cap Routable = {}
  /\ \A n \in DOMAIN LongName : LongName[n] \notin DOMAIN LongName

isSet(text) == text # ""
matchesPattern(text) == text \notin UnsafeText
isSafe(text) == matchesPattern(text) /\ text \notin SecretText
distinct(list) == \A i, j \in DOMAIN list : list[i] = list[j] => i = j

\* The sections, as the decoder types them (config/schema.go).
FilewatchTargetConfig ==
  [name : STRING, path : STRING, hash : BOOLEAN, allowPrivateKeyHash : BOOLEAN]
SectionsConfig ==
  [interval : Int, cycleTimeout : Int, apiEnabled : BOOLEAN,
   bind : STRING, listen : STRING, allowNonLoopback : BOOLEAN,
   units : Seq(STRING), targets : Seq(FilewatchTargetConfig), nodeID : STRING]

(***************************************************************************)
(* LoadBytes decodes the file over the defaults: a key that is not in the  *)
(* file keeps its default, a list that is replaces it.                     *)
(***************************************************************************)
Absent == -1
DefaultAPIBind == "127.0.0.1:9587"
Default == [interval |-> 60, cycleTimeout |-> 45, bind |-> "",
            listen |-> DefaultAPIBind]

\* A text is absent when the file does not have its key, which is not the
\* empty text.
AbsentText == "absent"

LoadBytes(s) ==
  [s EXCEPT !.interval = IF @ = Absent THEN Default.interval ELSE @,
            !.cycleTimeout = IF @ = Absent THEN Default.cycleTimeout ELSE @,
            !.bind = IF @ = AbsentText THEN Default.bind ELSE @,
            !.listen = IF @ = AbsentText THEN Default.listen ELSE @]

(***************************************************************************)
(* The checks.                                                             *)
(***************************************************************************)
validateScheduler(s) ==
  /\ 10 <= s.interval /\ s.interval <= 86400
  /\ 0 < s.cycleTimeout /\ s.cycleTimeout <= 82800
  /\ s.cycleTimeout < s.interval

EffectiveAPIListen(s) == IF isSet(s.bind) THEN s.bind ELSE s.listen

validateAPIBind(address, s) ==
  address \in Loopback \cup (IF s.allowNonLoopback THEN Routable ELSE {})

\* Both are checked, although only one is used.
validateAPI(s) ==
  /\ isSet(EffectiveAPIListen(s))
  /\ isSet(s.bind) => validateAPIBind(s.bind, s)
  /\ isSet(s.listen) => validateAPIBind(s.listen, s)

validateUnits(units) ==
  /\ Len(units) <= MaxUnits
  /\ \A i \in DOMAIN units : isSet(units[i]) /\ isSafe(units[i])
  /\ distinct(units)

\* Names are compared as they are, paths as Clean leaves them.
validateFilewatch(targets) ==
  /\ Len(targets) <= MaxTargets
  /\ \A i \in DOMAIN targets :
       /\ isSet(targets[i].name) /\ isSafe(targets[i].name)
       /\ targets[i].path \in DOMAIN CleanPath
       /\ targets[i].allowPrivateKeyHash => targets[i].hash
  /\ \A i, j \in DOMAIN targets :
       i # j => /\ targets[i].name # targets[j].name
                /\ CleanPath[targets[i].path] # CleanPath[targets[j].path]

\* Only the rule engine asks more of the node's name: a fingerprint takes no
\* unsafe text.
validateNode(id) == isSet(id) /\ id \notin SecretText

validateSections(file) ==
  LET s == LoadBytes(file)
  IN /\ validateScheduler(s)
     /\ validateAPI(s)
     /\ validateUnits(s.units)
     /\ validateFilewatch(s.targets)
     /\ validateNode(s.nodeID)

(***************************************************************************)
(* The conversion.                                                         *)
(***************************************************************************)
\* safeName names the row of a target in collector_state.
safeName(name) == IF name \in DOMAIN LongName THEN LongName[name] ELSE name

filewatchOptionsFromConfig(targets) ==
  [i \in DOMAIN targets |->
     [row  |-> safeName(targets[i].name),
      cut  |-> targets[i].name \in DOMAIN LongName,
      path |-> CleanPath[targets[i].path]]]

\* "" is a server that is switched off.
serviceFromConfig(file) ==
  LET s == LoadBytes(file)
  IN [interval     |-> s.interval,
      cycleTimeout |-> s.cycleTimeout,
      listen       |-> IF s.apiEnabled THEN EffectiveAPIListen(s) ELSE "",
      exposed      |-> s.allowNonLoopback,
      units        |-> s.units,
      watches      |-> filewatchOptionsFromConfig(s.targets)]

NoService == [interval |-> 0, cycleTimeout |-> 0, listen |-> "",
              exposed |-> FALSE, units |-> <<>>, watches |-> <<>>]
-----------------------------------------------------------------------------
\* What the scheduler, the server and the collectors take for granted of a
\* configuration that was accepted.  A cycle's timeout is over before the next
\* tick; the server is reached from this machine only unless that was asked
\* for; no unit or path is looked at twice; and no two watched paths write one
\* row of collector_state, unless safeName cut one of their names: the check
\* compares names before they are cut.
ServiceAsAssumed(s) ==
  /\ s.cycleTimeout \in 1..(s.interval - 1)
  /\ isSet(s.listen) => s.listen \in Loopback \/ s.exposed
  /\ distinct(s.units)
  /\ \A i, j \in DOMAIN s.watches :
       /\ s.watches[i].path = s.watches[j].path => i = j
       /\ s.watches[i].row = s.watches[j].row =>
            i = j \/ s.watches[i].cut \/ s.watches[j].cut
=============================================================================
