---------------------------- MODULE ConfigManager ----------------------------
(***************************************************************************)
(* One namespace of the configuration: in memory, in its YAML file, and    *)
(* what clients were told (gateway/src/services/config-manager-v2.ts,      *)
(* config/config.routes.ts and config.validators.ts).  A setting has one   *)
(* of two good values, a value of its type that the schema refuses         *)
(* ("bad"), or a value of another type ("alien").                          *)
(***************************************************************************)
EXTENDS Integers, Functions

CONSTANTS Missing,    \* no configuration in memory, no file
          EmptyFile   \* what a write that was cut short at once leaves

VARIABLES
  version,       \* of the installed Gateway: 2 has a setting more than 1
  process,       \* "down", "up", or "refused" when the configuration does not load
  configuration, \* #configuration of the namespace
  yaml,          \* its file: a function, Missing or EmptyFile
  acknowledged,  \* history: settings the Gateway has to keep, with their values
  damaged        \* history: the file is what a write that was cut short left

configVars == <<version, process, configuration, yaml, acknowledged, damaged>>

Kinds == [slippage |-> "fraction", flag |-> "boolean", number |-> "number"]
Settings(v) == IF v = 1 THEN {"slippage", "flag"} ELSE DOMAIN Kinds
Good == {"template", "other"}
Values == Good \cup {"bad", "alien"}
Template(v) == [s \in Settings(v) |-> "template"]
IsFalsy(s) == Kinds[s] = "boolean"   \* the template says false

Files(v) == UNION {[S -> Values] : S \in SUBSET Settings(v)}
Partial(c) == {Restrict(c, S) : S \in SUBSET DOMAIN c}

\* a file that is not there is told from every file that is
ASSUME ConfigAssumption == \A v \in {1, 2} : Missing \notin Files(v)

\* the namespace's JSON schema: every setting is there and none besides
Validator(c) == DOMAIN c = Settings(version) /\ \A s \in DOMAIN c : c[s] \in Good

\* mutant: the template is laid over the file
DeepCopyTemplate(src, dst) ==
  [s \in DOMAIN src \cup DOMAIN dst |-> IF s \in DOMAIN dst THEN dst[s] ELSE src[s]]

\* what the file says goes over the template unless it has another type
DeepCopy(src, dst) ==
  [s \in DOMAIN src \cup DOMAIN dst |->
     IF s \in DOMAIN src /\ (s \notin DOMAIN dst \/ src[s] # "alien" \/ IsFalsy(s))
     THEN src[s] ELSE dst[s]]

ConfigInit ==
  /\ version = 1 /\ process = "down" /\ configuration = Missing /\ damaged = FALSE
  /\ yaml = Missing /\ acknowledged = <<>>

Refuse(file) ==
  /\ process' = "refused" /\ configuration' = Missing /\ yaml' = file

\* the constructor and loadConfig of the namespace
LoadConfig ==
  /\ process = "down"
  /\ LET file == IF yaml = Missing THEN Template(version) ELSE yaml
         merged == DeepCopy(file, Template(version))
     IN  IF file = EmptyFile THEN Refuse(file)
         ELSE IF Validator(file)
         THEN process' = "up" /\ configuration' = file /\ yaml' = file
         ELSE IF Validator(merged)
         THEN process' = "up" /\ configuration' = merged /\ yaml' = merged
         ELSE Refuse(file)
  /\ acknowledged' = IF damaged THEN <<>> ELSE acknowledged
  /\ damaged' = FALSE /\ UNCHANGED version

\* the copy of the template, or the save of the merge, fails or the process ends
\* in it: nothing is loaded; the file is as before, empty, or ends somewhere
LoadCutShort ==
  /\ process = "down" /\ yaml # EmptyFile
  /\ LET written == IF yaml = Missing THEN Template(version) ELSE DeepCopy(yaml, Template(version))
     IN  /\ yaml # Missing => ~Validator(yaml) /\ Validator(written)
         /\ yaml' \in {EmptyFile, yaml} \cup Partial(written)
         /\ damaged' = (damaged \/ yaml' \notin {yaml, written})
  /\ UNCHANGED <<version, process, configuration, acknowledged>>

\* the route converts texts by the type of the value that is there: what is no
\* number becomes NaN, and any text but "true" false; slippage is validated first
ConfigValue(s, raw) ==
  IF raw # "alien" THEN raw
  ELSE CASE Kinds[s] = "number" -> "bad" [] Kinds[s] = "boolean" -> "template" [] OTHER -> "alien"

\* set of the namespace: the clone that is validated takes the place of the configuration
Set(s, v) ==
  LET clone == [configuration EXCEPT ![s] = v]
  IN  IF Validator(clone) THEN clone ELSE configuration

SaveConfig(s, v) == yaml' = Set(s, v)

Updates(s, v) ==
  /\ process = "up" /\ s \in Settings(version)
  /\ Kinds[s] = "fraction" => v \in Good

Update ==
  /\ \E s \in DOMAIN Kinds, raw \in Values :
       LET v == ConfigValue(s, raw)
       IN  /\ Updates(s, v)
           /\ configuration' = Set(s, v)
           /\ IF v \in Good
              THEN /\ SaveConfig(s, v) /\ damaged' = FALSE
                   /\ acknowledged' = [t \in DOMAIN acknowledged \cup {s} |->
                                         IF t = s THEN v ELSE acknowledged[t]]
              ELSE UNCHANGED <<yaml, acknowledged, damaged>>
  /\ UNCHANGED <<version, process>>

\* writeFileSync fails, or the process ends in it: memory has the new value if
\* the process goes on; the file is as before, empty, or ends somewhere
UpdateCutShort ==
  /\ \E s \in DOMAIN Kinds, v \in Good, rest \in {"ends", "up"} :
       /\ Updates(s, v)
       /\ process' = IF rest = "up" THEN "up" ELSE "down"
       /\ configuration' = IF rest = "up" THEN Set(s, v) ELSE Missing
       /\ yaml' \in {EmptyFile, yaml} \cup Partial(Set(s, v))
       /\ damaged' = (yaml' # Set(s, v) /\ (damaged \/ yaml' # yaml))
       /\ acknowledged' = Restrict(acknowledged, DOMAIN acknowledged \ {s})
  /\ UNCHANGED version

Stop ==
  /\ process = "up" /\ process' = "down" /\ configuration' = Missing
  /\ UNCHANGED <<version, yaml, acknowledged, damaged>>

Upgrade ==
  /\ process = "down" /\ version = 1 /\ version' = 2
  /\ UNCHANGED <<process, configuration, yaml, acknowledged, damaged>>

\* what is good in a file and, if the Gateway runs, is what it works with: it
\* does not read the file again, and its next save writes all of its memory
InForce(f) ==
  {s \in DOMAIN f : f[s] \in Good /\ (process = "up" => configuration[s] = f[s])}

\* the user writes the file: what is good in it counts as acknowledged
EditByHand ==
  /\ process' = IF process = "up" THEN "up" ELSE "down"
  /\ \E f \in Files(version) : yaml' = f /\ acknowledged' = Restrict(f, InForce(f))
  /\ damaged' = FALSE /\ UNCHANGED <<version, configuration>>

ConfigNext ==
  LoadConfig \/ LoadCutShort \/ Update \/ UpdateCutShort \/ Stop \/ Upgrade \/ EditByHand

-----------------------------------------------------------------------------
(* Settings that were acknowledged, or written by hand and good, are what  *)
(* the Gateway works with: bad and failed updates, restarts, merges with   *)
(* the template and upgrades keep them.  They are lost with a restart from *)
(* a file that a write was cut short in and no later one made whole; and   *)
(* an edit under a running Gateway counts only where it changes nothing.   *)
AcknowledgedKept ==
  process = "up" =>
    \A s \in DOMAIN acknowledged : configuration[s] = acknowledged[s]
=============================================================================
