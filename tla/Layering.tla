------------------------------ MODULE Layering ------------------------------
(***************************************************************************)
(* Where a key's value comes from (source.rs): the value files of the      *)
(* cascade in order, laid over what penv.cloud or a bundle holds, under    *)
(* what the process sets, over the schema's default; and what happens to a *)
(* key penv.cloud holds write-only, which is never the same as a missing   *)
(* one.                                                                    *)
(*                                                                         *)
(* One key is followed.  A value is the name of the layer it was written   *)
(* in, or "" where that layer holds the key with nothing after the `=`.    *)
(***************************************************************************)
EXTENDS Integers, Sequences, Functions

CONSTANTS
  Cascade,   \* the names of the value files, in the order they are layered
  Worlds     \* what is where (records, see world)

None == "none"

VARIABLES
  world,     \* files: name -> [value, marker]; linked: the schema names a project; bundle,
             \* cloud, process, default: what each holds; offline, development, current
  at,        \* how many files are read
  raw,       \* what the layers come to so far, or None
  origin,    \* the layer named as its source, or None
  redacted,  \* the file whose marker stands, or None
  overridden,\* the layer named as replacing the cloud's value, or None
  from,      \* what was read under the files: "files", "cloud", "bundle"
  stage,     \* "files", "overlay", "process", "withhold", "defaults", "done"
  withheld,  \* whether the key ends as redacted
  ended      \* how it ended: "no", "refused", "offline", "handed"

vars == <<world, at, raw, origin, redacted, overridden, from, stage, withheld, ended>>

Init ==
  /\ world \in Worlds
  /\ at = 0
  /\ raw = None /\ origin = None /\ redacted = None /\ overridden = None
  /\ from = "files" /\ stage = "files" /\ withheld = FALSE /\ ended = "no"

-----------------------------------------------------------------------------
\* One file of the cascade: its value replaces an earlier one even when it is empty; a
\* value wins over a marker in its own file or an earlier one.
KeepMarker(file, entry) ==
  IF entry.value \notin {None, ""} THEN None
  ELSE IF entry.marker THEN file ELSE redacted

ReadFile ==
  /\ stage = "files" /\ at < Len(Cascade)
  /\ at' = at + 1
  /\ LET file == Cascade[at + 1]
         entry == world.files[file]
     IN /\ raw' = IF entry.value = None THEN raw ELSE entry.value
        /\ origin' = IF entry.value = None THEN origin ELSE file
        /\ redacted' = KeepMarker(file, entry)
  /\ UNCHANGED <<world, overridden, from, stage, withheld, ended>>

\* The files over what the bundle or the cloud holds.
LayOver(held, name) ==
  /\ raw' = IF raw = None THEN held ELSE raw
  /\ overridden' = IF held # None /\ raw # None THEN origin ELSE None
  /\ origin' = IF name = "bundle" /\ origin = None /\ held # None THEN "bundle" ELSE origin
  /\ from' = name
  /\ stage' = "process"
  /\ UNCHANGED <<world, at, redacted, withheld, ended>>

OverBundle ==
  /\ stage = "files" /\ at = Len(Cascade)
  /\ world.bundle # "no"
  /\ LayOver(world.bundle, "bundle")

CloudHeld == IF world.cloud = "withheld" THEN None ELSE world.cloud

OverCloud ==
  /\ stage = "files" /\ at = Len(Cascade)
  /\ world.bundle = "no" /\ world.linked /\ ~world.offline
  /\ LayOver(CloudHeld, "cloud")

NoCloud ==
  /\ stage = "files" /\ at = Len(Cascade)
  /\ world.bundle = "no" /\ ~world.linked
  /\ stage' = "process"
  /\ UNCHANGED <<world, at, raw, origin, redacted, overridden, from, withheld, ended>>

\* Offline, only development runs on what is here, and only when something is.
AnyFile == \E f \in DOMAIN world.files : world.files[f].present

Offline ==
  /\ stage = "files" /\ at = Len(Cascade)
  /\ world.bundle = "no" /\ world.linked /\ world.offline
  /\ IF world.development /\ AnyFile
     THEN stage' = "process" /\ UNCHANGED ended
     ELSE stage' = "done" /\ ended' = "offline"
  /\ UNCHANGED <<world, at, raw, origin, redacted, overridden, from, withheld>>

\* A mutant: what already replaced the cloud stays named.
NameProcessOnce(cloud) ==
  IF ~cloud \/ raw = None THEN overridden
  ELSE IF overridden = None /\ origin = None THEN "process" ELSE overridden

\* A key the process sets keeps that value; over the cloud the replacement is named.
NameProcess(cloud) ==
  IF ~cloud \/ raw = None THEN overridden
  ELSE IF overridden # None \/ origin = None THEN "process" ELSE overridden

ProcessWins ==
  /\ stage = "process"
  /\ IF world.process \in {None, ""}
     THEN UNCHANGED <<raw, origin, overridden>>
     ELSE /\ raw' = world.process
          /\ origin' = "process"
          /\ overridden' = NameProcess(from = "cloud")
  /\ stage' = "withhold"
  /\ UNCHANGED <<world, at, redacted, from, withheld, ended>>

\* The cloud decides what it withholds; a marker speaks where neither cloud nor bundle
\* was read.
WriteOnly ==
  CASE from = "cloud" -> world.cloud = "withheld"
    [] from = "bundle" -> FALSE
    [] from = "files" -> redacted # None

Supplied ==
  LET set == raw \notin {None, ""} IN
  IF from = "cloud" THEN set ELSE set /\ origin = "process"

Withhold ==
  /\ stage = "withhold"
  /\ withheld' = (WriteOnly /\ ~Supplied /\ ~world.current)
  /\ raw' = IF world.current THEN "environment" ELSE raw
  /\ stage' = "defaults"
  /\ UNCHANGED <<world, at, origin, redacted, overridden, from, ended>>

\* A default fills a key no layer gave a value.
WithDefaults ==
  /\ stage = "defaults"
  /\ raw' = IF raw \in {None, ""} /\ world.default # None THEN world.default ELSE raw
  /\ stage' = "done"
  /\ ended' = IF withheld THEN "refused" ELSE "handed"
  /\ UNCHANGED <<world, at, origin, redacted, overridden, from, withheld>>

Next ==
  \/ ReadFile \/ OverBundle \/ OverCloud \/ NoCloud \/ Offline
  \/ ProcessWins \/ Withhold \/ WithDefaults

Spec == Init /\ [][Next]_vars

-----------------------------------------------------------------------------
(* penv(env/KEY) from another environment, over the same files and cloud.  *)

Value(i)  == world.files[Cascade[i]].value
Marked(i) == world.files[Cascade[i]].marker

\* The last of the first n files that holds the key; its value stands, even an empty one.
Holding(n) == {i \in 1 .. n : Value(i) # None}
LastOf(n)  == CHOOSE i \in Holding(n) : \A j \in Holding(n) : j <= i
ValueIn(n) == IF Holding(n) = {} THEN None ELSE Value(LastOf(n))
LocalValue == ValueIn(Len(Cascade))

\* A marker stands until a value is written in its own file or a later one.
StandsIn(n) == \E i \in 1 .. n : Marked(i) /\ \A j \in i .. n : Value(j) \in {None, ""}
LocalMarker == StandsIn(Len(Cascade))

ReadElsewhere ==
  LET cloud == IF world.offline \/ ~world.linked THEN None ELSE CloudHeld
      found == IF LocalValue # None THEN LocalValue ELSE cloud
      stops == IF world.linked
               THEN ~world.offline /\ world.cloud = "withheld" /\ LocalValue \in {None, ""}
               ELSE LocalMarker
  IN IF stops THEN "refused"
     ELSE IF found \in {None, ""} /\ world.default # None THEN world.default ELSE found

-----------------------------------------------------------------------------
\* A key known to be write-only is never handed over as missing, empty or defaulted: the
\* command is refused unless something on this machine supplies a value, and a marker an
\* earlier file's value comes before still stands (source.rs:350-368, 576-603, 667-696).
WithheldIsNotMissing ==
  (ended = "handed" /\ ~world.current) =>
    CASE from = "cloud"  -> world.cloud = "withheld" => raw \in Range(Cascade) \cup {"process"}
      [] from = "files"  -> LocalMarker => raw = "process"
      [] from = "bundle" -> TRUE

\* What replaced the cloud's value is named, once, as the layer that replaced it last; and
\* nothing is named where the cloud's value stands (source.rs:374-418).
ReplacedIsNamed ==
  (stage = "done" /\ from = "cloud") =>
    overridden = IF CloudHeld # None /\ origin # None THEN origin ELSE None

\* penv(env/KEY) answers as a run in that environment would, where neither a bundle nor
\* the process speaks and the cloud was reached: refused together, the same value otherwise
\* (source.rs:524-604, 905-991).
ReadAgreesWithRun ==
  /\ ended \in {"refused", "handed"}
  /\ world.bundle = "no" /\ world.process \in {None, ""}
  /\ ~world.current /\ ~(world.linked /\ world.offline)
  => ReadElsewhere = IF ended = "refused" THEN "refused" ELSE raw

-----------------------------------------------------------------------------
(* The inductive invariant behind them.                                    *)

\* A layer holds nothing, an empty value, or one that is named for it.
NamesLayers(w) ==
  /\ \A i \in 1 .. Len(Cascade) : w.files[Cascade[i]].value \in {None, "", Cascade[i]}
  /\ w.process \in {None, "", "process"}

\* What the constants are taken to be; the runs assume it.
LayerAssumption ==
  /\ Cascade \in Seq(STRING) /\ Range(Cascade) \cap {None, "", "process"} = {}
  /\ \A w \in Worlds : NamesLayers(w)

FileIn(n) == IF Holding(n) = {} THEN None ELSE Cascade[LastOf(n)]
LocalFile == FileIn(Len(Cascade))

\* What lies under the files, what the two come to, and which layer it is read from.
Below == IF from = "cloud" THEN CloudHeld ELSE IF from = "bundle" THEN world.bundle ELSE None
Laid  == IF LocalValue # None THEN LocalValue ELSE Below
LaidIn == IF from = "bundle" /\ LocalFile = None /\ Below # None THEN "bundle" ELSE LocalFile

\* What the process makes of that.
Speaks   == world.process \notin {None, ""}
Spoken   == IF Speaks THEN "process" ELSE Laid
SpokenIn == IF Speaks THEN "process" ELSE LaidIn
Refused ==
  /\ IF from = "cloud" THEN world.cloud = "withheld" ELSE from = "files" /\ LocalMarker
  /\ ~(Spoken \notin {None, ""} /\ (from = "cloud" \/ SpokenIn = "process"))
  /\ ~world.current

Reading ==
  stage = "files" =>
    /\ at \in 0 .. Len(Cascade) /\ from = "files" /\ overridden = None
    /\ raw = ValueIn(at) /\ origin = FileIn(at) /\ (redacted # None <=> StandsIn(at))

Read ==
  stage # "files" /\ ended # "offline" =>
    /\ redacted # None <=> LocalMarker
    /\ from = IF world.bundle # "no" THEN "bundle"
              ELSE IF world.linked /\ ~world.offline THEN "cloud" ELSE "files"

Overlaid ==
  stage = "process" =>
    /\ raw = Laid /\ origin = LaidIn
    /\ overridden = IF Below # None /\ LocalValue # None THEN LocalFile ELSE None

Decided ==
  stage \in {"withhold", "defaults", "done"} /\ ended # "offline" =>
    /\ origin = SpokenIn
    /\ from = "cloud" =>
         overridden = IF CloudHeld # None /\ origin # None THEN origin ELSE None
    /\ stage = "withhold" => raw = Spoken
    /\ stage # "withhold" => (withheld <=> Refused)
    /\ stage = "defaults" /\ ~world.current => raw = Spoken
    /\ stage = "done" => ended = IF withheld THEN "refused" ELSE "handed"
    /\ stage = "done" /\ ~world.current =>
         raw = IF Spoken \in {None, ""} /\ world.default # None THEN world.default ELSE Spoken

LayersInv ==
  /\ NamesLayers(world)
  /\ stage \in {"files", "process", "withhold", "defaults", "done"}
  /\ ended \in {"no", "offline", "refused", "handed"}
  /\ ended # "no" => stage = "done"
  /\ ended = "offline" => from = "files"
  /\ Reading /\ Read /\ Overlaid /\ Decided

=============================================================================
