----------------------------- MODULE MCFolder ------------------------------
(***************************************************************************)
(* Folder over the inputs below: for Layering two files, a bundle or a     *)
(* cloud, the process and a default, each of which may hold the key, hold  *)
(* it empty or not at all, with what no layer looks at in a case fixed;    *)
(* for Guards and TargetFile those of MCGuards and MCTargetFile.           *)
(***************************************************************************)
EXTENDS Folder, TLC

MCCascade == <<".env", ".env.local">>
None == "none"   \* Layering's own

Entry(f) ==
  {[present |-> FALSE, value |-> None, marker |-> FALSE]}
  \cup [present : {TRUE}, value : {None, "", f}, marker : BOOLEAN]

Held(linked, bundle, cloud, offline, development) ==
  {[files |-> (".env" :> a) @@ (".env.local" :> b), linked |-> linked, bundle |-> bundle,
    cloud |-> cloud, process |-> p, default |-> d, offline |-> offline,
    development |-> development, current |-> cur] :
      a \in Entry(".env"), b \in Entry(".env.local"), p \in {None, "", "process"},
      d \in {None, "default"}, cur \in BOOLEAN}

MCLayerWorlds ==
  Held(FALSE, "no", None, FALSE, FALSE)
  \cup UNION {Held(TRUE, "no", c, FALSE, FALSE) : c \in {None, "cloud", "withheld"}}
  \cup UNION {Held(TRUE, "no", None, TRUE, d) : d \in BOOLEAN}
  \cup UNION {Held(TRUE, b, None, FALSE, FALSE) : b \in {None, "bundle"}}

-----------------------------------------------------------------------------
\* The inputs of Guards and TargetFile are constants of their own modules.
GuardIn == INSTANCE MCGuards WITH
  Writes <- {}, Rendered <- {}, Edits <- {}, Layouts <- {}, disk <- agentFiles, run <- merging
MCGuardWrites == GuardIn!MCWrites
MCGuardRendered == GuardIn!MCRendered
MCGuardEdits == GuardIn!MCEdits
MCGuardLayouts == GuardIn!MCLayouts

TargetIn == INSTANCE MCTargetFile WITH
  Worlds <- {}, Folders <- {}, Given <- {}, Values <- {}, KnobDefault <- {}, Rules <- {},
  world <- around, run <- generating, told <- said
MCTargetWorlds == TargetIn!MCWorlds
MCTargetFolders == TargetIn!MCFolders
MCTargetGiven == TargetIn!MCGiven
MCTargetRules == TargetIn!MCRules

-----------------------------------------------------------------------------
\* A text that is wrong only beside one of the two disks.
MCFound ==
  [p \in {"t1", "t2"} \X {"d1", "d2"} |->
     IF p = <<"t1", "d1">> THEN "clean" ELSE IF p[1] = "t1" THEN "late" ELSE "wrong"]

MCVersions == 1 .. 3
=============================================================================
