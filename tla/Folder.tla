------------------------------- MODULE Folder -------------------------------
(***************************************************************************)
(* What penv makes of a folder and of the files around it: the layers a    *)
(* key's value comes from (Layering), the guards of the agents (Guards),   *)
(* the generated file of a target (TargetFile), the editor that looks at   *)
(* the schema (EditorServer), and the binary itself (Upgrade).  They share *)
(* nothing, so a behaviour is of one of them, its topic, and the others    *)
(* stand still.                                                            *)
(***************************************************************************)
EXTENDS Integers, Sequences, FiniteSets

CONSTANTS
  Cascade, LayerWorlds,                                     \* Layering's
  GuardWrites, GuardRendered, GuardEdits, GuardLayouts,     \* Guards'
  TargetWorlds, TargetFolders, TargetGiven, TargetValues,   \* TargetFile's
  TargetDefault, TargetRules, MaxCommands,
  Uris, Schemas, Texts, Disks, Findings, Clean, Closed, MaxSent,  \* EditorServer's
  Upgrades, Versions, First, Named, Forged, Torn, Latest, NoFile  \* Upgrade's

VARIABLES
  topic,
  world, at, raw, origin, redacted, overridden, from, stage, withheld, outcome,
  writes, release, agentFiles, theirs, lost, builtIn, folders, merging, report,
  around, folder, files, generating, said, kept, fresh, did,
  pipe, documents, initialized, shutdown, ended, disk, buffer, since, shown, told, sent,
  os, name, data, up, alone

layerVars  == <<world, at, raw, origin, redacted, overridden, from, stage, withheld, outcome>>
guardVars  == <<writes, release, agentFiles, theirs, lost, builtIn, folders, merging, report>>
targetVars == <<around, folder, files, generating, said, kept, fresh, did>>
editorVars == <<pipe, documents, initialized, shutdown, ended, disk, buffer, since, shown, told,
                sent>>
swapVars   == <<os, name, data, up, alone>>
folderVars == <<topic, layerVars, guardVars, targetVars, editorVars, swapVars>>

-----------------------------------------------------------------------------
Layers == INSTANCE Layering WITH Worlds <- LayerWorlds, ended <- outcome

Guard == INSTANCE Guards WITH
  Writes <- GuardWrites, Rendered <- GuardRendered, Edits <- GuardEdits,
  Layouts <- GuardLayouts, disk <- agentFiles, run <- merging

Target == INSTANCE TargetFile WITH
  Worlds <- TargetWorlds, Folders <- TargetFolders, Given <- TargetGiven,
  Values <- TargetValues, KnobDefault <- TargetDefault, Rules <- TargetRules,
  world <- around, run <- generating, told <- said

Editor == INSTANCE EditorServer

Swap == INSTANCE Upgrade WITH None <- NoFile

ASSUME LayerAssumption == Layers!LayerAssumption
ASSUME GuardAssumption == Guard!GuardAssumption
ASSUME TargetAssumption == Target!TargetAssumption
ASSUME EditorAssumption == Editor!EditorAssumption
ASSUME SwapAssumption == Swap!UpgradeAssumption

-----------------------------------------------------------------------------
Unlayered ==
  /\ world = 0 /\ at = 0 /\ raw = 0 /\ origin = 0 /\ redacted = 0 /\ overridden = 0
  /\ from = 0 /\ stage = 0 /\ withheld = 0 /\ outcome = 0

Unguarded ==
  /\ writes = 0 /\ release = 0 /\ agentFiles = 0 /\ theirs = 0 /\ lost = 0 /\ builtIn = 0
  /\ folders = 0 /\ merging = 0 /\ report = 0

Untargeted ==
  /\ around = 0 /\ folder = 0 /\ files = 0 /\ generating = 0 /\ said = 0 /\ kept = 0
  /\ fresh = 0 /\ did = 0

Unedited ==
  /\ pipe = 0 /\ documents = 0 /\ initialized = 0 /\ shutdown = 0 /\ ended = 0 /\ disk = 0
  /\ buffer = 0 /\ since = 0 /\ shown = 0 /\ told = 0 /\ sent = 0

Unswapped == os = 0 /\ name = 0 /\ data = 0 /\ up = 0 /\ alone = 0

FolderInit ==
  \/ topic = "layers"  /\ Layers!Init /\ Unguarded /\ Untargeted /\ Unedited /\ Unswapped
  \/ topic = "guards"  /\ Unlayered /\ Guard!Init /\ Untargeted /\ Unedited /\ Unswapped
  \/ topic = "target"  /\ Unlayered /\ Unguarded /\ Target!Init /\ Unedited /\ Unswapped
  \/ topic = "editor"  /\ Unlayered /\ Unguarded /\ Untargeted /\ Editor!Init /\ Unswapped
  \/ topic = "upgrade" /\ Unlayered /\ Unguarded /\ Untargeted /\ Unedited /\ Swap!Init

FolderNext ==
  /\ UNCHANGED topic
  /\ \/ /\ topic = "layers" /\ Layers!Next
        /\ UNCHANGED <<guardVars, targetVars, editorVars, swapVars>>
     \/ /\ topic = "guards" /\ Guard!Next
        /\ UNCHANGED <<layerVars, targetVars, editorVars, swapVars>>
     \/ /\ topic = "target" /\ Target!Next
        /\ UNCHANGED <<layerVars, guardVars, editorVars, swapVars>>
     \/ /\ topic = "editor" /\ Editor!Next
        /\ UNCHANGED <<layerVars, guardVars, targetVars, swapVars>>
     \/ /\ topic = "upgrade" /\ Swap!Next
        /\ UNCHANGED <<layerVars, guardVars, targetVars, editorVars>>

FolderSpec == FolderInit /\ [][FolderNext]_folderVars

-----------------------------------------------------------------------------
\* Layering's: a key known to be write-only is never handed over as missing or
\* defaulted, what replaced the cloud's value is named, and penv() reads a key as a run
\* in its environment would (source.rs:308-424, 524-604, 667-696, 905-991).
LayersHold ==
  topic = "layers" =>
    Layers!WithheldIsNotMissing /\ Layers!ReplacedIsNamed /\ Layers!ReadAgreesWithRun

\* Guards': a merge keeps what the file says, but for a file that is not text, one the
\* write cut short and an edit it did not see, and a run reports what holds (merge.rs:7-19,
\* guard.rs:189-195).
GuardsHold == topic = "guards" => Guard!GuardsHold

\* TargetFile's: an answer once kept stands through every step of a run, whichever is its
\* last, and no run changes a target's other fields or its template (gen.rs:632-707,
\* settled.rs:52-75), but for a run that dies or finds the disk full within a write.
AnswerStands ==
  [](topic = "target" => Target!AnswerStands)
  /\ [][topic = "target" => Target!FieldsStep]_folderVars

\* EditorServer's: once it has read the pipe, what the editor shows is what its text has
\* (lsp.rs:214-286).
ShownIsCurrent == topic = "editor" => Editor!ShownIsCurrent

\* Upgrade's: what is installed is a signed release that was picked, `penv` is always
\* there, and a version kept is kept (upgrade.rs:214-470).
UpgradeHolds ==
  [](topic = "upgrade" => Swap!SignedAndPicked /\ Swap!PenvStays)
  /\ [][topic = "upgrade" => Swap!KeptStep]_folderVars
=============================================================================
