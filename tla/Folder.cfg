\* Every way of two files, a bundle or a cloud and a process to hold a key; two releases
\* of penv over what a person may leave in a guard's file; two commands on a target's
\* folder; four messages to the editor's server; two upgrades.  Each comes to an end.
CONSTANTS
  Cascade <- MCCascade
  LayerWorlds <- MCLayerWorlds
  GuardWrites <- MCGuardWrites
  GuardRendered <- MCGuardRendered
  GuardEdits <- MCGuardEdits
  GuardLayouts <- MCGuardLayouts
  TargetWorlds <- MCTargetWorlds
  TargetFolders <- MCTargetFolders
  TargetGiven <- MCTargetGiven
  TargetValues = {"node", "vite", "deno"}
  TargetDefault = "node"
  TargetRules <- MCTargetRules
  MaxCommands = 2
  Uris = {"schema", "other"}
  Schemas = {"schema"}
  Texts = {"t1", "t2"}
  Disks = {"d1", "d2"}
  Findings <- MCFound
  Clean = "clean"
  Closed = "closed"
  MaxSent = 4
  Upgrades = {"u1", "u2"}
  Versions <- MCVersions
  First = 2
  Named = {1}
  Forged = Forged
  Torn = Torn
  Latest = Latest
  NoFile = NoFile
SPECIFICATION FolderSpec
CHECK_DEADLOCK FALSE
INVARIANTS LayersHold GuardsHold ShownIsCurrent
PROPERTIES AnswerStands UpgradeHolds
