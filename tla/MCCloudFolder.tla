---------------------------- MODULE MCCloudFolder ---------------------------
(***************************************************************************)
(* CloudFolder with two commands, three keys and requests of two.          *)
(***************************************************************************)
EXTENDS CloudFolder, TLC

CONSTANTS a, b, c, v, w, huge, odd, dev, stg, slug, other

MCKeySeq == <<a, b, c>>

Cmd(op, env, erases, agent, key, value) ==
  [op |-> op, env |-> env, erases |-> erases, agent |-> agent, key |-> key, value |-> value]

MCCommands ==
  {Cmd("push", stg, x, FALSE, a, v) : x \in BOOLEAN}
    \cup {Cmd("push", dev, FALSE, FALSE, a, v), Cmd("push", stg, TRUE, TRUE, a, v)}
    \cup {Cmd("pull", e, FALSE, FALSE, a, v) : e \in {dev, stg}}
    \cup {Cmd("set", dev, FALSE, FALSE, c, w), Cmd("unset", dev, FALSE, FALSE, a, w)}
    \cup {Cmd(op, stg, FALSE, FALSE, a, v) : op \in {"project-new", "project-rename", "env-new", "env-rename"}}
    \cup {Cmd(op, stg, TRUE, FALSE, a, v) : op \in {"project-rm", "env-rm"}}

Says(x, y, z) == [k \in {a, b, c} |-> CASE k = a -> x [] k = b -> y [] k = c -> z]
Empty == Says("absent", "absent", "absent")

\* No project yet, a project and its header, a project of another folder.
MCFolders ==
  {[files |-> [f \in {".env", dev, stg} |->
                 CASE f = ".env" -> base [] f = dev -> Empty [] f = stg -> own],
    declared |-> {a, b}, link |-> l.link, cloud |-> l.cloud] :
      base \in {Says(v, "random", w), Says("broken", v, huge)},
      own  \in {Says("marker", "absent", "empty"), Says(w, "empty", v)},
      l    \in {[link |-> Unlinked, cloud |-> [s \in {slug, other} |-> NoProject]],
                [link |-> slug, cloud |-> [s \in {slug, other} |->
                   IF s = slug THEN [e \in {dev, stg} |-> Says(w, odd, "unset")] ELSE NoProject]],
                [link |-> Unlinked, cloud |-> [s \in {slug, other} |->
                   IF s = other THEN [e \in {dev, stg} |-> IF e = dev THEN Empty ELSE NoEnv] ELSE NoProject]]}}

MCSymmetry == Permutations(Procs)

=============================================================================
