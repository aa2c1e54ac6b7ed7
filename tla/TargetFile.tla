----------------------------- MODULE TargetFile -----------------------------
(***************************************************************************)
(* `penv gen` (commands/gen.rs, penv-targets): where a generated file      *)
(* goes, what it is rendered from, and how the answer is remembered so     *)
(* that it is never asked for again, while a folder in the old layout is   *)
(* moved into the new one on the way.                                      *)
(*                                                                         *)
(* One target is followed.  A layer of it says some of its fields: the     *)
(* output, the one knob its [options] hold, and one field standing for all *)
(* the others.  A path is a sequence of names.                             *)
(***************************************************************************)
EXTENDS Integers, Sequences, SequencesExt, Functions

CONSTANTS
  Worlds,       \* what surrounds the repository's own layer (records, see world)
  Folders,      \* what the repository may hold at first (records, see folder)
  Given,        \* the paths a person may give or type
  Values,       \* the values the knob takes
  KnobDefault,  \* its default where no layer says
  Rules,        \* its suggestions, in order: [fact, contains, value]
  MaxCommands

None == "none"

VARIABLES
  world,   \* home, builtIn: their layers; homeTemplate, builtTemplate; dirs: directory ->
           \* the facts of it; shaped: directory -> the name its layout stands for, or None
  folder,  \* fields: the section of config.toml; template: .penv/x.tmpl; old, oldTemplate:
           \* .penv/targets/x/target.toml and env.tmpl
  files,   \* path -> what was generated there
  run,     \* the run under way: [pc, path, target]
  told,    \* what the last run said
  kept,    \* the target the last answer stands for, or NoTarget, and
  fresh,   \* whether nothing was generated since: history
  did      \* how many commands and edits there were

vars == <<world, folder, files, run, told, kept, fresh, did>>

-----------------------------------------------------------------------------
(* The layers.                                                             *)

Layer(output, option, other) ==
  [there |-> TRUE, output |-> output, option |-> option, other |-> other]
Empty == Layer(<<>>, None, None)
NoLayer == [Empty EXCEPT !.there = FALSE]

\* merge: key by key, the upper one wins.
Over(upper, below) ==
  [there  |-> upper.there \/ below.there,
   output |-> IF upper.output # <<>> THEN upper.output ELSE below.output,
   option |-> IF upper.option # None THEN upper.option ELSE below.option,
   other  |-> IF upper.other # None THEN upper.other ELSE below.other]

\* The section read over the old folder's file; a template alone changes nothing else.
RepoLayer(f) ==
  IF f.fields.there \/ f.template # None THEN Over([f.fields EXCEPT !.there = TRUE], f.old)
  ELSE f.old

RepoTemplate(f) == IF f.template # None THEN f.template ELSE f.oldTemplate

NoTarget ==
  [ok |-> FALSE, output |-> <<>>, from |-> None, option |-> None, other |-> None,
   template |-> None]

Template(w, f) ==
  IF RepoTemplate(f) # None THEN RepoTemplate(f)
  ELSE IF w.homeTemplate # None THEN w.homeTemplate ELSE w.builtTemplate

\* Repository, then home, then built in; a template with no target.toml beside it is refused.
Load(w, f) ==
  LET repo == RepoLayer(f)
      all == Over(repo, Over(w.home, w.builtIn))
      stray == (~repo.there /\ RepoTemplate(f) # None)
               \/ (~w.home.there /\ w.homeTemplate # None)
  IN IF stray \/ ~all.there \/ Template(w, f) = None \/ all.output = <<>>
        \/ all.option \notin Values \cup {None}
     THEN NoTarget
     ELSE [ok |-> TRUE, output |-> all.output,
           from |-> IF repo.output # <<>> THEN "repo" ELSE "elsewhere",
           option |-> all.option, other |-> all.other, template |-> Template(w, f)]

Effective(target) == IF target.option = None THEN KnobDefault ELSE target.option

Render(target) == <<target.template, target.option, target.other>>

-----------------------------------------------------------------------------
(* Where it goes.                                                          *)

\* How a path's names are walked: where they lead, and whether still inside.
Enter(at, name) ==
  IF name = "." \/ ~at.ok THEN at
  ELSE IF name # ".." THEN [at EXCEPT !.path = Append(@, name)]
  ELSE IF at.path = <<>> THEN [at EXCEPT !.ok = FALSE]
  ELSE [at EXCEPT !.path = Front(@)]

Walk(path) ==
  LET walk[i \in 0 .. Len(path)] ==
        IF i = 0 THEN [ok |-> TRUE, path |-> <<>>] ELSE Enter(walk[i - 1], path[i])
  IN walk

\* A path with `.` and `..` taken out, or <<>> where it leaves the repository.
Inside(path) ==
  LET end == Walk(path)[Len(path)] IN IF end.ok THEN end.path ELSE <<>>

\* The directories holding a detect file, the root last.
Candidates(w) == {d \in DOMAIN w.dirs : "detected" \in w.dirs[d]}

\* The deepest candidate a path is under, or the root.
PackageOf(w, path) ==
  LET holding == {d \in Candidates(w) : d # <<>> /\ Len(d) < Len(path) /\ IsPrefix(d, path)}
  IN IF holding = {} THEN <<>> ELSE CHOOSE d \in holding : \A e \in holding : Len(e) <= Len(d)

OutputIn(w, target, package) ==
  package \o IF w.shaped[package] = None THEN target.output ELSE <<w.shaped[package], "env">>

Suggestions(w, target) ==
  IF Candidates(w) = {} THEN {target.output}
  ELSE {OutputIn(w, target, d) : d \in Candidates(w)}

\* What the package's own files imply; reading inside one counts only where penv can ask.
Suggested(w, package, canAsk) ==
  LET Holds(i) == /\ package \in DOMAIN w.dirs /\ Rules[i].fact \in w.dirs[package]
                  /\ Rules[i].contains => canAsk
      hits == {i \in DOMAIN Rules : Holds(i)}
  IN IF hits = {} THEN None ELSE Rules[CHOOSE i \in hits : \A j \in hits : i <= j].value

\* The knob's value after the path was answered: unasked, what the files imply; at a
\* terminal, one of those offered.
Settled(w, target, path, interactive) ==
  LET found == Suggested(w, PackageOf(w, path), interactive)
      offered == {target.option} \cup {Rules[i].value : i \in DOMAIN Rules}
  IN IF target.option = None \/ found \in {None, target.option} THEN {target.option}
     ELSE IF interactive THEN offered ELSE {found}

-----------------------------------------------------------------------------
Idle == [pc |-> "idle", path |-> <<>>, target |-> NoTarget]

Init ==
  /\ world \in Worlds /\ folder \in Folders
  /\ files = <<>> /\ run = Idle /\ told = None /\ kept = NoTarget
  /\ fresh = FALSE /\ did = 0

Says(what) == told' = what /\ UNCHANGED <<world, folder, files, run, kept, fresh>>

Generated(path, text) ==
  files' = [p \in DOMAIN files \cup {path} |-> IF p = path THEN text ELSE files[p]]

\* put: the file is written unless it is already what it would be; the write empties it
\* first, and may be cut short there.
Put(target, path) ==
  /\ \/ /\ Generated(path, Render(target))
        /\ run' = [pc |-> "remember", path |-> path, target |-> target]
     \/ /\ path \in DOMAIN files => files[path] # Render(target)
        /\ Generated(path, <<"cut">>)
        /\ run' = run
  /\ told' = None
  /\ fresh' = FALSE
  /\ UNCHANGED <<world, folder, kept>>

\* gen, and init for each target: a flag and the repository's own output decide; otherwise a
\* person is asked, and where there is nobody nothing is written.
Answered(path, interactive) ==
  LET target == Load(world, folder)
      to == Inside(path)
  IN IF to = <<>> THEN Says("refused")
     ELSE \E v \in Settled(world, target, to, interactive) : Put([target EXCEPT !.option = v], to)

Gen ==
  LET target == Load(world, folder) IN
  /\ run.pc = "idle" /\ did < MaxCommands
  /\ did' = did + 1
  /\ \/ ~target.ok /\ Says("refused")
     \/ \E path \in Given, interactive \in BOOLEAN : target.ok /\ Answered(path, interactive)
     \/ /\ target.ok /\ target.from = "repo"
        /\ IF Inside(target.output) = <<>> THEN Says("refused") ELSE Put(target, Inside(target.output))
     \/ target.ok /\ target.from # "repo" /\ Says("skipped")
     \/ /\ target.ok /\ target.from # "repo"
        /\ \E path \in Suggestions(world, target) \cup Given : Answered(path, TRUE)

\* gen --check settles nothing: the remembered output, or a skip.
Check ==
  LET target == Load(world, folder)
      path == Inside(target.output)
  IN /\ run.pc = "idle" /\ target.ok /\ target.from = "repo" /\ path # <<>>
     /\ UNCHANGED did
     /\ Says(CASE path \notin DOMAIN files -> "missing"
               [] path \in DOMAIN files ->
                    IF files[path] = Render(target) THEN "current" ELSE "stale")

-----------------------------------------------------------------------------
(* remember, which may be cut short between its writes and within one.     *)

HasOld == folder.old.there \/ folder.oldTemplate # None

\* A mutant: the section is written without the old folder's fields.
RememberedAlone ==
  [folder.fields EXCEPT !.there = TRUE, !.output = run.path, !.option = Effective(run.target)]

\* The section over the old folder's fields, with the answer.
Answer(f, path, option) ==
  [Over(f.fields, f.old) EXCEPT !.there = TRUE, !.output = path, !.option = option]

Remembered == Answer(folder, run.path, Effective(run.target))

Goes(pc) == run' = IF pc = "idle" THEN Idle ELSE [run EXCEPT !.pc = pc]

SaveSection ==
  /\ run.pc = "remember"
  /\ folder' = [folder EXCEPT !.fields = Remembered]
  /\ kept' = [run.target EXCEPT !.output = run.path, !.from = "repo",
                                !.option = Effective(run.target)]
  /\ fresh' = TRUE
  /\ Goes(IF HasOld THEN "template" ELSE "idle")
  /\ told' = IF HasOld THEN told ELSE "written"
  /\ UNCHANGED <<world, files, did>>

MoveTemplate ==
  /\ run.pc = "template"
  /\ folder' = [folder EXCEPT !.template = IF @ = None THEN folder.oldTemplate ELSE @]
  /\ Goes("drop template")
  /\ UNCHANGED <<world, files, told, kept, fresh, did>>

DropTemplate ==
  /\ run.pc = "drop template"
  /\ folder' = [folder EXCEPT !.oldTemplate = None]
  /\ Goes("drop fields")
  /\ UNCHANGED <<world, files, told, kept, fresh, did>>

DropFields ==
  /\ run.pc = "drop fields"
  /\ folder' = [folder EXCEPT !.old = NoLayer]
  /\ Goes("idle")
  /\ told' = "written"
  /\ UNCHANGED <<world, files, kept, fresh, did>>

\* What may be left of a section whose file was cut short: config.toml is emptied and then
\* written.  A word cut in two does not parse, and is refused.
Remains(l) ==
  {NoLayer} \cup {[there |-> TRUE, output |-> o, option |-> v, other |-> x] :
     o \in {<<>>, l.output}, v \in {None, "wrong", l.option}, x \in {None, l.other}}

\* The process dies in a write, or the disk is full: the section goes, or half a template
\* stands that the next run takes for the target's own, and drops the old one.
CutShort ==
  /\ \/ /\ run.pc = "remember" /\ (folder.fields # Remembered \/ HasOld)
        /\ \E left \in Remains(Remembered) : folder' = [folder EXCEPT !.fields = left]
     \/ /\ run.pc = "template" /\ folder.template = None /\ folder.oldTemplate # None
        /\ folder' = [folder EXCEPT !.template = "cut"]
  /\ run' = Idle
  /\ told' = None /\ kept' = NoTarget /\ fresh' = FALSE
  /\ UNCHANGED <<world, files, did>>

Crash ==
  /\ run.pc # "idle"
  /\ run' = Idle
  /\ told' = None
  /\ UNCHANGED <<world, folder, files, kept, fresh, did>>

-----------------------------------------------------------------------------
\* A person edits what penv wrote: the knob in the section, or the generated file.
Edit ==
  /\ run.pc = "idle" /\ did < MaxCommands
  /\ did' = did + 1
  /\ \/ /\ folder.fields.there
        /\ \E v \in Values \cup {"wrong"} : folder' = [folder EXCEPT !.fields.option = v]
        /\ kept' = NoTarget
        /\ UNCHANGED files
     \/ /\ files # <<>>
        /\ files' = [p \in DOMAIN files |-> <<"edited">>]
        /\ UNCHANGED <<folder, kept>>
  /\ told' = None
  /\ fresh' = FALSE
  /\ UNCHANGED <<world, run>>

\* The package gains a file that implies another value.
Grow ==
  /\ run.pc = "idle" /\ did < MaxCommands
  /\ did' = did + 1
  /\ \E d \in DOMAIN world.dirs, i \in DOMAIN Rules :
       world' = [world EXCEPT !.dirs[d] = @ \cup {Rules[i].fact}]
  /\ UNCHANGED <<folder, files, run, told, kept, fresh>>

Next ==
  \/ Gen \/ Check \/ SaveSection \/ MoveTemplate \/ DropTemplate \/ DropFields
  \/ CutShort \/ Crash \/ Edit \/ Grow

Spec == Init /\ [][Next]_vars

-----------------------------------------------------------------------------
\* An answer stands: from the moment it is kept the target loads as what was rendered, with
\* its output, its knob, its other fields and its template, at every step of moving an old
\* folder in and whichever step is the last; so nothing is asked again, and a check finds
\* the file current (gen.rs:632-707, settled.rs:52-75).  Only a knob no layer gave a value
\* is rendered as undefined and then remembered as its default, and only a write cut short
\* in the middle, which leaves config.toml or the moved template in part, undoes it
\* (config.rs:166-169, gen.rs:671-677, files.rs:51-52): then no answer is kept.
AnswerStands ==
  LET Current == files[kept.output] = Render(kept)
      Unvalued == files[kept.output] = Render([kept EXCEPT !.option = None])
  IN /\ kept.ok => Load(world, folder) = kept
     /\ fresh => kept.output \in DOMAIN files /\ (Current \/ Unvalued)
     /\ (fresh /\ told \in {"stale", "missing"}) => Unvalued

\* No run changes the template or the other fields a target has, not even one killed
\* between two of its writes (gen.rs:636-640); one killed within a write may.
FieldsStep ==
  run' # run /\ ~CutShort =>
    LET before == Load(world, folder)
        after == Load(world', folder')
    IN before.other = after.other /\ before.template = after.template

FieldsSurvive == [][FieldsStep]_vars

-----------------------------------------------------------------------------
(* The inductive invariant behind it.                                      *)

\* The strings, with those written here named for the provers.
Words == STRING \cup {None, "wrong", "repo", "elsewhere", "env", "cut"}

LayerIs == [there : BOOLEAN, output : Seq(Words), option : Words, other : Words]

\* What a layer says where it is there; one that is not says nothing.
LayerSays == {l \in LayerIs : l.there \/ l = NoLayer}

Around(w) ==
  /\ DOMAIN w = {"home", "homeTemplate", "builtIn", "builtTemplate", "dirs", "shaped"}
  /\ w.home \in LayerSays /\ w.builtIn \in LayerSays
  /\ w.homeTemplate \in Words /\ w.builtTemplate \in Words
  /\ DOMAIN w.dirs \subseteq Seq(Words)
  /\ \A d \in DOMAIN w.dirs : w.shaped[d] \in Words

FolderHolds ==
  [fields : LayerSays, template : Words, old : LayerSays, oldTemplate : Words]

TargetIs == [ok : BOOLEAN, output : Seq(Words), from : Words, option : Words, other : Words,
             template : Words]

RunIs == [pc : {"idle", "remember", "template", "drop template", "drop fields"},
          path : Seq(Words), target : TargetIs]

\* What the constants are taken to be; the runs assume it.
TargetAssumption ==
  /\ \A w \in Worlds : Around(w)
  /\ Folders \subseteq FolderHolds
  /\ Given \subseteq Seq(Words)
  /\ Values \subseteq Words \ {None} /\ KnobDefault \in Values
  /\ Rules \in Seq([fact : Words, contains : BOOLEAN, value : Values])

TypeOK ==
  /\ Around(world) /\ folder \in FolderHolds
  /\ run \in RunIs /\ kept \in TargetIs

\* What is to be remembered is the target as it loads, but for the knob that was settled,
\* and it was rendered to where it is going.
Remembering ==
  run.pc = "remember" =>
    LET target == Load(world, folder) IN
    /\ target.ok /\ run.target.ok
    /\ run.target.other = target.other /\ run.target.template = target.template
    /\ run.target.option \in Values \cup {None}
    /\ run.path # <<>> /\ Inside(run.path) = run.path
    /\ run.path \in DOMAIN files /\ files[run.path] = Render(run.target)
    /\ told = None

\* From there on the section says all the old folder did, and its template is the one that
\* stands before the old one goes.
Moving ==
  run.pc \in {"template", "drop template", "drop fields"} =>
    /\ folder.fields.there /\ folder.fields.output # <<>> /\ folder.fields.option # None
    /\ folder.fields.other = None => folder.old.other = None
    /\ run.pc # "template" => folder.template # None \/ folder.oldTemplate = None
    /\ run.pc = "drop fields" => folder.oldTemplate = None

\* What is fresh is an answer, to a path that stays where it is.
FreshIsKept == fresh => kept.ok /\ kept.output # <<>> /\ Inside(kept.output) = kept.output

TargetInv ==
  TypeOK /\ Remembering /\ Moving /\ FreshIsKept /\ AnswerStands

=============================================================================
