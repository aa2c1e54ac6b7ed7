------------------------------- MODULE Guards -------------------------------
(***************************************************************************)
(* `penv guard`, `penv guard --check` and the guards `penv init` writes:   *)
(* the fragment a guard's folder renders is merged into the file a harness *)
(* reads, which its user edits as well (crates/penv-guards,                *)
(* commands/guard.rs).                                                     *)
(*                                                                         *)
(* A file is absent, bytes that are not text, a tree (JSON or TOML) or     *)
(* lines (a hook script, a text file).  A tree is a function from paths,   *)
(* tuples of names, to nodes, closed under prefixes: its root is at <<>>.  *)
(***************************************************************************)
EXTENDS Sequences, SequencesExt, FiniteSets, Naturals

CONSTANTS
  Writes,       \* the lists of writes a run may make: records of format, merge, union
  Rendered,     \* Rendered[w]: what each release renders for the write w, in order
  Edits,        \* Edits[w]: what a person may leave in the file of w, Absent included
  Layouts       \* Layouts[list]: what the repository and home may hold of its guard

VARIABLES
  writes,       \* the list of this behaviour
  release,      \* the release of penv installed
  disk,         \* disk[i]: the file of the i-th write
  theirs,       \* history: theirs[i]: the file as a person last left it
  lost,         \* history: the writes whose file was cut short, or overwritten unread
  builtIn,      \* the binary holds a guard of this name
  folders,      \* folders[p]: what "repo" and "home" hold of this guard
  run,          \* the run under way: its mode, the write it is at, what it read there
  report        \* report[i]: what the last run said of the i-th write

vars == <<writes, release, disk, theirs, lost, builtIn, folders, run, report>>

Absent      == [is |-> "absent"]
Raw         == [is |-> "raw"]
Tree(nodes) == [is |-> "tree", nodes |-> nodes]
Text(lines) == [is |-> "lines", lines |-> lines]

Obj == [is |-> "obj"]
Arr(items) == [is |-> "arr", items |-> items]

-----------------------------------------------------------------------------
(* Where a guard comes from *)

\* The places looked in, in order; the binary's own folder is complete.
Places == <<"repo", "home">>

Holds(place, file) ==
  CASE place = "binary" -> builtIn
    [] place = "nowhere" -> FALSE
    [] place \in {"repo", "home"} ->
         IF file = "config" THEN folders[place].config # "none" ELSE folders[place].template

\* The first place at or after `from` that holds the file.
FirstOf(file, from) ==
  LET order == Append(Places, "binary")
      held  == {n \in from .. Len(order) : Holds(order[n], file)}
  IN IF held = {} THEN "nowhere" ELSE order[CHOOSE n \in held : \A m \in held : n <= m]

\* The folder that wins is the first with a guard.toml; a file it lacks comes from a
\* place after it, never from one before.
Found ==
  LET winner == FirstOf("config", 1)
      from   == CASE winner = "repo" -> 1 [] winner = "home" -> 2 [] OTHER -> 3
  IN [config |-> winner, template |-> FirstOf("template", from)]

Broken(place) == place \in {"repo", "home"} /\ folders[place].config = "broken"

Shadows == Found.config = "repo" /\ builtIn

Loads == /\ Found.config # "nowhere" /\ ~Shadows
         /\ ~Broken(Found.config) /\ Found.template # "nowhere"

-----------------------------------------------------------------------------
(* Folding a fragment into what is there *)

Ancestors(path) == {SubSeq(path, 1, n) : n \in 0 .. (Len(path) - 1)}

Unites(write, path) ==
  \/ write.format = "toml" \/ write.merge = "append-unique"
  \/ write.merge = "deny-union" /\ path # <<>> /\ Last(path) \in write.union

\* One more at a time, unless it is there by then.
Grown(items, more) ==
  LET grown[n \in 0 .. Len(more)] ==
        IF n = 0 THEN items
        ELSE IF Contains(grown[n - 1], more[n]) THEN grown[n - 1]
        ELSE Append(grown[n - 1], more[n])
  IN grown
AppendMissing(items, more) == Grown(items, more)[Len(more)]

\* The walk goes down where both sides are objects.
Reached(base, add) ==
  {path \in DOMAIN add : \A up \in Ancestors(path) : up \in DOMAIN base => base[up] = Obj}

Joined(write, base, add, path) ==
  /\ base[path].is = "arr" /\ add[path].is = "arr"
  /\ Unites(write, path)

MergeTree(write, base, add) ==
  LET meets == Reached(base, add) \cap DOMAIN base
      blocked == {path \in meets : base[path] # add[path] /\ ~Joined(write, base, add, path)}
      content ==
        [path \in DOMAIN base \cup Reached(base, add) |->
           IF path \notin DOMAIN base THEN add[path]
           ELSE IF path \in meets /\ Joined(write, base, add, path)
           THEN Arr(AppendMissing(base[path].items, add[path].items))
           ELSE base[path]]
  IN [content |-> content, changed |-> content # base, blocked |-> blocked]

IsShebang(line) == line.kind = "shebang"
IsCommand(line) == line.kind = "command"

CommandsOf(lines) ==
  LET first[n \in 0 .. Len(lines)] ==
        IF n = 0 THEN <<>>
        ELSE IF IsCommand(lines[n]) THEN Append(first[n - 1], lines[n]) ELSE first[n - 1]
  IN first
Commands(lines) == CommandsOf(lines)[Len(lines)]

\* Mutant: penv's lines count wherever they stand.
PlacedAnywhere(wanted, commands) == ToSet(wanted) \subseteq ToSet(commands)

Placed(wanted, commands) == IsPrefix(wanted, commands)

\* penv's lines are the first commands after the shebang, or are not placed at all.
MergeScript(lines, add) ==
  LET wanted   == Tail(add)
      headed   == lines # <<>> /\ IsShebang(Head(lines))
      body     == IF headed THEN Tail(lines) ELSE lines
      commands == Commands(body)
      made     == <<IF headed THEN Head(lines) ELSE Head(add)>> \o wanted \o body
  IN IF commands = <<>>
     THEN [content |-> made, changed |-> made # lines, blocked |-> {}]
     ELSE [content |-> lines, changed |-> FALSE,
           blocked |-> IF Placed(wanted, commands) THEN {} ELSE ToSet(wanted)]

MergeLines(lines, add) ==
  LET all == AppendMissing(lines, add)
  IN [content |-> all, changed |-> all # lines, blocked |-> {}]

IsScript(lines) == lines # <<>> /\ IsShebang(Head(lines))

Shape(write) == IF write.format = "text" THEN "lines" ELSE "tree"

Parses(write, existing) == existing.is \in {"absent", Shape(write)}

Apply(write, existing, fragment) ==
  LET lines == IF existing = Absent THEN <<>> ELSE existing.lines
      AsText(merged) == [merged EXCEPT !.content = Text(@)]
      AsTree(merged) == [merged EXCEPT !.content = Tree(@)]
  IN IF write.format = "text"
     THEN AsText(IF IsScript(fragment.lines) THEN MergeScript(lines, fragment.lines)
                 ELSE MergeLines(lines, fragment.lines))
     ELSE IF existing = Absent THEN [content |-> fragment, changed |-> TRUE, blocked |-> {}]
     ELSE AsTree(MergeTree(write, existing.nodes, fragment.nodes))

-----------------------------------------------------------------------------
(* The runs *)

Idle == [mode |-> "none", at |-> 0, step |-> "look", was |-> Absent]
Nothing == [mode |-> "none", status |-> "none", blocked |-> {}]
Silent(n) == [i \in 1 .. n |-> Nothing]

Init ==
  /\ writes \in Writes
  /\ release = 1
  /\ disk \in {d \in [DOMAIN writes -> UNION {Edits[w] : w \in DOMAIN Edits}] :
                 \A i \in DOMAIN writes : d[i] \in Edits[writes[i]]}
  /\ theirs = disk /\ lost = {}
  /\ builtIn \in BOOLEAN
  /\ folders \in Layouts[writes]
  /\ run = Idle
  /\ report = Silent(Len(writes))

\* What is read of the file: bytes that are not text read as no file at all.
Existing(i) == IF disk[i] = Raw THEN Absent ELSE disk[i]

Fragment(i) == Rendered[writes[i]][release]

Made(i, existing) == Apply(writes[i], existing, Fragment(i))

Outcome(i) == Made(i, Existing(i))

\* What a run says of a write is what it read; `init` says nothing.
Tell(i, existing) ==
  LET made == Made(i, existing)
      status == CASE made.blocked # {} -> "overridden"
                  [] made.blocked = {} /\ existing = Absent -> "missing"
                  [] made.blocked = {} /\ existing # Absent ->
                       IF made.changed THEN "stale" ELSE "current"
  IN report' = IF run.mode = "init" THEN report
               ELSE [report EXCEPT ![i] = [mode |-> run.mode, status |-> status,
                                           blocked |-> made.blocked]]

At(step) == run.mode # "none" /\ run.step = step

Onwards ==
  IF run.at < Len(writes) THEN [run EXCEPT !.at = @ + 1, !.step = "look", !.was = Absent] ELSE Idle

\* A repository folder named after a built-in guard stops `guard` and its check; one
\* that does not load is a guard penv does not know.
Begin(mode) ==
  /\ run = Idle /\ Loads
  /\ run' = [Idle EXCEPT !.mode = mode, !.at = 1]
  /\ report' = Silent(Len(writes))
  /\ UNCHANGED <<writes, release, disk, theirs, lost, builtIn, folders>>

\* The file is read and merged: a check, or a file that has it all, is answered at once.
Answer ==
  LET i == run.at IN
  /\ At("look") /\ Parses(writes[i], Existing(i))
  /\ run.mode = "check" \/ ~Outcome(i).changed
  /\ Tell(i, Existing(i))
  /\ run' = Onwards
  /\ UNCHANGED <<writes, release, disk, theirs, lost, builtIn, folders>>

Look ==
  LET i == run.at IN
  /\ At("look") /\ Parses(writes[i], Existing(i))
  /\ run.mode # "check" /\ Outcome(i).changed
  /\ run' = [run EXCEPT !.step = "write", !.was = Existing(i)]
  /\ UNCHANGED <<writes, release, disk, theirs, lost, builtIn, folders, report>>

\* A file that was emptied: no lines, a table with nothing in it, or what is not JSON.
Emptied(write) == IF write.format = "toml" THEN Tree([path \in {<<>>} |-> Obj]) ELSE Text(<<>>)

\* The write empties the file first, whatever became of it since it was read.
Empty ==
  LET i == run.at IN
  /\ At("write")
  /\ disk' = [disk EXCEPT ![i] = Emptied(writes[i])]
  /\ lost' = IF Existing(i) = run.was THEN lost ELSE lost \cup {i}
  /\ run' = [run EXCEPT !.step = "emptied"]
  /\ UNCHANGED <<writes, release, theirs, builtIn, folders, report>>

Put ==
  LET i == run.at IN
  /\ At("emptied")
  /\ disk' = [disk EXCEPT ![i] = Made(i, run.was).content]
  /\ Tell(i, run.was)
  /\ run' = Onwards
  /\ UNCHANGED <<writes, release, theirs, lost, builtIn, folders>>

\* What a file may be left as: empty, its first lines, or half of a tree, which reads as
\* an empty one or not at all.
Parts(write, content) ==
  {Emptied(write), Text(<<>>)}
  \cup (IF write.format = "text" THEN {Text(SubSeq(content.lines, 1, n)) : n \in 1 .. Len(content.lines)}
        ELSE {})

\* The process dies while it writes, or the disk is full, which `init` passes over.
CutShort ==
  LET i == run.at IN
  /\ At("emptied")
  /\ \E part \in Parts(writes[i], Made(i, run.was).content) : disk' = [disk EXCEPT ![i] = part]
  /\ lost' = lost \cup {i}
  /\ run' = Idle \/ (run.mode = "init" /\ run' = Onwards)
  /\ UNCHANGED <<writes, release, theirs, builtIn, folders, report>>

\* A file that does not parse or cannot be written ends the run, and so does a kill;
\* `init` passes over what it cannot merge or write.
Stop ==
  /\ run.mode # "none" /\ run.step # "emptied"
  /\ run' = Idle \/ (run.mode = "init" /\ run' = Onwards)
  /\ UNCHANGED <<writes, release, disk, theirs, lost, builtIn, folders, report>>

\* A person writes a file, between runs or under one, though not in the instant penv has
\* it empty.
Edit ==
  /\ \E i \in DOMAIN writes : \E content \in Edits[writes[i]] :
       /\ ~(run.step = "emptied" /\ run.at = i)
       /\ disk' = [disk EXCEPT ![i] = content]
       /\ theirs' = [theirs EXCEPT ![i] = content]
       /\ lost' = lost \ {i}
       /\ report' = [report EXCEPT ![i] = Nothing]
  /\ UNCHANGED <<writes, release, builtIn, folders, run>>

Upgrade ==
  /\ run = Idle /\ release < Len(Rendered[writes[1]])
  /\ release' = release + 1
  /\ report' = Silent(Len(writes))
  /\ UNCHANGED <<writes, disk, theirs, lost, builtIn, folders, run>>

Next == (\E mode \in {"write", "check", "init"} : Begin(mode)) \/ Answer \/ Look \/ Empty
        \/ Put \/ CutShort \/ Stop \/ Edit \/ Upgrade

Spec == Init /\ [][Next]_vars

-----------------------------------------------------------------------------
\* What a file says is in another: every node and every line of it, in place and in order.
KeepsNodes(base, merged) ==
  \A path \in DOMAIN base :
    /\ path \in DOMAIN merged
    /\ IF base[path].is = "arr" THEN merged[path].is = "arr" /\ IsPrefix(base[path].items, merged[path].items)
       ELSE merged[path] = base[path]

KeepsLines(lines, merged) ==
  \E at \in [DOMAIN lines -> DOMAIN merged] :
    /\ \A i, j \in DOMAIN lines : i < j => at[i] < at[j]
    /\ \A i \in DOMAIN lines : merged[at[i]] = lines[i]

Keeps(f, g) ==
  /\ f.is = "tree" => g.is = "tree" /\ KeepsNodes(f.nodes, g.nodes)
  /\ f.is = "lines" => g.is = "lines" /\ KeepsLines(f.lines, g.lines)

\* A file, or what the run that has it empty is about to write it from.
Held(i) == IF run.step = "emptied" /\ run.at = i THEN run.was ELSE disk[i]

\* However many runs and releases merge into it, a file says all its last human author
\* wrote, in place and in order, and one that does not parse is left alone (merge.rs:18-19,
\* "Nothing an existing file says is ever removed or overwritten").  The code does not keep
\* that of a file it cannot read as text, which it takes for none and replaces
\* (guard.rs:197, 225), of one cut short, as the write empties it first (files.rs:51-52),
\* nor of an edit between the read and that write: the last two are `lost`.
KeepsWhatIsThere ==
  \A i \in DOMAIN writes : i \notin lost => Keeps(theirs[i], Held(i))

\* A part of the fragment that the file enforces.
NodeInForce(write, nodes, add, path) ==
  /\ path \in DOMAIN nodes
  /\ IF add[path].is = "arr" /\ nodes[path].is = "arr" /\ Unites(write, path)
     THEN ToSet(add[path].items) \subseteq ToSet(nodes[path].items)
     ELSE nodes[path] = add[path]

TreeSays(write, nodes, add, blocked) ==
  /\ \A path \in DOMAIN add :
       \/ NodeInForce(write, nodes, add, path)
       \/ \E b \in blocked : IsPrefix(b, path)
  /\ \A b \in blocked : ~NodeInForce(write, nodes, add, b)

\* A script runs from the top: penv's commands come before any other.  One with comments
\* among its commands is called overridden by the next run, though they do come first.
LinesSay(lines, add, blocked) ==
  IF ~IsScript(add) THEN ToSet(add) \subseteq ToSet(lines) /\ blocked = {}
  ELSE /\ blocked = {} => IsPrefix(Commands(add), Commands(lines))
       /\ IsPrefix(Tail(add), Commands(lines)) => blocked = {}

Says(write, f, fragment, blocked) ==
  /\ f.is = Shape(write)
  /\ f.is = "tree" => TreeSays(write, f.nodes, fragment.nodes, blocked)
  /\ f.is = "lines" => LinesSay(f.lines, fragment.lines, blocked)

\* A script of comments alone is put in once more by every run.
Settles(fragment) ==
  fragment.is = "lines" /\ IsScript(fragment.lines) /\ Tail(fragment.lines) # <<>> =>
    Commands(fragment.lines) # <<>>

\* What a run reports is so: a part is in force or named as overridden, and never both;
\* what a check calls current is all in force; and a second run has nothing to add
\* (merge.rs:7-14, commands/guard.rs:189-195), of any fragment that settles.
SaysWhatHolds ==
  \A i \in DOMAIN writes :
    (report[i].mode = "write" \/ report[i].status = "current") =>
      /\ Says(writes[i], disk[i], Fragment(i), report[i].blocked)
      /\ Settles(Fragment(i)) => ~Outcome(i).changed

GuardsHold == KeepsWhatIsThere /\ SaysWhatHolds

-----------------------------------------------------------------------------
(* The inductive invariant behind them.                                    *)

\* A file: absent, bytes, a tree whose inner nodes are objects, or lines of which only
\* the first may be a shebang.
Node == {Obj} \cup [is : {"val"}, v : STRING] \cup [is : {"arr"}, items : Seq(STRING)]
IsTree(nodes) ==
  /\ nodes \in [DOMAIN nodes -> Node] /\ DOMAIN nodes \subseteq Seq(STRING)
  /\ \A path \in DOMAIN nodes : \A up \in Ancestors(path) : up \in DOMAIN nodes /\ nodes[up] = Obj

Lines == [kind : {"shebang", "command", "comment"}, text : STRING]
IsText(lines) == lines \in Seq(Lines) /\ \A k \in 2 .. Len(lines) : ~IsShebang(lines[k])

IsFile(f) ==
  /\ f.is \in {"absent", "raw", "tree", "lines"}
  /\ f.is = "absent" => f = Absent
  /\ f.is = "raw" => f = Raw
  /\ f.is = "tree" => f = Tree(f.nodes) /\ IsTree(f.nodes)
  /\ f.is = "lines" => f = Text(f.lines) /\ IsText(f.lines)

\* What a release renders is a file of the write's shape that says something.
IsFragment(write, f) ==
  /\ IsFile(f) /\ f.is = Shape(write)
  /\ f.is = "lines" => f.lines # <<>>

\* What the constants are taken to be; the runs assume it.
GuardAssumption ==
  /\ \A list \in Writes : list \in Seq(DOMAIN Edits) /\ list # <<>>
  /\ \A w \in DOMAIN Edits : \A f \in Edits[w] : IsFile(f)
  /\ \A list \in Writes : \A i \in DOMAIN list : \A r \in 1 .. Len(Rendered[list[1]]) :
       IsFragment(list[i], Rendered[list[i]][r])
  /\ \A list \in Writes : Len(Rendered[list[1]]) \in Nat \ {0}

TypeOK ==
  /\ writes \in Writes /\ release \in 1 .. Len(Rendered[writes[1]])
  /\ DOMAIN disk = DOMAIN writes /\ \A i \in DOMAIN writes : IsFile(disk[i])
  /\ DOMAIN theirs = DOMAIN writes /\ \A i \in DOMAIN writes : IsFile(theirs[i])
  /\ DOMAIN report = DOMAIN writes
  /\ run = [mode |-> run.mode, at |-> run.at, step |-> run.step, was |-> run.was]
  /\ run.mode # "none" => run.at \in DOMAIN writes
  /\ run.mode = "none" => run = Idle

\* A run merges what it read into a file that parsed, and has said nothing of the writes
\* before it.
Underway ==
  run.mode # "none" =>
    /\ run.step # "look" => IsFile(run.was) /\ Parses(writes[run.at], run.was)
    /\ \A i \in DOMAIN writes : i >= run.at => report[i] = Nothing

GuardInv == TypeOK /\ Underway /\ KeepsWhatIsThere /\ SaysWhatHolds
=============================================================================
