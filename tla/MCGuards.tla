---- MODULE MCGuards ----
EXTENDS Guards, TLC

\* deny-union of a settings file, a TOML one, one whose keys are only added, a hook
\* script, one with comments, and plain lines.
Settings == [format |-> "json", merge |-> "deny-union", union |-> {"deny"}]
Config   == [format |-> "toml", merge |-> "append-unique", union |-> {}]
Allow    == [format |-> "json", merge |-> "replace-if-absent", union |-> {}]
Script   == [format |-> "text", merge |-> "append-unique", union |-> {}]
Hook     == [format |-> "text", merge |-> "append-unique", union |-> {"hook"}]
Cli      == [format |-> "json", merge |-> "deny-union", union |-> {"deny", "hooks"}]
Ignored  == [format |-> "text", merge |-> "append-unique", union |-> {"lines"}]

Val(v) == [is |-> "val", v |-> v]
Nodes(deny, box) ==
  Tree((<<>> :> Obj) @@ (<<"rules">> :> Obj) @@ (<<"rules", "deny">> :> Arr(deny))
        @@ (<<"box">> :> Obj) @@ (<<"box", "on">> :> Val(box)))

Line(kind, text) == [kind |-> kind, text |-> text]
Sh == Line("shebang", "sh")   Zsh == Line("shebang", "zsh")
Penv == Line("command", "penv")  Own == Line("command", "own")  Note == Line("comment", "note")

MCRendered ==
  [w \in {Settings, Config, Allow, Cli, Script, Hook, Ignored} |->
     CASE w = Script -> <<Text(<<Sh, Penv>>), Text(<<Sh, Penv, Line("command", "exit")>>)>>
       [] w = Hook -> <<Text(<<Sh, Note, Penv>>), Text(<<Sh, Penv, Note, Own>>)>>
       [] w = Ignored -> <<Text(<<Note>>), Text(<<Note, Own>>)>>
       [] OTHER -> <<Nodes(<<"env">>, "on"), Nodes(<<"env", "key">>, "on")>>]

\* Every tree a person may leave under the fragment's paths.
Leaves == {Val("on"), Val("mine"), Arr(<<>>), Arr(<<"mine", "env">>)}
Leaf(path, nodes) == {path :> node : node \in nodes}
Under(parent, child, leaves) ==
  {<<>> :> Obj} \cup
  {(<<>> :> Obj) @@ a : a \in Leaf(parent, {Val("mine"), Arr(<<"env">>), Obj})
                               \cup {(parent :> Obj) @@ b : b \in Leaf(child, leaves)}}
MCTrees ==
  {Tree(a @@ b) : a \in Under(<<"rules">>, <<"rules", "deny">>, Leaves \cup {Obj}),
                  b \in Under(<<"box">>, <<"box", "on">>, {Val("mine")})}
  \cup {Tree(<<>> :> Arr(<<"env">>)), Absent, Raw, Text(<<Own>>)}

MCScripts ==
  {Text(a \o b \o c) : a \in {<<>>, <<Zsh>>}, b \in {<<>>, <<Note>>, <<Own>>}, c \in {<<>>, <<Penv>>, <<Note, Own>>}}
             \cup {Absent, Raw}

MCTexts == {Absent, Raw, Text(<<>>), Text(<<Own>>), Text(<<Note, Own>>), Text(<<Sh, Note, Penv>>)}

\* Few of the trees for the TOML file and the one whose keys are only added.
Short == {tree \in MCTrees : tree.is = "tree" => Cardinality(DOMAIN tree.nodes) \in {1, 5}}

MCEdits ==
  [w \in DOMAIN MCRendered |->
     CASE w = Script -> MCScripts
       [] w \in {Hook, Ignored} -> MCTexts
       [] w = Cli -> {Absent, Nodes(<<"mine">>, "mine"), Text(<<Own>>)}
       [] w = Settings -> MCTrees
       [] OTHER -> Short]
MCWrites == {<<Settings>>, <<Cli, Script>>, <<Allow>>, <<Config>>, <<Hook>>, <<Ignored>>}

Folder == [config : {"none", "good", "broken"}, template : BOOLEAN]
None == [config |-> "none", template |-> FALSE]
MCLayouts ==
  [list \in MCWrites |->
     IF list = <<Ignored>> THEN [{"repo", "home"} -> Folder]
     ELSE {("repo" :> None) @@ ("home" :> [config |-> "good", template |-> TRUE])}]
====
