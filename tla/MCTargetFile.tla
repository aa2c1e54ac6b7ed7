---------------------------- MODULE MCTargetFile ----------------------------
(***************************************************************************)
(* TargetFile over a repository of two packages, one of them shaped by a   *)
(* layout, with every combination of a section, a template, an old folder  *)
(* and its template, and with a home folder or a built-in below them.      *)
(***************************************************************************)
EXTENDS TargetFile, TLC

Src == <<"src", "env">>

Repository(web, root) ==
  (<<>> :> root) @@ (<<"web">> :> web) @@ (<<"web", "api">> :> {"detected"})

World(home, homeTemplate, builtIn, builtTemplate, web, root) ==
  [home |-> home, homeTemplate |-> homeTemplate, builtIn |-> builtIn,
   builtTemplate |-> builtTemplate, dirs |-> Repository(web, root),
   shaped |-> (<<>> :> None) @@ (<<"web">> :> None) @@ (<<"web", "api">> :> "app")]

MCWorlds == {
  World(NoLayer, None, Layer(Src, "node", "built"), "built", {"detected"}, {"detected"}),
  World(Layer(<<"home">>, None, "home"), "home", Layer(Src, "node", "built"), "built", {}, {}),
  World(Layer(<<>>, "vite", None), None, NoLayer, None, {"detected", "vite"}, {}),
  World(NoLayer, "home", Layer(Src, None, None), "built", {}, {"detected"}),
  World(NoLayer, None, Layer(Src, None, None), "built", {"detected", "vite"}, {})}

Sections == {NoLayer, Layer(<<>>, "vite", "mine"), Layer(<<"lib", "env">>, None, None),
             Layer(<<"..", "env">>, "node", None)}
Olds == {NoLayer, Layer(<<"old", "env">>, "vite", "old"), Layer(<<>>, None, "old"),
         Layer(<<"old">>, "wrong", None)}

MCFolders ==
  [fields : Sections, template : {None, "mine"}, old : Olds, oldTemplate : {None, "old"}]

MCGiven == {<<"web", ".", "env">>, <<"web", "..", "..", "env">>}

MCRules == <<[fact |-> "vite", contains |-> FALSE, value |-> "vite"],
             [fact |-> "deno", contains |-> TRUE, value |-> "deno"]>>

=============================================================================
