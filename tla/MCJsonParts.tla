----------------------------- MODULE MCJsonParts ----------------------------
(* Documents with a field, an array, a name that holds a dot and a null on  *)
(* the way, and calls of one or two options.                                *)
EXTENDS JsonParts

MCNumbers == [c \in {"0", "1", "2"} |-> CASE c = "0" -> 0 [] c = "1" -> 1 [] c = "2" -> 2]
MCNumberTexts == {"7"}

Kid(name, value) == [name |-> name, value |-> value]
MCText(t) == Node("string", t, <<>>)
MCDocuments == {
  Node("object", "", <<>>), Null, MCText("v"),
  Node("object", "", <<Kid(<<"a">>, MCText("v")), Kid(<<"a", ".", "b">>, MCText("true"))>>),
  Node("object", "", <<Kid(<<"a">>, Node("array", "", <<Kid(<<>>, MCText("v"))>>)), Kid(<<"b">>, Null)>>),
  Node("array", "", <<Kid(<<>>, Node("object", "", <<Kid(<<"b">>, Node("number", "7", <<>>))>>))>>) }

MCPaths == {
  <<"a">>, <<"b">>, <<"a", ".", "b">>, <<"[", "'", "a", ".", "b", "'", "]">>, <<"a", "[", "0", "]">>,
  <<"a", "[", "1", "]">>, <<"a", "[", "1", "]", ".", "b">>, <<"[", "0", "]", ".", "b">>,
  <<"b", "[", "2", "]">>, <<"a", "[", "'", "b", "'", "]">>, <<"a", ".", ".", "b">>, <<"a", ".">>, <<"a", "[", "]">> }

Plain(path, text, quoted) == [path |-> path, text |-> text, quoted |-> quoted, raw |-> FALSE, doc |-> Null]
Raw(path, node) == [path |-> path, text |-> "", quoted |-> FALSE, raw |-> TRUE, doc |-> node]
MCSingles ==
  {Plain(p, "7", q) : p \in MCPaths, q \in BOOLEAN} \cup {Plain(p, "true", FALSE) : p \in MCPaths}
  \cup {Raw(p, n) : p \in {<<"a">>, <<"a", "[", "1", "]">>}, n \in {Null, Node("object", "", <<Kid(<<"b">>, MCText("w"))>>)}}
MCOptions == {<<o>> : o \in MCSingles} \cup {<<o, p>> : o, p \in {Plain(q, "w", FALSE) : q \in MCPaths}}
=============================================================================
