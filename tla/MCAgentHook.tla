---------------------------- MODULE MCAgentHook -----------------------------
(* What a harness may send: one command of up to three words and a few      *)
(* nested ones, or paths under every field name in every order and depth;   *)
(* and every short glob over two letters.                                   *)
EXTENDS AgentHook, TLC

TextNode(t) == [is |-> "text", text |-> t]
CommandNode(w) == [is |-> "command", words |-> w]
ListNode(items) == [is |-> "list", items |-> items]
ObjectNode(fields) == [is |-> "object", fields |-> fields]
Pair(n, v) == [name |-> n, value |-> v]

Commands ==
  (BoundedSeq({"sh", "-c", "env", "cat", "A=1", "penv", "pull", "-x", ";"}, 3) \ {<<>>})
  \cup {<<"sh", "-c", "sh", "-c", "printenv">>, <<"node", "-c", "cat", ";", "process.env">>,
        <<"ls", "env:">>, <<"set">>, <<"cat", "values">>, <<"pwsh", "-command", "set", "-x">>}

PathPairs ==
  {Pair("path", TextNode("name")), Pair("pattern", TextNode("values")),
   Pair("file_path", TextNode("other")), Pair("note", TextNode("values")),
   Pair("include", ListNode(<<TextNode("name"), TextNode("values")>>)),
   Pair("files", ListNode(<<TextNode("name"),
                            ObjectNode(<<Pair("path", TextNode("values"))>>)>>))}
Two == {<<a, b>> : a, b \in PathPairs}

MCPayloads ==
  {ObjectNode(<<Pair("tool_input", ObjectNode(<<Pair("command", CommandNode(c))>>))>>) :
     c \in Commands}
  \cup {ObjectNode(<<Pair("tool_input", ObjectNode(f)), g>>) : f \in Two, g \in PathPairs}
  \cup {ObjectNode(<<g, h, Pair("args", ListNode(<<ObjectNode(f)>>))>>) :
          f \in Two, g, h \in PathPairs}
  \cup {ObjectNode(<<Pair("cmd", CommandNode(<<"cat">>)), Pair("command", CommandNode(c)), g>>) :
          c \in {<<"printenv">>, <<"cat", "x">>}, g \in PathPairs}
MCPatterns == BoundedSeq({"*", "?", "[", "]", "!", "a", "b"}, 4)
MCNames == BoundedSeq({"a", "b"}, 3)
=============================================================================
