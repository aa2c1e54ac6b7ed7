---- MODULE MCSchemaFile ----
EXTENDS SchemaFile

MCCuts == ("$A #x" :> "$A")
Heads == {
  <<>>, <<Comment(<<Say("My app")>>)>>,
  <<Comment(<<Is("penv", "acme/api")>>)>>,
  <<Comment(<<Dec("penv", "is", <<W("acme/api"), W("doppler")>>), Is("schema", "1")>>)>>,
  <<Comment(<<Is("schema", "1"), Note, Say("v1")>>), Comment(<<Is("defaultSensitive", "false")>>)>>,
  <<Comment(<<Is("defaultRequired", "infer"), Is("currentEnv", "MODE")>>)>>,
  <<Comment(<<Called("import", <<W("../up"), W("A")>>)>>), Comment(<<Is("defaultRequired", "false")>>)>>,
  <<Comment(<<Called("assert", <<W("not($A)"), Q("no A")>>)>>)>>,
  <<Comment(<<Called("assert", <<W("not($A)"), Q("no A")>>)>>), Comment(<<Flag("plugin")>>)>>,
  <<Comment(<<Say("see"), Is("penv", "acme/api")>>)>>,
  <<Comment(<<Say("see"), Called("import", <<W("x")>>)>>), Comment(<<Is("defaultSensitive", "false")>>)>>,
  <<Comment(<<Called("penv", <<W("acme/api")>>), Is("schema", "1")>>)>>,
  <<Comment(<<Is("penv", "nowhere")>>)>>, <<Comment(<<Is("schema", "2")>>)>>}

Blocks == {
  <<>>,
  <<Comment(<<Say("About")>>), Comment(<<Dec("type", "is", <<W("enum"), W("a"), Q("a=b")>>), Flag("optional")>>), Comment(<<Say("more")>>)>>,
  <<Comment(<<Dec("type", "is", <<W("number"), W("isInt=true"), W("minLength=1")>>), Is("sensitive", "false"), Note, Say("ok")>>)>>,
  <<Comment(<<Is("rotate", "90d")>>), Comment(<<Is("rotate", "1y"), Flag("required")>>)>>,
  <<Comment(<<Dec("hosts", "call", <<W("a.com"), Q("*.b.com")>>), Dec("example", "is", <<Q("two words")>>)>>)>>,
  <<Comment(<<Is("hosts", "url($A, host)"), Dec("required", "is", <<W("forEnv"), W("prod")>>), Flag("static")>>)>>,
  <<Comment(<<Flag("deprecated"), Dec("docs", "call", <<Q("two words")>>), Is("hosts", "a.com")>>)>>,
  <<Comment(<<Called("assert", <<W("$B"), Q("two words")>>), Flag("sensitive")>>)>>,
  <<Comment(<<Flag("currentEnv"), Flag("type")>>)>>,
  <<Comment(<<Dec("type", "is", <<W("enum"), W("a=b")>>)>>)>>,
  <<Comment(<<Flag("required"), Say("oops")>>)>>,
  <<Comment(<<Say("A")>>), Stray>>}

Keys == {KeyIs("A", "no", ""), KeyIs("A", "no", "$A #x"), KeyIs("A", "double", "$A #x"), KeyIs("A", "single", "$A #x"), KeyIs("PUBLIC_A", "double", "two words")}
Gaps == {<<>>, <<Blank>>, <<Divider>>}

MCFiles ==
  {h \o g \o b \o <<k>> \o g2 \o b2 \o <<KeyIs("B", "no", "b")>> :
     h \in Heads, g \in Gaps, b \in Blocks, k \in {KeyIs("A", "no", "")}, g2 \in {<<>>, <<Blank>>}, b2 \in {<<>>, <<Comment(<<Is("rotate", "1y")>>)>>}}
  \cup {h \o g \o b \o <<k>> : h \in {<<>>, <<Comment(<<Is("defaultRequired", "infer"), Is("currentEnv", "MODE")>>)>>}, g \in Gaps, b \in Blocks, k \in Keys}
  \cup Heads

Entry(n, v, t) == [name |-> n, value |-> v, type |-> t]
MCDrafts == {<<>>, <<Entry("PUBLIC_A", "$A #x", <<"string">>), Entry("B", "b", <<"number", "isInt=true">>)>>,
  <<Entry("API_KEY", "b", <<"string">>), Entry("B", "two words", <<"url">>)>>}
MCNew == {Entry("C", "two words", <<"string">>), Entry("PUBLIC_D", "b", <<"port">>)}
====
