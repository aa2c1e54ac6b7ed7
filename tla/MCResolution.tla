---------------------------- MODULE MCResolution ----------------------------
(***************************************************************************)
(* Resolution over a schema of seven keys: a database URL, the one         *)
(* sensitive key; a public URL, a mode that is on or empty, and three keys *)
(* that are computed, each in the ways of its own list.  In the other      *)
(* environment one of them is computed from the database there.            *)
(***************************************************************************)
EXTENDS Resolution, TLC

CONSTANTS ExprsA, ExprsB, ExprsC, Depths

Step(name, at) == [name |-> name, at |-> at]
Only(step, k) == Template(<<Piped(Ref(k), <<step>>)>>)
Host == Step("url", "host")
Password == Step("url", "password")
Inner == Step("json", "db")

Around(e) == Template(<<Text(Word("x")), e>>)

MCExprsA == {
  Around(Ref("DB")), Only(Host, "DB"), Only(Password, "PUB"),
  Template(<<Piped(Ref("DB"), <<Inner, Host>>)>>),
  Template(<<Piped(Ref("DB"), <<Step("lower", ""), Host>>)>>),
  Template(<<Piped(Ref("DB"), <<Host, Step("lower", "")>>)>>),
  CallAt("url", <<CallAt("json", <<Ref("DB")>>, "db")>>, "host"),
  CallAt("url", <<Ref("B")>>, "host"),
  CallAt("json", <<Ref("B")>>, "db"), CallAt("json", <<Ref("DB")>>, "db"),
  Call("if", <<Call("eq", <<Ref("DB"), Text(Word("x"))>>), Ref("B"), Ref("C")>>),
  Call("if", <<Ref("B"), Ref("PUB")>>),
  Call("hash", <<Ref("DB")>>), Call("concat", <<Call("hash", <<Ref("DB")>>), Ref("B")>>),
  Template(<<Piped(Ref("B"), <<Step("hash", "")>>)>>),
  Call("match", <<Ref("MODE"), Call(":", <<Text(Word("on")), Ref("DB")>>),
                  Call(":", <<Text(Word("_")), Ref("B")>>)>>),
  Call("match", <<Ref("B"), Call(":", <<Text(Word("true")), Ref("C")>>)>>),
  Call("penv", <<Text(<<"prod", "DB">>)>>), Call("penv", <<Text(<<"dev", "DB">>)>>),
  Call("penv", <<Text(<<"org", "web", "prod", "KEY">>)>>),
  Call("penv", <<>>), Call("penv", <<Ref("MODE")>>)}

MCExprsB == {
  Around(Ref("DB")), Around(Ref("C")), Ref("A"), Template(<<Ref("DB")>>), Only(Host, "DB"),
  Default("DB", Ref("C"), TRUE), Default("MODE", Ref("DB"), TRUE), Default("UNSET", Ref("C"), FALSE),
  Call("fallback", <<CallAt("json", <<Ref("C")>>, "gone"), Ref("C"), Ref("PUB")>>),
  Call("and", <<Call("isEmpty", <<Ref("UNSET")>>), Call("not", <<Ref("C")>>)>>),
  Call("or", <<Call("startsWith", <<Ref("C"), Ref("DB")>>), Call("forEnv", <<Text(Word("dev"))>>)>>),
  Call("penv", <<Text(<<"prod", "A">>)>>)}

MCExprsC == {
  Text(Word("c")), Ref("DB"), Call("ref", <<Ref("A")>>), Around(Ref("UNSET")), Around(Ref("OUT")),
  Only(Password, "DB"), CallAt("json", <<Ref("PUB")>>, "gone"), Refused}

Policy == [url |-> {"host"}, json |-> {<<"DB", "db">>, <<"B", "db">>}, hash |-> {"A"}]

There ==
  [k \in {"DB", "PUB", "MODE"} |-> Literal({Of("prod", k)})]
  @@ [k \in {"A", "B", "C"} |->
        Computed(IF k = "A" THEN Around(Ref("DB")) ELSE Call("penv", <<Text(<<"dev", "A">>)>>))]

\* The ways of A with some of B and C, and the ways of B and C with some of A.
Triples ==
  (ExprsA \X {Around(Ref("DB")), Around(Ref("C")), Ref("A"), Default("MODE", Ref("DB"), TRUE),
              Call("penv", <<Text(<<"prod", "A">>)>>)}
          \X {Text(Word("c")), Ref("DB"), Call("ref", <<Ref("A")>>), Only(Password, "DB")})
  \cup ({Around(Ref("DB")), CallAt("url", <<Ref("B")>>, "host"), Only(Password, "PUB"),
         Call("concat", <<Call("hash", <<Ref("DB")>>), Ref("B")>>)} \X ExprsB \X ExprsC)

MCProjects ==
  {[raw |-> [DB |-> Literal({Of("dev", "DB")}), PUB |-> Literal({Of("dev", "PUB")}),
             MODE |-> Literal(IF depth = 2 THEN Nothing ELSE Word("on")),
             A |-> Computed(t[1]), B |-> Computed(t[2]), C |-> Computed(t[3])],
    there |-> There, outside |-> [OUT |-> {Of("dev", "OUT")}], policy |-> Policy,
    sealed |-> {"DB"}, hosts |-> [PUB |-> CallAt("url", <<Ref("A")>>, "host")], depth |-> depth] :
      t \in Triples, depth \in Depths}

=============================================================================
