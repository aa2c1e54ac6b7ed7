-------------------------- MODULE MCSealedService --------------------------
(***************************************************************************)
(* SealedService with two connections and one slot.  One key is written,   *)
(* one computed and pinned, one an AWS secret; the schemas differ in one   *)
(* of them at a time.                                                      *)
(***************************************************************************)
EXTENDS SealedService, TLC

CONSTANTS c1, c2, api, aws, site, bucket, local

Key(names) ==
  [value |-> TRUE, hosts |-> "written", names |-> names, pin |-> {None}, hot |-> FALSE,
   signs |-> FALSE, room |-> TRUE, url |-> FALSE, aws |-> FALSE, length |-> "long"]

Plainly == (api :> Key({site})) @@ (aws :> [Key({bucket}) EXCEPT !.aws = TRUE])

ComputedTo(names, pin) ==
  [Plainly EXCEPT ![api].hosts = "computed", ![api].names = names, ![api].pin = pin]

\* One value of each length, one key of each way to its hosts, an AWS secret with
\* hosts of its own, this machine or none; the rest are refused or seal nothing.
MCSetups ==
  { Plainly,
    [Plainly EXCEPT ![api].length = "tiny", ![api].names = {local}, ![aws].names = {local}],
    [ComputedTo({site, local}, {site, local}) EXCEPT ![api].length = "mid", ![aws].hosts = "none", ![aws].names = {}],
    [Plainly EXCEPT ![api].value = FALSE],
    [Plainly EXCEPT ![aws].signs = TRUE],
    [Plainly EXCEPT ![aws].room = FALSE],
    ComputedTo({site}, {None}),
    ComputedTo({site}, {local}),
    [ComputedTo({site}, {site}) EXCEPT ![api].hot = TRUE] }

Url ==
  [scheme |-> "postgres", hostNamed |-> TRUE, sslmode |-> "prefer", channelBinding |-> "none",
   requireAuth |-> {}, user |-> "app", hasTls |-> TRUE, certified |-> TRUE, genuine |-> TRUE]

Method(name, not) == [name |-> name, not |-> not]

RequireAuths ==
  { {}, {Method("scram", FALSE)}, {Method("md5", FALSE), Method("none", FALSE)},
    {Method("password", TRUE), Method("md5", TRUE)},
    {Method("gss", FALSE)}, {Method("scram", FALSE), Method("none", TRUE)} }

\* Every transport with every server, and every require_auth with or without a role.
MCTargets ==
  {[Url EXCEPT !.sslmode = mode, !.hasTls = tls, !.certified = certified, !.genuine = genuine] :
     mode \in {"disable", "prefer", "require", "verify"}, tls, certified, genuine \in BOOLEAN}
  \cup {[Url EXCEPT !.requireAuth = auth, !.user = user, !.genuine = genuine] :
     auth \in RequireAuths, user \in {"app", Nobody}, genuine \in BOOLEAN}
  \cup { [Url EXCEPT !.scheme = "redis"], [Url EXCEPT !.scheme = "other"],
         [Url EXCEPT !.hostNamed = FALSE], [Url EXCEPT !.sslmode = "unknown"],
         [Url EXCEPT !.channelBinding = "require"] }

MCOffered == {<<>>, <<"app">>, <<"other">>, <<"app", "other">>}
MCArguments ==
  { <<"placeholder">>, <<"x", "placeholder">>, <<"3", "AUTH", "x", "placeholder">>,
    <<"placeholder", "x">>, <<"3", "AUTH", "placeholder">>,
    <<"3", "AUTH", "x", "placeholder", "placeholder">>,
    <<"3", "AUTH", "x", "placeholder", "SETNAME", "placeholder">>,
    <<"3", "SETNAME", "x", "AUTH", "x", "placeholder">>,
    <<"3", "SETNAME", "AUTH", "SETNAME", "placeholder">>,
    <<"3", "SETNAME", "AUTH", "AUTH", "placeholder", "x">> }

Symmetry == Permutations(Conns)

=============================================================================
