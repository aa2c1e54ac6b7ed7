------------------------------ MODULE MCSignIn ------------------------------
(***************************************************************************)
(* SignIn with two sessions, or three agents' that redeem approvals: a     *)
(* person's, an agent's, a CI job's and an AWS role's environment, and     *)
(* those that look like one and are not.                                   *)
(***************************************************************************)
EXTENDS SignIn, TLC

CONSTANTS s1, s2, s3

Silent == [s \in {Ladder[i] : i \in 1..Len(Ladder)} |-> "silent"]
Person == [signals |-> Silent, flag |-> FALSE, kinds |-> {}, withheld |-> FALSE,
           slug |-> FALSE, endpoint |-> TRUE, runs |-> {"login", "logout", "reveal"}]
Nobody == [Person EXCEPT !.runs = {}]
Agent  == [Person EXCEPT !.signals["parent process"] = "agent", !.signals["AGENT"] = "no agent",
                         !.kinds = {"token"}]
Role   == [Person EXCEPT !.kinds = {"aws", "container"}, !.runs = {"reveal"}]
Job    == [Role EXCEPT !.kinds = {"github", "aws"}]

Asker  == [Agent EXCEPT !.runs = {"reveal"}]

MCEnvironments ==
  {(s1 :> trio[1]) @@ (s2 :> trio[2]) @@ (s3 :> trio[3]) : trio \in
    { <<Person, Person, Nobody>>, <<Agent, Agent, Nobody>>, <<Role, Role, Nobody>>,
      <<Asker, Asker, Asker>>,
      <<Person, [Agent EXCEPT !.signals = Silent, !.runs = {"reveal"}], Nobody>>,
      <<Nobody, Job, Nobody>>,
      <<Nobody, [Job EXCEPT !.endpoint = FALSE], Nobody>>,
      <<Nobody, [Role EXCEPT !.kinds = {"container"}, !.slug = TRUE], Nobody>>,
      <<Nobody, [Role EXCEPT !.kinds = {"held", "web"}, !.flag = TRUE], Nobody>>,
      <<[Person EXCEPT !.runs = {"login"}], [Role EXCEPT !.withheld = TRUE], Nobody>> }}
=============================================================================
