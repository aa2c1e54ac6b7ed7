----------------------------- MODULE Resolution -----------------------------
(***************************************************************************)
(* How values are computed from one another (penv-schema resolve.rs), and  *)
(* which of the results are as secret as what they were computed from.     *)
(*                                                                         *)
(* A value is the set of things it carries: a stored value, a part read    *)
(* out of one, a written word.  Putting values together is their union, so *)
(* what the model keeps of a text is whose data is in it; an expression is *)
(* the tree resolve.rs parses it into.                                     *)
(*                                                                         *)
(* A behaviour is one project: the reads of other environments first, then *)
(* every key, in any order, then the judgement of what may be shown, what  *)
(* a sealed command is handed and where computed hosts point.              *)
(***************************************************************************)
EXTENDS Integers, Sequences, SequencesExt, FiniteSets, Functions

CONSTANTS
  Projects,    \* the projects looked at (records, see Project below)
  Sensitive,   \* the declared keys whose schema says sensitive
  PublicParts, \* the parts of a URL that are public unless a config says otherwise
  Here         \* the environment being resolved

VARIABLES
  project,   \* raw: key -> what its layers hold; there: the same of another environment;
             \* outside: the process's; policy: the config's public lists; sealed: the keys
             \* with @hosts; hosts: key -> its computed @hosts; depth: MAX_DEPTH
  fetched,   \* what penv() reads found: <<environment, key>> -> value
  st,        \* the resolution so far (see Blank)
  phase      \* "fetch", "compute", "judged"

vars == <<project, fetched, st, phase>>

-----------------------------------------------------------------------------
(* Values.                                                                 *)

Of(env, k) == [key |-> k, env |-> env, path |-> <<>>]
Word(w) == {Of("text", w)}
Nothing == {}
Flag(b) == IF b THEN Word("true") ELSE Word("false")
Truthy(v) == v # Nothing /\ v # Flag(FALSE) /\ v # Word("0")

Through(step, v) == {[a EXCEPT !.path = Append(@, step)] : a \in v}

\* A part of a value: of one stored text, that part; of a text put together, any of it
\* may stand where the part is read.
Part(step, v) == IF Cardinality(v) = 1 THEN Through(step, v) ELSE v

-----------------------------------------------------------------------------
(* Expressions, and what a key's layers hold.                              *)

Text(v) == [is |-> "text", val |-> v]
Ref(k) == [is |-> "ref", key |-> k]
Default(k, or, whenEmpty) == [is |-> "default", key |-> k, or |-> or, whenEmpty |-> whenEmpty]
Piped(inner, steps) == [is |-> "filter", inner |-> inner, steps |-> steps]
Template(parts) == [is |-> "template", parts |-> parts]
Call(name, args) == [is |-> "call", name |-> name, at |-> "", args |-> args]
CallAt(name, args, at) == [Call(name, args) EXCEPT !.at = at]
Refused == [is |-> "refused"]

Literal(v) == [computed |-> FALSE, derived |-> FALSE, val |-> v]
Derived(v) == [computed |-> FALSE, derived |-> TRUE, val |-> v]
Computed(e) == [computed |-> TRUE, derived |-> FALSE, expr |-> e]

IsExpression(e) == e.is # "text"
IsStored(raw) == ~raw.derived /\ (~raw.computed \/ ~IsExpression(raw.expr))

IsWholeCall(e, name) ==
  \/ e.is = "call" /\ e.name = name
  \/ /\ e.is = "template" /\ Len(e.parts) = 1 /\ e.parts[1].is = "filter"
     /\ Last(e.parts[1].steps).name = name

TakesArgs(name) == name \in {"url", "json", "hash"}
ReadsPart(step) == step.name \in {"url", "json"} /\ step.at # ""
ThroughReads(name) == name = "url"

-----------------------------------------------------------------------------
(* The resolution: what is done and failed, what each key was computed     *)
(* from, which keys hold a reference nothing sets.  The context goes down  *)
(* with the evaluation: the keys on the way, and whether what is read now  *)
(* is expected to be unset, only decides, or falls back.                   *)

Blank(keys) ==
  [done |-> <<>>, failed |-> {}, deps |-> [k \in keys |-> {}], soft |-> {}, deep |-> FALSE]

Top == [stack |-> <<>>, quiet |-> FALSE, control |-> FALSE, defaulting |-> FALSE, nesting |-> 0]

Quietly(c) == [c EXCEPT !.quiet = TRUE]
Controlled(c) == [c EXCEPT !.control = TRUE]
Deciding(c) == Quietly(Controlled(c))

OwnTermsKept(c, k) == [c EXCEPT !.stack = Append(@, k)]
OwnTermsDefaulting(c, k) ==
  [c EXCEPT !.stack = Append(@, k), !.quiet = FALSE, !.control = FALSE]

\* Another key is computed on its own terms.
OwnTerms(c, k) ==
  [c EXCEPT !.stack = Append(@, k), !.quiet = FALSE, !.control = FALSE, !.defaulting = FALSE]

KeyDep(k) == <<"key", k>>
ReadDep(at) == <<"penv", at>>
AlwaysSensitive == <<"always">>

AlwaysDepend(c, s, d) == [s EXCEPT !.deps[Last(c.stack)] = @ \cup {d}]
Depend(c, s, d) == IF c.control THEN s ELSE AlwaysDepend(c, s, d)

Good(s, v) == [st |-> s, ok |-> TRUE, val |-> v]
Bad(s) == [st |-> s, ok |-> FALSE, val |-> Nothing]
Fail(s, k) == [s EXCEPT !.failed = @ \cup {k}]

\* Where a result's secrecy is decided before it is computed.
TaintOf(policy, name, at, subject, key) ==
  CASE name = "url" /\ at = "password" -> "always"
    [] name = "url" /\ at \in policy.url /\ subject # "" -> "public"
    [] name = "json" /\ <<subject, at>> \in policy.json -> "public"
    [] name = "hash" /\ key \in policy.hash -> "public"
    [] OTHER -> "inputs"

RECURSIVE StoredRef(_, _)
StoredRef(g, e) ==
  CASE e.is = "ref" /\ (e.key \in DOMAIN g.raw => IsStored(g.raw[e.key])) -> e.key
    [] e.is = "template" /\ Len(e.parts) = 1 -> StoredRef(g, e.parts[1])
    [] OTHER -> ""

RECURSIVE ReadOrigin(_, _)
ReadOrigin(g, e) ==
  CASE e.is = "call" /\ ReadsPart(e) /\ Len(e.args) > 0 -> ReadOrigin(g, e.args[1])
    [] e.is = "template" /\ Len(e.parts) = 1 -> ReadOrigin(g, e.parts[1])
    [] e.is = "filter" /\ \A i \in DOMAIN e.steps : ReadsPart(e.steps[i]) -> ReadOrigin(g, e.inner)
    [] OTHER -> StoredRef(g, e)

\* What a registered function makes of its subject.
Function(c, s, step, v) ==
  LET by == [by |-> step.name, at |-> step.at, key |-> Last(c.stack)] IN
  CASE step.name = "hash" -> Good(s, Through(by, v))
    [] v = Nothing -> Bad(s)
    [] step.at = "gone" -> IF c.defaulting /\ step.name = "json" THEN Good(s, Nothing) ELSE Bad(s)
    [] OTHER -> Good(s, Part(by, v))

ApplyFilter(step, v) == Through([by |-> step.name, at |-> "", key |-> ""], v)

RECURSIVE Eval(_, _, _, _), Value(_, _, _, _), Each(_, _, _, _), Steps(_, _, _, _, _, _),
          Fallback(_, _, _, _), AllOrAny(_, _, _, _, _), Cases(_, _, _, _, _, _)

\* Run::value.  "found" is FALSE where the code returns None.
Value(g, c, s, k) ==
  IF k \in DOMAIN s.done THEN Good(s, s.done[k])
  ELSE IF k \in s.failed THEN Bad(s)
  ELSE IF k \notin DOMAIN g.raw
       THEN IF k \in DOMAIN g.outside THEN Good(s, g.outside[k]) ELSE Bad(s)
  ELSE IF ~g.raw[k].computed THEN Good([s EXCEPT !.done = @ @@ (k :> g.raw[k].val)], g.raw[k].val)
  ELSE IF Len(c.stack) >= g.depth THEN Bad([s EXCEPT !.deep = TRUE])
  ELSE IF Contains(c.stack, k) \/ g.raw[k].expr.is = "refused" THEN Bad(Fail(s, k))
  ELSE LET r == Eval(g, OwnTerms(c, k), s, g.raw[k].expr) IN
       IF r.ok THEN Good([r.st EXCEPT !.done = @ @@ (k :> r.val)], r.val)
       ELSE IF r.st.deep /\ c.stack # <<>> THEN Bad(r.st)
       ELSE Bad([Fail(r.st, k) EXCEPT !.deep = FALSE])

Reference(g, c, s, k) ==
  LET r == Value(g, c, s, k)
      d == Depend(c, r.st, KeyDep(k))
  IN IF r.ok THEN Good(d, r.val)
     ELSE IF k \in DOMAIN g.raw THEN Bad(r.st)
     ELSE Good(IF c.quiet THEN d ELSE [d EXCEPT !.soft = @ \cup {Last(c.stack)}], Nothing)

\* `${KEY-or}`, `${KEY:-or}`: looking is control, only a value used is a dependency.
OrElse(g, c, s, e) ==
  LET r == Eval(g, Deciding(c), s, Ref(e.key))
      isSet == e.key \in DOMAIN g.raw \cup DOMAIN g.outside
  IN IF ~r.ok THEN r
     ELSE IF ~isSet \/ (e.whenEmpty /\ r.val = Nothing) THEN Eval(g, c, r.st, e.or)
     ELSE Good(Depend(c, r.st, KeyDep(e.key)), r.val)

\* `${inner | step | ...}`: a public step makes everything up to it control.
Filter(g, c, s, e) ==
  LET key == Last(c.stack)
      Origin(i) ==
        IF \A j \in 1..(i - 1) : ReadsPart(e.steps[j]) THEN StoredRef(g, e.inner) ELSE ""
      Taint(i) ==
        LET t == e.steps[i] IN
        IF ~TakesArgs(t.name) THEN "inputs"
        ELSE TaintOf(g.policy, t.name, t.at,
                     IF i = 1 \/ ThroughReads(t.name) THEN Origin(i) ELSE "", key)
      publics == {i \in DOMAIN e.steps : Taint(i) = "public"}
      public == IF publics = {} THEN 0 ELSE CHOOSE i \in publics : \A j \in publics : j <= i
      start == IF \E i \in DOMAIN e.steps : Taint(i) = "always"
               THEN AlwaysDepend(c, s, AlwaysSensitive) ELSE s
      inner == Eval(g, IF public > 0 THEN Controlled(c) ELSE c, start, e.inner)
  IN Steps(g, c, public, inner, e.steps, 1)

Steps(g, c, public, r, steps, i) ==
  IF ~r.ok \/ i > Len(steps) THEN r
  ELSE LET at == IF i <= public THEN Controlled(c) ELSE c
           next == IF TakesArgs(steps[i].name) THEN Function(at, r.st, steps[i], r.val)
                   ELSE Good(r.st, ApplyFilter(steps[i], r.val))
       IN Steps(g, c, public, next, steps, i + 1)

\* A registered function written as a call: its taint is decided first.
Tainting(g, c, s, e) ==
  LET subject == IF e.args = <<>> THEN ""
                 ELSE IF ThroughReads(e.name) THEN ReadOrigin(g, e.args[1])
                 ELSE StoredRef(g, e.args[1])
      taint == TaintOf(g.policy, e.name, e.at, subject, Last(c.stack))
      start == IF taint = "always" THEN AlwaysDepend(c, s, AlwaysSensitive) ELSE s
      at == IF taint = "public" THEN Controlled(c) ELSE c
      r == Each(g, at, start, e.args)
  IN IF r.ok THEN Function(at, r.st, e, r.val[1]) ELSE Bad(r.st)

\* Every argument, in order, up to the first that fails.
Each(g, c, s, es) ==
  IF es = <<>> THEN Good(s, <<>>)
  ELSE LET first == Eval(g, c, s, Head(es))
           rest == Each(g, c, first.st, Tail(es))
       IN IF ~first.ok THEN first
          ELSE IF ~rest.ok THEN rest ELSE Good(rest.st, <<first.val>> \o rest.val)

Join(r) == IF r.ok THEN Good(r.st, UNION Range(r.val)) ELSE r

Fallback(g, c, s, es) ==
  IF es = <<>> THEN Good(s, Nothing)
  ELSE LET r == Eval(g, Quietly(c), s, Head(es)) IN
       IF r.ok /\ r.val = Nothing THEN Fallback(g, c, r.st, Tail(es)) ELSE r

AllOrAny(g, c, s, want, es) ==
  IF es = <<>> THEN Good(s, Flag(want))
  ELSE LET r == Eval(g, Quietly(c), s, Head(es)) IN
       IF ~r.ok THEN r
       ELSE IF Truthy(r.val) # want THEN Good(r.st, Flag(~want))
       ELSE AllOrAny(g, c, r.st, want, Tail(es))

\* match(): the first label that is the subject, or the `_` case.
Cases(g, c, s, subject, arms, other) ==
  IF arms = <<>> THEN IF other = <<>> THEN Bad(s) ELSE Eval(g, c, s, other[1])
  ELSE LET label == Eval(g, Deciding(c), s, Head(arms).args[1])
           value == Head(arms).args[2]
       IN IF ~label.ok THEN label
          ELSE IF label.val = Word("_") THEN Cases(g, c, label.st, subject, Tail(arms), <<value>>)
          ELSE IF label.val = subject THEN Eval(g, c, label.st, value)
          ELSE Cases(g, c, label.st, subject, Tail(arms), other)

\* penv(): an address as written, or the key itself.
ReadPenv(g, c, s, e) ==
  LET at == IF e.args = <<>> THEN <<Here, Last(c.stack)>> ELSE e.args[1].val
      d == Depend(c, s, ReadDep(at))
  IN IF e.args # <<>> /\ e.args[1].is # "text" THEN Bad(s)
     ELSE IF at \in DOMAIN g.fetched THEN Good(d, g.fetched[at]) ELSE Bad(d)

Branch(g, c, s, args) ==
  LET test == Eval(g, Deciding(c), s, args[1]) IN
  IF ~test.ok THEN test
  ELSE IF Truthy(test.val) THEN Eval(g, c, test.st, args[2])
  ELSE IF Len(args) = 3 THEN Eval(g, c, test.st, args[3]) ELSE Good(test.st, Nothing)

Decide(r, answer) == IF r.ok THEN Good(r.st, Flag(answer)) ELSE Bad(r.st)

Decides == {"eq", "not", "isEmpty", "forEnv", "and", "or", "startsWith"}

Called(g, c, s, e) ==
  LET at == IF e.name \in Decides THEN Controlled(c) ELSE c
      all == Each(g, IF e.name = "isEmpty" THEN Quietly(at) ELSE at, s, e.args)
  IN CASE TakesArgs(e.name) -> Tainting(g, at, s, e)
       [] e.name = "ref" -> Reference(g, at, s, e.args[1].key)
       [] e.name = "concat" -> Join(all)
       [] e.name = "fallback" -> Fallback(g, [at EXCEPT !.defaulting = TRUE], s, e.args)
       [] e.name = "if" -> Branch(g, at, s, e.args)
       [] e.name = "eq" -> Decide(all, all.val[1] = all.val[2])
       [] e.name = "not" -> Decide(all, ~Truthy(all.val[1]))
       [] e.name = "isEmpty" -> Decide(all, all.val[1] = Nothing)
       [] e.name = "forEnv" -> Decide(all, Contains(all.val, Word(Here)))
       [] e.name = "startsWith" -> Decide(all, all.val[2] \subseteq all.val[1])
       [] e.name \in {"and", "or"} -> AllOrAny(g, at, s, e.name = "and", e.args)
       [] e.name = "match" ->
            LET subject == Eval(g, Deciding(at), s, e.args[1]) IN
            IF subject.ok THEN Cases(g, at, subject.st, subject.val, Tail(e.args), <<>>)
            ELSE subject
       [] e.name = "penv" -> ReadPenv(g, at, s, e)

Eval(g, ctx, s, e) ==
  LET c == [ctx EXCEPT !.nesting = @ + 1] IN
  IF ctx.nesting >= 4 * g.depth THEN Bad([s EXCEPT !.deep = TRUE])
  ELSE CASE e.is = "text" -> Good(s, e.val)
         [] e.is = "ref" -> Reference(g, c, s, e.key)
         [] e.is = "default" -> OrElse(g, c, s, e)
         [] e.is = "filter" -> Filter(g, c, s, e)
         [] e.is = "template" -> Join(Each(g, c, s, e.parts))
         [] e.is = "call" -> Called(g, c, s, e)

-----------------------------------------------------------------------------
\* One key of resolve_full's loop, and the whole loop over keys in a given order.
Compute(g, s, k) == Value(g, Top, [s EXCEPT !.deep = FALSE], k).st

Resolve(g, keys) == FoldLeft(LAMBDA s, k : Compute(g, s, k), Blank(DOMAIN g.raw), keys)

\* Keys computed, however indirectly, from a sensitive one.
Tainted(deps, sensitive) ==
  LET Source(d) ==
        CASE d[1] = "always" -> TRUE
          [] d[1] = "penv" -> Len(d[2]) > 2 \/ Last(d[2]) \in sensitive
          [] d[1] = "key" -> d[2] \in sensitive
      RECURSIVE Grow(_)
      Grow(out) ==
        LET more == {k \in DOMAIN deps :
                       \E d \in deps[k] : Source(d) \/ (d[1] = "key" /\ d[2] \in out)}
        IN IF more = out THEN out ELSE Grow(more)
  IN Grow({})

\* The config's lists, keeping under hash only keys that are a hash() call.
KeptPolicy(policy, raw) ==
  [policy EXCEPT !.hash =
     {k \in @ : k \in DOMAIN raw /\ raw[k].computed /\ IsWholeCall(raw[k].expr, "hash")}]

World(p, reads) ==
  [raw |-> p.raw, outside |-> p.outside, fetched |-> reads, depth |-> p.depth,
   policy |-> KeptPolicy(p.policy, p.raw)]

\* Every penv() address the expressions name, as penv_addresses collects them.
RECURSIVE Addresses(_, _)
Addresses(k, e) ==
  CASE e.is = "default" -> Addresses(k, e.or)
    [] e.is = "filter" -> Addresses(k, e.inner)
    [] e.is = "template" -> UNION {Addresses(k, e.parts[i]) : i \in DOMAIN e.parts}
    [] e.is = "call" ->
         UNION {Addresses(k, e.args[i]) : i \in DOMAIN e.args}
           \cup CASE e.name = "penv" /\ e.args = <<>> -> {<<Here, k>>}
                  [] e.name = "penv" /\ e.args # <<>> ->
                       IF e.args[1].is = "text" THEN {e.args[1].val} ELSE {}
                  [] OTHER -> {}
    [] OTHER -> {}

Named(p) == UNION {Addresses(k, p.raw[k].expr) : k \in {j \in DOMAIN p.raw : p.raw[j].computed}}

\* source.rs reference: this project's other environment is computed on its own terms,
\* with no reads of its own; another project's key is what its environment holds.
ReadOf(p, at) ==
  LET raw == IF at[1] = Here THEN p.raw ELSE p.there
      plain == [url |-> PublicParts, json |-> {}, hash |-> {}]
      g == [World(p, <<>>) EXCEPT !.raw = raw, !.policy = plain]
      s == Compute(g, Blank(DOMAIN raw), Last(at))
  IN IF Len(at) > 2 THEN {Of("elsewhere", Last(at))}
     ELSE IF Last(at) \notin DOMAIN s.done THEN Nothing
     ELSE {IF a.env = "text" THEN a
           ELSE [a EXCEPT !.env = IF IsStored(raw[Last(at)]) THEN "read" ELSE "computed"] :
             a \in s.done[Last(at)]}

-----------------------------------------------------------------------------
Init ==
  /\ project \in Projects
  /\ fetched = <<>>
  /\ st = Blank(DOMAIN project.raw)
  /\ phase = "fetch"

\* Every address is fetched before anything is computed.
Fetch ==
  /\ phase = "fetch"
  /\ fetched' = [at \in Named(project) |-> ReadOf(project, at)]
  /\ phase' = "compute"
  /\ UNCHANGED <<project, st>>

Remaining == {k \in DOMAIN project.raw : k \notin DOMAIN st.done \cup st.failed}

\* The code goes by name; here the keys come in any order.
ComputeKey ==
  /\ phase = "compute"
  /\ \E k \in Remaining : st' = Compute(World(project, fetched), st, k)
  /\ UNCHANGED <<project, fetched, phase>>

Judge ==
  /\ phase = "compute"
  /\ Remaining = {}
  /\ phase' = "judged"
  /\ UNCHANGED <<project, fetched, st>>

Next == Fetch \/ ComputeKey \/ Judge

Spec == Init /\ [][Next]_vars

-----------------------------------------------------------------------------
(* What the judgement finds.                                               *)

Marked == Sensitive \cup Tainted(st.deps, Sensitive)

\* What a sealed command is handed: everything again over the placeholders.
Placeholder(k) == {Of("placeholder", k)}

SealedValues ==
  LET sealed == [k \in DOMAIN project.raw |->
                   IF k \in project.sealed THEN Literal(Placeholder(k)) ELSE project.raw[k]]
      g == [World(project, fetched) EXCEPT !.raw = sealed]
  IN Resolve(g, SetToSeq(DOMAIN sealed)).done

\* A key's computed @hosts, over the values as they came out: the hosts, or none when they
\* come from a sensitive value.
HostsOf(k) ==
  LET held == [j \in DOMAIN st.done |->
                 IF IsStored(project.raw[j]) THEN Literal(st.done[j]) ELSE Derived(st.done[j])]
      raw == held @@ ("hosts" :> Computed(project.hosts[k]))
      g == [World(project, fetched) EXCEPT !.raw = raw]
      out == Compute(g, Blank(DOMAIN raw), "hosts")
      hot == Tainted(out.deps, Marked)
  IN IF "hosts" \in DOMAIN out.done /\ "hosts" \notin hot THEN out.done["hosts"] ELSE Nothing

-----------------------------------------------------------------------------
(* Properties.                                                             *)

\* A step that shows what it reads on purpose: a public part of a stored text, a listed
\* path of a stored JSON, a listed key's hash.
Shows(policy, a, i) ==
  LET step == a.path[i] IN
  \/ /\ step.by = "url" /\ step.at \in policy.url
     /\ \A j \in 1..i : a.path[j].by \in {"url", "json"}
  \/ step.by = "json" /\ i = 1 /\ <<a.key, step.at>> \in policy.json
  \/ step.by = "hash" /\ step.key \in policy.hash

\* Whether carrying this makes a value secret: it comes from a sensitive key, or it is a
\* password read out of a text, and nothing since has shown it on purpose.
Hidden(policy, a) ==
  LET passwords == {0} \cup {i \in DOMAIN a.path : a.path[i].by = "url" /\ a.path[i].at = "password"}
      last == CHOOSE i \in passwords : \A j \in passwords : j <= i
  IN /\ last > 0 \/ (a.env # "text" /\ a.env # "placeholder" /\ a.key \in Sensitive)
     /\ \A i \in DOMAIN a.path : i > last => ~Shows(policy, a, i)

ShowsHidden(v, here) ==
  \E a \in v : (a.env = "computed") = ~here /\ Hidden(KeptPolicy(project.policy, project.raw), a)

\* A value that carries something hidden belongs to a key that is marked, whatever the
\* expression, also when penv() read it (resolve.rs:184-185, 483-600).  What
\* penv() reads of a key computed where it is read is left to ReadsAreMarked.
HiddenIsMarked ==
  phase = "judged" => \A k \in DOMAIN st.done \ Marked : ~ShowsHidden(st.done[k], TRUE)

\* The same of what penv() reads of a computed key: a URL another environment built from
\* a password is a password here too (resolve.rs:184-185).
ReadsAreMarked ==
  phase = "judged" => \A k \in DOMAIN st.done \ Marked : ~ShowsHidden(st.done[k], FALSE)

\* A sealed command gets the placeholder wherever a key is computed from a sealed one, and
\* never its value, except through penv(), which reads the value itself (source.rs:646-665).
SealedGetsPlaceholders ==
  phase = "judged" =>
    \A k \in DOMAIN SealedValues : \A a \in SealedValues[k] :
      ~(a.env = Here /\ a.key \in project.sealed)

\* Computed hosts are printed and pinned: none carries anything hidden (sealed/run.rs:36-37).
HostsHideNothing ==
  phase = "judged" => \A k \in DOMAIN project.hosts : ~ShowsHidden(HostsOf(k), TRUE)

\* What a key comes to does not depend on which keys were computed before it: not its value,
\* not its failure, not what it was computed from.  Only a chain too deep for the stack may
\* end sooner when part of it was computed first (resolve.rs:317-371, 394-425).
OrderDoesNotMatter ==
  phase = "judged" =>
    LET g == World(project, fetched)
        Alone(k) == Value(g, Top, Blank(DOMAIN project.raw), k).st
        TooDeep(k) == Value([g EXCEPT !.depth = 99], Top, Blank(DOMAIN project.raw), k).st
    IN \A k \in DOMAIN project.raw :
         IF k \in st.failed THEN k \in Alone(k).failed
         ELSE LET whole == TooDeep(k) IN
              k \in DOMAIN whole.done /\ st.done[k] = whole.done[k] /\ st.deps[k] = whole.deps[k]

=============================================================================
