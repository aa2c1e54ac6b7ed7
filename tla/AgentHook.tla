------------------------------ MODULE AgentHook -----------------------------
(***************************************************************************)
(* `penv hook`: what a harness is about to read or run, decided before it  *)
(* does (commands/hook.rs).  A payload is a tree of objects, whose fields  *)
(* come in the harness's order, lists and texts.  A command is the         *)
(* sequence of its words, ";" standing for what separates two commands.    *)
(***************************************************************************)
EXTENDS Sequences, SequencesExt, FiniteSets, FiniteSetsExt, Naturals

CONSTANTS
  Payloads,     \* the payloads a harness may send
  Families,     \* "claude-code", "cursor" and "generic": how a guard says to read one
  ValueFiles,   \* the words that name a value file
  Patterns,     \* the globs to match, sequences of characters
  FileNames,    \* the names to match them against
  DEPTH         \* how many shells within one another are looked into

VARIABLES
  payload, family,    \* what was sent, and how the guard says to read it
  pattern,            \* a glob among its words
  answer

vars == <<payload, family, pattern, answer>>

Touches(word) == word \in ValueFiles

-----------------------------------------------------------------------------
(* What the payload names *)

CommandNames == {"command", "cmd", "command_line"}
PathNames    == {"file_path", "path", "pattern", "include"}
ListNames    == {"paths", "include", "files"}

Empty == [command |-> {}, path |-> {}]

\* Mutant: the first path named is the one decided on.
OfferFirst(request, path) ==
  IF request.path = {} THEN [request EXCEPT !.path = {path}] ELSE request

\* The first path, unless a later one would be refused.
Offer(request, path) ==
  IF request.path = {} \/ (\A held \in request.path : ~Touches(held) /\ Touches(path))
  THEN [request EXCEPT !.path = {path}] ELSE request

Field(request, field) ==
  CASE field.name \in CommandNames /\ field.value.is = "command" ->
         IF request.command = {} THEN [request EXCEPT !.command = {field.value.words}] ELSE request
    [] field.name \in PathNames /\ field.value.is = "text" -> Offer(request, field.value.text)
    [] field.name \in ListNames /\ field.value.is = "list" ->
         FoldLeft(LAMBDA r, item : IF item.is = "text" THEN Offer(r, item.text) ELSE r,
                  request, field.value.items)
    [] OTHER -> request

Fields(request, value) ==
  IF value.is = "object" THEN FoldLeft(Field, request, value.fields) ELSE request

RECURSIVE Walk(_, _)
Walk(request, value) ==
  CASE value.is = "object" ->
         FoldLeft(LAMBDA r, field : Walk(r, field.value), Fields(request, value), value.fields)
    [] value.is = "list" -> FoldLeft(Walk, request, value.items)
    [] OTHER -> request

\* The family's own fields first, then whatever the tree names.
Extract ==
  LET input == {field.value : field \in {f \in ToSet(payload.fields) : f.name = "tool_input"}}
      own == CASE family = "claude-code" /\ input # {} -> Walk(Empty, CHOOSE v \in input : TRUE)
               [] family = "cursor" -> Fields(Empty, payload)
               [] OTHER -> Empty
  IN Walk(own, payload)

-----------------------------------------------------------------------------
(* What a command does *)

Shells       == {"sh", "pwsh"}
Hands        == {"-c", "-command"}
Interpreters == {"node", "python"} \cup Shells
Inline       == {"-c", "-e"}
Environments == {"process.env"}
Flags        == {"-x"} \cup Hands \cup Inline
Assignments  == {"A=1"}

Segments(command) ==
  LET at == {0, Len(command) + 1} \cup {i \in DOMAIN command : command[i] = ";"}
      next(i) == Min({j \in at : j > i})
      cuts == {<<i + 1, next(i) - 1>> : i \in at \ {Len(command) + 1}}
  IN {SubSeq(command, cut[1], cut[2]) : cut \in {c \in cuts : c[1] <= c[2]}}

SkipAssignments(words) ==
  LET at == {i \in DOMAIN words : words[i] \notin Assignments}
  IN IF at = {} THEN <<>> ELSE SubSeq(words, Min(at), Len(words))

\* A snippet handed to an interpreter carries its own separators.
PrintsEnvironment(words) ==
  /\ ToSet(words) \cap Interpreters # {}
  /\ ToSet(words) \cap Inline # {}
  /\ ToSet(words) \cap Environments # {}

DumpsEnvironment(words) ==
  LET rest == SkipAssignments(words) IN
  /\ rest # <<>>
  /\ \/ Head(rest) = "printenv"
     \/ Head(rest) = "env" /\ ToSet(Tail(rest)) \subseteq Flags
     \/ Head(rest) = "set" /\ Len(rest) = 1
     \/ Head(rest) = "ls" /\ "env:" \in ToSet(Tail(rest))

PullsValues(words) ==
  LET rest == SkipAssignments(words)
      named == SelectSeq(Tail(rest), LAMBDA word : word \notin Flags)
  IN rest # <<>> /\ Head(rest) = "penv" /\ named # <<>> /\ Head(named) = "pull"

\* The command a shell was handed.
Inner(words) ==
  LET rest == SkipAssignments(words)
      at == {i \in DOMAIN rest : rest[i] \in Hands}
  IN IF rest = <<>> \/ Head(rest) \notin Shells \/ at = {} THEN <<>>
     ELSE SubSeq(rest, Min(at) + 1, Len(rest))

RECURSIVE Denies(_, _)
Denies(command, depth) ==
  \/ PrintsEnvironment(command)
  \/ \E words \in Segments(command) :
       \/ \E i \in DOMAIN words : Touches(words[i])
       \/ DumpsEnvironment(words)
       \/ PullsValues(words)
       \/ depth < DEPTH /\ Inner(words) # <<>> /\ Denies(Inner(words), depth + 1)

Decide(request) ==
  IF (\E path \in request.path : Touches(path)) \/ (\E c \in request.command : Denies(c, 0))
  THEN "deny" ELSE "allow"

-----------------------------------------------------------------------------
(* The matcher of a glob, one step of its loop at a time *)

\* p[i] opens a class that ends at the first "]" after it.
ClassEnd(p, i) ==
  LET ends == {n \in (i + 1) .. Len(p) : p[n] = "]"}
  IN IF ends = {} THEN 0 ELSE Min(ends)

InClass(members, c) ==
  LET negated == members # <<>> /\ Head(members) = "!"
  IN (c \in ToSet(IF negated THEN Tail(members) ELSE members)) # negated

\* How far the pattern moves when it takes the name's character at i, or 0.
Takes(p, i, c) ==
  CASE i > Len(p) \/ p[i] = "*" -> 0
    [] p[i] = "[" ->
         LET end == ClassEnd(p, i)
         IN IF end # 0 /\ InClass(SubSeq(p, i + 1, end - 1), c) THEN end + 1 ELSE 0
    [] p[i] = "?" \/ p[i] = c -> i + 1
    [] OTHER -> 0

\* Back to the last star, which takes one character more.
Resume(star, resume) == [i |-> star + 1, j |-> resume + 1, star |-> star, resume |-> resume + 1]

RECURSIVE Scan(_, _, _)
Scan(p, n, at) ==
  IF at.j > Len(n) THEN \A k \in at.i .. Len(p) : p[k] = "*"
  ELSE IF at.i <= Len(p) /\ p[at.i] = "*"
  THEN Scan(p, n, [i |-> at.i + 1, j |-> at.j, star |-> at.i, resume |-> at.j])
  ELSE IF Takes(p, at.i, n[at.j]) # 0
  THEN Scan(p, n, [at EXCEPT !.i = Takes(p, at.i, n[at.j]), !.j = @ + 1])
  ELSE at.star # 0 /\ Scan(p, n, Resume(at.star, at.resume))

GlobMatches(p, n) == Scan(p, n, [i |-> 1, j |-> 1, star |-> 0, resume |-> 1])

-----------------------------------------------------------------------------
Init ==
  /\ answer = "none"
  /\ \/ payload \in Payloads /\ family \in Families /\ pattern = <<>>
     \/ payload = [is |-> "object", fields |-> <<>>] /\ family = "generic" /\ pattern \in Patterns

Run ==
  /\ answer = "none"
  /\ answer' = Decide(Extract)
  /\ UNCHANGED <<payload, family, pattern>>

Next == Run

Spec == Init /\ [][Next]_vars

-----------------------------------------------------------------------------
\* Every path a payload names, wherever it is.
RECURSIVE Paths(_)
Paths(value) ==
  CASE value.is = "object" ->
         UNION {Paths(f.value) \cup
                (IF f.name \in PathNames /\ f.value.is = "text" THEN {f.value.text} ELSE {}) \cup
                (IF f.name \in ListNames /\ f.value.is = "list"
                 THEN {item.text : item \in {t \in ToSet(f.value.items) : t.is = "text"}} ELSE {}) :
                  f \in ToSet(value.fields)}
    [] value.is = "list" -> UNION {Paths(item) : item \in ToSet(value.items)}
    [] OTHER -> {}

\* A value file is refused wherever the harness names it, in whatever order its fields
\* come and whatever else it names (hook.rs:148-156, "field order is the harness's, not
\* ours").
OrderDoesNotMatter ==
  answer # "none" =>
    (answer = "deny") = \/ \E path \in Paths(payload) : Touches(path)
                        \/ \E command \in Extract.command : Denies(command, 0)

\* A command that is refused is refused in a shell handed it, before and after another
\* (hook.rs:163-186, 317-330).
WrappedIsRefused ==
  \A command \in Extract.command :
    Denies(command, 1) =>
      /\ Denies(<<"sh", "-c">> \o command, 0)
      /\ Denies(<<"cat", ";">> \o command \o <<";", "A=1">>, 0)

\* What the matcher should say, read from the pattern's end.
RECURSIVE Matches(_, _)
Matches(p, n) ==
  IF p = <<>> THEN n = <<>>
  ELSE IF Head(p) = "*" THEN \E k \in 0 .. Len(n) : Matches(Tail(p), SubSeq(n, k + 1, Len(n)))
  ELSE /\ n # <<>>
       /\ Takes(p, 1, Head(n)) # 0
       /\ Matches(SubSeq(p, Takes(p, 1, Head(n)), Len(p)), Tail(n))

\* The matcher, which goes back to the last star only, agrees with the definition that
\* tries every length for every star (hook.rs:219-272).
GlobsAgree == \A n \in FileNames : GlobMatches(pattern, n) = Matches(pattern, n)

HookHolds == OrderDoesNotMatter /\ WrappedIsRefused /\ GlobsAgree
=============================================================================
