----------------------------- MODULE SchemaFile -----------------------------
(***************************************************************************)
(* `.env.schema` as penv reads it and writes into it: the parser           *)
(* (penv-schema parse.rs), the canonical writer and the header's rewrite   *)
(* (render.rs), the block `set` appends, the draft `init` writes, and the  *)
(* second, forgiving reader an editor is served from (editor.rs).          *)
(*                                                                         *)
(* A file is a sequence of lines and a comment line a sequence of words    *)
(* and decorators.  A value is a string of a few; what the code asks of    *)
(* its characters (does it hold a `$`, a space, an `=`) is asked of the    *)
(* sets below.                                                             *)
(***************************************************************************)
EXTENDS Integers, Sequences, SequencesExt, FiniteSets, Functions, TLC

CONSTANTS
  Files,          \* the files a person may have written
  Drafts,         \* what `init` may find: sequences of entries [name, value, type]
  NewKeys,        \* what `set` may be given: entries too
  Addresses,      \* the org/project a folder may be linked to
  Spaced,         \* values bare text cannot hold: they are quoted when written
  Equated,        \* type arguments that hold an `=`
  Expressions,    \* values that are computed
  Cuts,           \* value -> what a bare default leaves of it
  Hosts, Spans,   \* the valid host patterns and rotation spans
  PublicNames,    \* names that carry a bundler prefix
  CredentialNames,\* names that say they hold a credential
  Dull,           \* values that cannot be a secret
  MaxCommands

VARIABLES
  file,   \* the lines
  before, \* the lines before the last command
  did     \* the commands so far, a sequence of [is, with]

vars == <<file, before, did>>

-----------------------------------------------------------------------------
(* What is written.                                                        *)

W(v) == [q |-> FALSE, v |-> v]      \* a bare value
Q(v) == [q |-> TRUE, v |-> v]       \* a quoted one

Dec(name, form, value) == [is |-> "dec", name |-> name, form |-> form, value |-> value]
Flag(name) == Dec(name, "bare", <<>>)
Is(name, v) == Dec(name, "is", <<W(v)>>)
Called(name, value) == Dec(name, "call", value)
Say(w) == [is |-> "word", name |-> w, form |-> "bare", value |-> <<>>]
Note == [is |-> "note", name |-> "#", form |-> "bare", value |-> <<>>]

\* A line; a key's default stands in no quotes, in single or in double ones.
Default(quotes, v) == [quotes |-> quotes, v |-> v]
Line(is, items, name, value) == [is |-> is, items |-> items, name |-> name, value |-> value]
Bare(is) == Line(is, <<>>, "", Default("no", ""))
Blank == Bare("blank")
Divider == Bare("divider")
Stray == Bare("other")
Comment(items) == Line("comment", items, "", Default("no", ""))
KeyIs(name, quotes, v) == Line("key", <<>>, name, Default(quotes, v))

Least(S) == CHOOSE i \in S : \A j \in S : i <= j
Greatest(S) == CHOOSE i \in S : \A j \in S : j <= i

-----------------------------------------------------------------------------
(* The parser.                                                             *)

NoKey ==
  [name |-> "", default |-> "", expr |-> FALSE, type |-> <<"string">>,
   required |-> TRUE, requiredIs |-> "unsaid", requiredIn |-> <<>>,
   sensitive |-> TRUE, sensitiveIs |-> "unsaid",
   texts |-> <<>>, hosts |-> <<>>, hostsExpr |-> "", rotate |-> "", dynamic |-> "unsaid",
   about |-> <<>>]

NoSchema ==
  [address |-> "", provider |-> "", sensitive |-> TRUE, required |-> "yes", current |-> "",
   asserts |-> <<>>, imports |-> <<>>, keys |-> <<>>]

NoBlock == [about |-> <<>>, decs |-> <<>>]

Opening == [schema |-> NoSchema, block |-> NoBlock, first |-> TRUE, errors |-> {}]

Error(p, what) == [p EXCEPT !.errors = @ \cup {what}]

HeaderNames ==
  {"penv", "schema", "defaultSensitive", "defaultRequired", "currentEnv", "import", "plugin",
   "disable"}

HasHeaderDecorator(block) == \E i \in DOMAIN block.decs : block.decs[i].name \in HeaderNames

Values(d) == [i \in DOMAIN d.value |-> d.value[i].v]
ValueOf(d) == IF d.value = <<>> THEN "" ELSE d.value[1].v
FlagOf(d) == IF d.value = <<>> THEN "true" ELSE ValueOf(d)
IsFlag(d) == FlagOf(d) \in {"true", "false"}

\* A comment line: prose is description; once it opens with a decorator it is decorators to
\* its end, or to a trailing `# note`.  A bare value ends at its first space.
ReadUpTo(p, items, end) ==
  LET kept == [p EXCEPT !.block.decs = @ \o SubSeq(items, 1, end - 1)]
  IN IF end > Len(items) \/ items[end].is = "note" THEN kept ELSE Error(kept, "invalid_decorator")

Stops(item) ==
  \/ item.is # "dec"
  \/ item.form = "is" /\ ~item.value[1].q /\ item.value[1].v \in Spaced

ReadComment(p, items) ==
  IF items = <<>> THEN p
  ELSE IF items[1].is # "dec" THEN [p EXCEPT !.block.about = @ \o items]
  ELSE ReadUpTo(p, items, Least({i \in DOMAIN items : Stops(items[i])} \cup {Len(items) + 1}))

ReadAssert(p, d) ==
  IF d.form = "call" /\ Len(d.value) = 2
  THEN [p EXCEPT !.schema.asserts = Append(@, Values(d))]
  ELSE Error(p, "invalid_decorator")

HeaderDecorator(p, d) ==
  CASE d.name = "penv" ->
         IF ValueOf(d) \in Addresses
         THEN [p EXCEPT !.schema.address = ValueOf(d),
                        !.schema.provider = IF Len(d.value) = 2 THEN d.value[2].v ELSE ""]
         ELSE Error(p, "invalid_header")
    [] d.name = "schema" ->
         IF ValueOf(d) = "1" THEN p
         ELSE Error(p, IF ValueOf(d) = "2" THEN "schema_too_new" ELSE "invalid_header")
    [] d.name = "defaultSensitive" ->
         IF IsFlag(d) THEN [p EXCEPT !.schema.sensitive = (FlagOf(d) = "true")]
         ELSE Error(p, "invalid_decorator_value")
    [] d.name = "defaultRequired" ->
         IF ValueOf(d) = "infer" THEN [p EXCEPT !.schema.required = "infer"]
         ELSE IF IsFlag(d)
         THEN [p EXCEPT !.schema.required = IF FlagOf(d) = "true" THEN "yes" ELSE "no"]
         ELSE Error(p, "invalid_decorator_value")
    [] d.name = "currentEnv" ->
         IF ValueOf(d) # "" THEN [p EXCEPT !.schema.current = ValueOf(d)]
         ELSE Error(p, "invalid_header")
    [] d.name = "import" ->
         IF d.form = "call" /\ d.value # <<>>
         THEN [p EXCEPT !.schema.imports = Append(@, Values(d))]
         ELSE Error(p, "invalid_header")
    [] d.name = "assert" -> ReadAssert(p, d)
    [] OTHER -> p

RECURSIVE HeaderDecorators(_, _)
HeaderDecorators(p, decs) ==
  IF decs = <<>> THEN p ELSE HeaderDecorators(HeaderDecorator(p, Head(decs)), Tail(decs))

TakeHeader(p) == [HeaderDecorators(p, p.block.decs) EXCEPT !.block = NoBlock]

\* `@type=base(args)`: a bare argument with an `=` is a constraint, whatever was meant.
Constraints(base) ==
  CASE base = "string" -> {"minLength=1"} [] base = "number" -> {"isInt=true"} [] OTHER -> {}

ReadType(p, d) ==
  LET base == ValueOf(d)
      args == Tail(d.value)
      IsConstraint(a) == a.v \in Equated /\ ~a.q
      kept == SelectSeq(args, LAMBDA a : ~IsConstraint(a) \/ a.v \in Constraints(base))
      bad == IF base = "enum" THEN \A i \in DOMAIN args : IsConstraint(args[i])
             ELSE \E i \in DOMAIN args : ~IsConstraint(args[i])
  IN IF base \notin {"string", "number", "url", "port", "enum"}
     THEN <<p, <<"string">>>>
     ELSE << IF bad THEN Error(p, "invalid_type") ELSE p,
             <<base>> \o [i \in DOMAIN kept |-> kept[i].v] >>

Typed(read, key) == <<read[1], [key EXCEPT !.type = read[2]]>>

\* One decorator of a key's block, over <<the parser, the key so far>>.
KeyDecorator(at, d) ==
  LET p == at[1]
      key == at[2]
      missing == <<Error(p, "missing_decorator_value"), key>>
      wrong == <<Error(p, "invalid_decorator_value"), key>>
  IN CASE d.name = "type" ->
            IF ValueOf(d) = "" THEN missing
            ELSE Typed(ReadType(p, d), key)
       [] d.name \in {"required", "optional"} ->
            IF IsFlag(d)
            THEN <<p, [key EXCEPT !.requiredIs =
                         IF (FlagOf(d) = "true") = (d.name = "required") THEN "yes" ELSE "no"]>>
            ELSE IF ValueOf(d) = "forEnv" /\ Len(d.value) > 1
            THEN <<p, [key EXCEPT !.requiredIn = <<d.name, d.value[2].v>>]>>
            ELSE at
       [] d.name = "sensitive" ->
            IF IsFlag(d) THEN <<p, [key EXCEPT !.sensitiveIs = FlagOf(d)]>> ELSE at
       [] d.name \in {"example", "docs", "deprecated"} ->
            IF ValueOf(d) = "" /\ d.name # "deprecated" THEN missing
            ELSE <<p, [key EXCEPT !.texts = (d.name :> ValueOf(d)) @@ @]>>
       [] d.name = "hosts" ->
            IF d.form # "call" /\ ValueOf(d) \in Expressions
            THEN <<p, [key EXCEPT !.hostsExpr = ValueOf(d)]>>
            ELSE IF d.value = <<>> \/ ~IsInjective(Values(d)) \/ ~(Range(Values(d)) \subseteq Hosts)
            THEN wrong
            ELSE <<p, [key EXCEPT !.hosts = Values(d)]>>
       [] d.name = "rotate" ->
            IF ValueOf(d) = "" THEN missing
            ELSE IF ValueOf(d) \in Spans THEN <<p, [key EXCEPT !.rotate = ValueOf(d)]>> ELSE wrong
       [] d.name \in {"dynamic", "static"} ->
            IF d.value # <<>> THEN wrong ELSE <<p, [key EXCEPT !.dynamic = d.name]>>
       [] d.name = "assert" -> <<ReadAssert(p, d), key>>
       [] OTHER -> at

RECURSIVE KeyDecorators(_, _)
KeyDecorators(at, decs) ==
  IF decs = <<>> THEN at ELSE KeyDecorators(KeyDecorator(at, Head(decs)), Tail(decs))

\* A default: bare it ends at a ` #`.
ReadDefault(value) ==
  IF value.quotes = "no" /\ value.v \in DOMAIN Cuts THEN Cuts[value.v] ELSE value.v

Settled(p, key) ==
  LET public == key.name \in PublicNames IN
  [key EXCEPT
     !.sensitive = IF key.sensitiveIs = "unsaid" THEN ~public /\ p.schema.sensitive
                   ELSE key.sensitiveIs = "true",
     !.required = CASE key.requiredIs # "unsaid" -> key.requiredIs = "yes"
                    [] key.requiredIs = "unsaid" /\ p.schema.required = "yes" -> key.default = ""
                    [] key.requiredIs = "unsaid" /\ p.schema.required = "no" -> FALSE
                    [] key.requiredIs = "unsaid" /\ p.schema.required = "infer" -> key.default # ""]

Names(keys) == {keys[i].name : i \in DOMAIN keys}

StartKey(p, line, v) ==
  [NoKey EXCEPT !.name = line.name, !.default = v, !.about = p.block.about,
                !.expr = v \in Expressions /\ line.value.quotes # "single"]

\* A key whose name a bundler ships cannot be sensitive.
Kept(at) ==
  LET ships == at[2].name \in PublicNames /\ at[2].sensitiveIs = "true"
      q == IF ships THEN Error(at[1], "sensitive_public_key") ELSE at[1]
  IN [q EXCEPT !.schema.keys = Append(@, Settled(q, at[2]))]

ReadKey(p, line) ==
  IF line.is = "other" THEN Error(p, "invalid_line")
  ELSE IF line.name \in Names(p.schema.keys) THEN Error(p, "duplicate_key")
  ELSE Kept(KeyDecorators(<<p, StartKey(p, line, ReadDefault(line.value))>>, p.block.decs))

EndBlock(p) ==
  IF p.block = NoBlock THEN p
  ELSE [(IF p.first THEN TakeHeader(p) ELSE p) EXCEPT !.first = FALSE, !.block = NoBlock]

TakeKey(p, line) == [ReadKey(p, line) EXCEPT !.block = NoBlock, !.first = FALSE]

ParseLine(p, line) ==
  CASE line.is \in {"blank", "divider"} -> EndBlock(p)
    [] line.is = "comment" -> ReadComment(p, line.items)
    [] OTHER -> TakeKey(IF p.first /\ HasHeaderDecorator(p.block) THEN TakeHeader(p) ELSE p, line)

RECURSIVE ParseLines(_, _)
ParseLines(p, lines) ==
  IF lines = <<>> THEN EndBlock(p) ELSE ParseLines(ParseLine(p, Head(lines)), Tail(lines))

Parsed(p) == [ok |-> p.errors = {}, errors |-> p.errors, schema |-> p.schema]
Parse(lines) == Parsed(ParseLines(Opening, lines))

-----------------------------------------------------------------------------
(* The writer.                                                             *)

Quoted(v) == IF v \in Spaced \cup {""} THEN Q(v) ELSE W(v)

When(test, one) == IF test THEN <<one>> ELSE <<>>

\* A bare member that holds an `=` would read back as a constraint.
Member(v) == IF v \in Equated THEN Q(v) ELSE Quoted(v)

WriteType(type) ==
  Dec("type", "is",
      [i \in DOMAIN type |-> IF i > 1 /\ type[1] = "enum" THEN Member(type[i]) ELSE W(type[i])])

\* A computed default stays bare unless that would cut it; a literal that reads as computed
\* is single-quoted.
DefaultQuotes(key) ==
  CASE key.expr -> IF key.default \in DOMAIN Cuts THEN "double" ELSE "no"
    [] ~key.expr /\ key.default \in Expressions -> "single"
    [] OTHER -> IF key.default \in Spaced THEN "double" ELSE "no"

WriteKey(key) ==
  LET Text(name, form) ==
        When(name \in DOMAIN key.texts,
             IF key.texts[name] = "" THEN Flag(name) ELSE Dec(name, form, <<Quoted(key.texts[name])>>))
      decs == <<WriteType(key.type)>>
        \o When(key.requiredIs = "yes", Flag("required"))
        \o When(key.requiredIs = "no", Flag("optional"))
        \o (IF key.requiredIs = "unsaid" /\ key.requiredIn # <<>>
            THEN <<Dec(key.requiredIn[1], "is", <<W("forEnv"), W(key.requiredIn[2])>>)>>
            ELSE <<>>)
        \o When(key.sensitiveIs = "true", Flag("sensitive"))
        \o When(key.sensitiveIs = "false", Is("sensitive", "false"))
        \o Text("example", "is") \o Text("docs", "call") \o Text("deprecated", "is")
        \o When(key.hostsExpr # "", Is("hosts", key.hostsExpr))
        \o When(key.hosts # <<>>, Dec("hosts", IF Len(key.hosts) = 1 THEN "is" ELSE "call",
                                      [i \in DOMAIN key.hosts |-> W(key.hosts[i])]))
        \o When(key.rotate # "", Is("rotate", key.rotate))
        \o When(key.dynamic # "unsaid", Flag(key.dynamic))
  IN When(key.about # <<>>, Comment(key.about))
     \o <<Comment(decs), KeyIs(key.name, DefaultQuotes(key), key.default)>>

Token(provider, address) ==
  Dec("penv", "is", <<W(address)>> \o When(provider # "", W(provider)))

WriteHeader(schema) ==
  When(schema.address # "", Comment(<<Token(schema.provider, schema.address)>>))
  \o When(~schema.sensitive, Comment(<<Is("defaultSensitive", "false")>>))
  \o When(schema.required = "no", Comment(<<Is("defaultRequired", "false")>>))
  \o When(schema.required = "infer", Comment(<<Is("defaultRequired", "infer")>>))
  \o When(schema.current # "", Comment(<<Is("currentEnv", schema.current)>>))
  \o [i \in DOMAIN schema.asserts |->
        Comment(<<Called("assert", <<W(schema.asserts[i][1]), Q(schema.asserts[i][2])>>)>>)]
  \o [i \in DOMAIN schema.imports |->
        Comment(<<Called("import", [j \in DOMAIN schema.imports[i] |-> Q(schema.imports[i][j])])>>)]

WriteKeys(keys) == FlattenSeq([i \in DOMAIN keys |-> <<Blank>> \o WriteKey(keys[i])])

Joined(head, blocks) == IF head = <<>> /\ blocks # <<>> THEN Tail(blocks) ELSE head \o blocks
Render(schema) == Joined(WriteHeader(schema), WriteKeys(schema.keys))

-----------------------------------------------------------------------------
(* The header's rewrite, which goes by what the text of the first lines    *)
(* that start with a `#` contains.                                         *)

FirstLine(lines) == Least({i \in 1..(Len(lines) + 1) : i > Len(lines) \/ lines[i].is # "blank"})

HashRun(lines) ==
  {i \in FirstLine(lines)..Len(lines) :
     \A j \in FirstLine(lines)..i : lines[j].is \in {"comment", "divider"}}

IsAddress(item) == item.name = "penv" /\ item.form = "is"

MentionsHeader(item) ==
  /\ item.name \in HeaderNames
  /\ item.name \in {"penv", "schema"} => item.form = "is"
  /\ item.name = "import" => item.form = "call"

Addressed(lines) ==
  {i \in HashRun(lines) : \E j \in DOMAIN lines[i].items : IsAddress(lines[i].items[j])}
Headed(lines) ==
  {i \in HashRun(lines) : \E j \in DOMAIN lines[i].items : MentionsHeader(lines[i].items[j])}

ReplaceAddress(line, address) ==
  LET j == Least({k \in DOMAIN line.items : IsAddress(line.items[k])})
      old == line.items[j].value
  IN [line EXCEPT !.items[j] = Token(IF Len(old) = 2 THEN old[2].v ELSE "", address)]

SetHeader(lines, address) ==
  LET addressed == Addressed(lines)
      headed == Headed(lines)
  IN IF addressed # {} THEN [lines EXCEPT ![Least(addressed)] = ReplaceAddress(@, address)]
     ELSE IF headed # {} THEN [lines EXCEPT ![Least(headed)].items = <<Token("", address)>> \o @]
     ELSE <<Comment(<<Token("", address)>>), Blank>> \o lines

-----------------------------------------------------------------------------
(* The draft `init` writes and the block `set` appends.                    *)

Drafted(entry) ==
  [NoKey EXCEPT !.name = entry.name, !.type = entry.type,
                !.sensitive = entry.name \notin PublicNames]

IsCopied(entry) ==
  /\ entry.value # "" /\ entry.name \notin CredentialNames
  /\ entry.name \in PublicNames \/ entry.value \in Dull

Infer(entries) ==
  LET KeyOf(e) ==
        [Drafted(e) EXCEPT !.default = IF IsCopied(e) THEN e.value ELSE "",
                           !.required = ~IsCopied(e),
                           !.sensitive = @ /\ ~IsCopied(e),
                           !.sensitiveIs = IF e.name \notin PublicNames /\ IsCopied(e)
                                           THEN "false" ELSE "unsaid"]
  IN [NoSchema EXCEPT !.keys = [i \in DOMAIN entries |-> KeyOf(entries[i])]]

\* trim_end, a blank line, the block.
AppendKeyTight(lines, key) == lines \o WriteKey(key)
AppendKey(lines, key) ==
  LET end == Greatest({0} \cup {i \in DOMAIN lines : lines[i].is # "blank"})
  IN SubSeq(lines, 1, end) \o When(end > 0, Blank) \o WriteKey(key)

-----------------------------------------------------------------------------
(* The reader an editor is served from.                                    *)

KeyLine(lines, name) ==
  Least({i \in DOMAIN lines : lines[i].is = "key" /\ lines[i].name = name} \cup {Len(lines) + 1})

\* The first of the comment lines directly above a key.
BlockStart(lines, at) ==
  Least({i \in 1..at : \A j \in i..(at - 1) : lines[j].is = "comment"})

\* The header and one key's block, as a schema of their own.

Alone(lines, name) ==
  LET at == KeyLine(lines, name)
      first == FirstLine(lines)
      end == Least({i \in first..(Len(lines) + 1) : i > Len(lines) \/ lines[i].is # "comment"})
      start == BlockStart(lines, at)
  IN (IF end <= Len(lines) /\ end < at /\ start # first
      THEN SubSeq(lines, first, end - 1) \o <<Divider, Blank>> ELSE <<>>)
     \o SubSeq(lines, start, at)

\* Where a note about a key's decorator is put: on the last line of its block that has it.
Locate(lines, name, decorator) ==
  LET at == KeyLine(lines, name)
      On(i) == {j \in DOMAIN lines[i].items :
                  /\ \A k \in 1..j : lines[i].items[k].is = "dec"
                  /\ lines[i].items[j].name = decorator}
      on == {i \in BlockStart(lines, at)..(at - 1) : On(i) # {}}
  IN IF on = {} THEN <<>> ELSE <<lines[Greatest(on)].items[Least(On(Greatest(on)))]>>

-----------------------------------------------------------------------------
Init ==
  /\ file \in Files
  /\ before = file
  /\ did = <<>>

Command(is, with, lines) ==
  /\ Len(did) < MaxCommands
  /\ file' = lines
  /\ before' = file
  /\ did' = Append(did, [is |-> is, with |-> with])

\* push, link and rename: the file has to parse first.
Link ==
  \E a \in Addresses : Parse(file).ok /\ Command("link", a, SetHeader(file, a))

\* set, of a key the file does not declare.
Declare ==
  \E e \in NewKeys :
    /\ Parse(file).ok /\ e.name \notin Names(Parse(file).schema.keys)
    /\ Command("declare", e.name, AppendKey(file, Drafted(e)))

\* init, over what the value files hold.
Draft ==
  \E entries \in Drafts : Command("draft", "", Render(Infer(entries)))

Next == Link \/ Declare \/ Draft

Spec == Init /\ [][Next]_vars

-----------------------------------------------------------------------------
(* Properties.                                                             *)

LastWas(is) == did # <<>> /\ Last(did).is = is
Said == Parse(before).schema
Says == Parse(file).schema

\* The link takes, and nothing else changes in what the file says (render.rs:160-163).
LinkChangesNothingElse ==
  LastWas("link") => Parse(file).ok /\ Says = [Said EXCEPT !.address = Last(did).with]

\* The files it holds of: among the first lines that start with a `#` no prose names a
\* decorator of the header and none stands behind a divider, `@penv` is written once and
\* with an `=`, and an assertion there either has such a decorator beside it or is a key's.
PlainHeader(lines) ==
  LET run == HashRun(lines)
      all == {<<i, j>> \in run \X (1..4) : j \in DOMAIN lines[i].items}
      At(p) == lines[p[1]].items[p[2]]
  IN /\ \A i \in Headed(lines) :
          lines[i].items[1].is = "dec" /\ \A j \in FirstLine(lines)..i : lines[j].is = "comment"
     /\ \A p \in all : At(p).name \in {"penv", "schema"} => At(p).form = "is"
     /\ Cardinality({p \in all : At(p).name = "penv"}) <= 1
     /\ (\E p \in all : At(p).name = "assert") =>
          \/ Headed(lines) # {}
          \/ /\ \A i \in run : lines[i].is = "comment"
             /\ Greatest(run) < Len(lines) /\ lines[Greatest(run) + 1].is = "key"

\* What penv writes reads back as what was meant: a schema as itself (render.rs:5), a draft
\* as what was inferred, a new key after the ones that were there, a link as the address
\* and nothing else, in the files named above (render.rs:160-163, set.rs:322-330).  The
\* block of a new key says nothing of secrecy or of its being required, which `set` means
\* both (set.rs:312-320): under a header with another default it reads back as the header
\* says, and so not sensitive under @defaultSensitive=false.
ReadsAlike(parsed, again) == parsed.ok => again.ok /\ again.schema = parsed.schema

DraftTakes(parsed) ==
  parsed.ok /\ \E entries \in Drafts : file = Render(Infer(entries)) /\ parsed.schema = Infer(entries)

\* A key of which the header decides what its block leaves unsaid.
ReadsAs(key, meant, schema) ==
  /\ key = [meant EXCEPT !.sensitive = key.sensitive, !.required = key.required]
  /\ schema.sensitive => key.sensitive = meant.sensitive
  /\ schema.required = "yes" => key.required = meant.required

DeclareTakes(said, parsed) ==
  /\ parsed.ok /\ [parsed.schema EXCEPT !.keys = Front(@)] = said.schema
  /\ \E e \in NewKeys : ReadsAs(Last(parsed.schema.keys), Drafted(e), said.schema)

WritesReadBack ==
  /\ ReadsAlike(Parse(file), Parse(Render(Says)))
  /\ LastWas("draft") => DraftTakes(Parse(file))
  /\ LastWas("declare") => DeclareTakes(Parse(before), Parse(file))
  /\ PlainHeader(before) => LinkChangesNothingElse

\* What an editor shows of a key is what the parser reads of it, also while another key's
\* block is broken, and a reminder stands on the decorator that was read (editor.rs:1287-1349).
KeyAgrees(parsed, key, alone, at) ==
  /\ alone.errors \subseteq parsed.errors
  /\ alone.schema.keys # <<>> /\ Last(alone.schema.keys) = key
  /\ key.rotate # "" => at # <<>> /\ ValueOf(at[1]) = key.rotate

KeysAgree(parsed) ==
  \A key \in Range(parsed.schema.keys) :
    KeyAgrees(parsed, key, Parse(Alone(file, key.name)), Locate(file, key.name, "rotate"))

EditorAgrees == KeysAgree(Parse(file))
=============================================================================
