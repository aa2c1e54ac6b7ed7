----------------------------- MODULE DotenvText -----------------------------
(***************************************************************************)
(* A `.env` file as penv-dotenv reads it and edits it: `set`, `unset`,     *)
(* `random()`, `encrypt` and `pull` write it, other tools and people too   *)
(* (read.rs, write.rs).                                                    *)
(*                                                                         *)
(* A text is the sequence of its lines, a line the sequence of its         *)
(* characters: "nl" is a line break within a value, "call" a whole         *)
(* `name(...)`, "mark" the text `# penv:redacted `, "begin" and "end" the  *)
(* delimiters of a PEM block.  A text that ends in a line break ends in an *)
(* empty line.  Warnings are left out: they change nothing that is read.   *)
(***************************************************************************)
EXTENDS Sequences, SequencesExt, FiniteSets, FiniteSetsExt, Naturals

CONSTANTS
  Names,        \* the characters that are the name of a key
  Texts,        \* the files an edit may find
  Values,       \* the values a key may be set to
  MaxEdits      \* bounds the edits of a behaviour

VARIABLES
  file,         \* the text
  before,       \* the text the last edit found
  last          \* the last edit: its kind, key and value

vars == <<file, before, last>>

Has(text, chars) == ToSet(text) \cap chars # {}
Spaces == {" ", "\r"}
BlankAt(text) == {i \in DOMAIN text : text[i] \notin Spaces}
TrimStart(text) ==
  IF BlankAt(text) = {} THEN <<>> ELSE SubSeq(text, Min(BlankAt(text)), Len(text))
TrimEnd(text) == IF BlankAt(text) = {} THEN <<>> ELSE SubSeq(text, 1, Max(BlankAt(text)))
Trim(text) == TrimEnd(TrimStart(text))

-----------------------------------------------------------------------------
(* Reading *)

\* A character after an odd run of backslashes is escaped.
Escaped(text, i) ==
  LET run == {n \in 1 .. (i - 1) : \A j \in n .. (i - 1) : text[j] = "bs"}
  IN Cardinality(run) % 2 = 1

Closes(body, quote) ==
  {i \in DOMAIN body : body[i] = quote /\ ~(quote = "dq" /\ Escaped(body, i))}

Decoded(char) ==
  CASE char = "n" -> <<"nl">>
    [] char = "$" -> <<"bs", "$">>        \* a literal dollar of a computed value
    [] OTHER -> <<char>>

Unescape(text) ==
  FlattenSeq([i \in DOMAIN text |->
    CASE Escaped(text, i) -> Decoded(text[i])
      [] text[i] = "bs" /\ i < Len(text) -> <<>>
      [] OTHER -> <<text[i]>>])

StripComment(text) ==
  LET at == {i \in 2 .. Len(text) : text[i] = "#" /\ text[i - 1] = " "}
  IN IF at = {} THEN text ELSE SubSeq(text, 1, Min(at) - 1)

\* A line as it is read, without the carriage return of CRLF.
Line(text, i) ==
  IF text[i] # <<>> /\ Last(text[i]) = "\r" THEN Front(text[i]) ELSE text[i]

\* What follows the `=` of line i and the lines through j.
Through(text, first, i, j) ==
  first \o FlattenSeq([n \in 1 .. (j - i) |-> <<"nl">> \o Line(text, i + n)])

\* What stands before the closing quote, or everything.
UpToQuote(body, quote) ==
  IF Closes(body, quote) = {} THEN body ELSE SubSeq(body, 1, Min(Closes(body, quote)) - 1)

QuotedThrough(body, quote, end) ==
  [value |-> IF quote = "dq" THEN Unescape(UpToQuote(body, quote)) ELSE UpToQuote(body, quote),
   end |-> end, closed |-> Closes(body, quote) # {}]

\* The first line by which the quote closes, or the last.
QuotedValue(text, first, i) ==
  LET closing == {j \in i .. Len(text) : Closes(Through(text, Tail(first), i, j), Head(first)) # {}}
      end == Min(closing \cup {Len(text)})
  IN QuotedThrough(Through(text, Tail(first), i, end), Head(first), end)

PemThrough(text, first, i, end, closed) ==
  [value |-> TrimEnd(first) \o FlattenSeq([n \in 1 .. (end - i) |-> <<"nl">> \o Trim(text[i + n])]),
   end |-> end, closed |-> closed]

PemValue(text, first, i) ==
  LET ends == {j \in (i + 1) .. Len(text) : Head(Trim(text[j]) \o <<"nl">>) = "end"}
  IN PemThrough(text, first, i, Min(ends \cup {Len(text)}), ends # {})

ReadFirst(text, first, indented, i) ==
  CASE first # <<>> /\ Head(first) \in {"dq", "sq", "bt"} -> QuotedValue(text, first, i)
    [] first # <<>> /\ Head(first) = "#" /\ indented ->
         [value |-> <<>>, end |-> i, closed |-> TRUE]
    [] first # <<>> /\ Head(first) = "begin" /\ ~Has(first, {"end"}) -> PemValue(text, first, i)
    [] OTHER -> [value |-> TrimEnd(StripComment(first)), end |-> i, closed |-> TRUE]

ReadValue(text, after, i) ==
  ReadFirst(text, TrimStart(after), Len(TrimStart(after)) < Len(after), i)

StripExport(line) == IF line # <<>> /\ Head(line) = "export" THEN TrimStart(Tail(line)) ELSE line

MarkerOf(line) ==
  LET trimmed == Trim(line) IN
  IF Len(trimmed) = 2 /\ trimmed[1] = "mark" /\ trimmed[2] \in Names THEN {trimmed[2]} ELSE {}

\* The assignment a line begins, if it begins one: what stands before its first `=`
\* is a name.
Assignment(name, after, read, i) ==
  [key |-> Head(name), value |-> read.value, first |-> i, last |-> read.end,
   closed |-> read.closed,
   literal |-> after # <<>> /\ Head(after) \in {"sq", "bt"}]

Cut(text, rest, eq, i) ==
  LET name == Trim(SubSeq(rest, 1, eq - 1))
      after == SubSeq(rest, eq + 1, Len(rest))
  IN IF Len(name) # 1 \/ ~Has(name, Names) THEN {}
     ELSE {Assignment(name, TrimStart(after), ReadValue(text, after, i), i)}

AssignmentIn(text, rest, i) ==
  IF rest = <<>> \/ Head(rest) \in {"#", "mark"} \/ ~Has(rest, {"="}) THEN {}
  ELSE Cut(text, rest, Min({n \in DOMAIN rest : rest[n] = "="}), i)

AssignmentAt(text, i) == AssignmentIn(text, StripExport(TrimStart(Line(text, i))), i)

\* Every assignment, in order: the line after one that spans is the next to be read.
RECURSIVE ReadFrom(_, _)
ReadOn(text, i, found) ==
  IF found = {} THEN ReadFrom(text, i + 1)
  ELSE SetToSeq(found) \o ReadFrom(text, Max({a.last : a \in found}) + 1)
ReadFrom(text, i) == IF i > Len(text) THEN <<>> ELSE ReadOn(text, i, AssignmentAt(text, i))

Read(text) == ReadFrom(text, 1)

Inside(assignments, i) ==
  \E n \in DOMAIN assignments : i \in assignments[n].first .. assignments[n].last

Redacted(text) ==
  UNION {MarkerOf(Line(text, i)) : i \in {n \in DOMAIN text : ~Inside(Read(text), n)}}

\* The last assignment of a key is its value.
Ending(of) == IF of = <<>> THEN {} ELSE {[value |-> Last(of).value, literal |-> Last(of).literal]}
Entry(text, key) == Ending(SelectSeq(Read(text), LAMBDA a : a.key = key))

-----------------------------------------------------------------------------
(* Writing *)

IsExpression(value) == Has(value, {"$"}) \/ value = <<"call">>

\* Mutant: what would be computed is quoted like any other text.
OnlyEscapes(value) == Has(value, {"dq", "bs"})

\* Single quotes alone read these back as they are, and never computed.
OnlySingle(value) == Has(value, {"dq", "bs", "$"}) \/ IsExpression(value)

\* A value in the narrowest form every reader decodes the same way, or a refusal.
Quote(value) ==
  CASE Has(value, {"\r"}) \/ (Has(value, {"nl"}) /\ Has(value, {"dq", "bs"})) -> {}
    [] OnlySingle(value) ->
         IF Has(value, {"sq"}) THEN {} ELSE {<<"sq">> \o value \o <<"sq">>}
    [] Has(value, {"nl"}) ->
         {<<"dq">> \o FlattenSeq([i \in DOMAIN value |->
            IF value[i] = "nl" THEN <<"bs", "n">> ELSE <<value[i]>>]) \o <<"dq">>}
    [] Has(value, {"#", "sq", "bt", " ", "begin", "mark"}) -> {<<"dq">> \o value \o <<"dq">>}
    [] OTHER -> {value}

\* The line breaks of a value written as they are end its line.
Physical(line) ==
  LET breaks == SetToSortSeq({i \in DOMAIN line : line[i] = "nl"}, <)
      cuts   == <<0>> \o breaks \o <<Len(line) + 1>>
  IN [n \in 1 .. (Len(cuts) - 1) |-> SubSeq(line, cuts[n] + 1, cuts[n + 1] - 1)]

Written(key, value) == {Physical(<<key, "=">> \o quoted) : quoted \in Quote(value)}

\* The text's lines, its last line break taken off.
Body(text) == IF Last(text) = <<>> THEN Front(text) ELSE text

\* The lines of each assignment of the key and of each marker that names it, in order.
SpansOf(text, key, all) ==
  {<<all[n].first, Min({all[n].last, Len(Body(text))})>> :
     n \in {m \in DOMAIN all : all[m].key = key}}
  \cup {<<i, i>> : i \in {n \in DOMAIN Body(text) : MarkerOf(text[n]) = {key} /\ ~Inside(all, n)}}

Spans(text, key) == SpansOf(text, key, Read(text))

Without(lines, spans) ==
  LET gone == UNION {s[1] .. s[2] : s \in spans}
      kept == SetToSortSeq(DOMAIN lines \ gone, <)
  IN [n \in DOMAIN kept |-> lines[kept[n]]]

PopEmpty(lines) ==
  LET full == {i \in DOMAIN lines : lines[i] # <<>>}
  IN IF full = {} THEN <<>> ELSE SubSeq(lines, 1, Max(full))

Join(lines) == Append(lines, <<>>)

\* Where the key was last set is where it is set; the rest of its lines go.
PutAt(lines, spans, line) ==
  LET lastOf == CHOOSE s \in spans : \A t \in spans : t[1] <= s[1] IN
  IF spans = {} THEN Join(PopEmpty(lines) \o line)
  ELSE Join(Without(SubSeq(lines, 1, lastOf[1] - 1), spans \ {lastOf}) \o line
            \o SubSeq(lines, lastOf[2] + 1, Len(lines)))

Upsert(text, key, line) == PutAt(Body(text), Spans(text, key), line)

DropSpans(text, spans) == IF spans = {} THEN text ELSE Join(Without(Body(text), spans))
Dropped(text, key) == DropSpans(text, Spans(text, key))

-----------------------------------------------------------------------------
None == [edit |-> "none", key |-> "none", value |-> <<>>, count |-> 0]

Init == file \in Texts /\ before = file /\ last = None

Edited(edit, key, value, text) ==
  /\ last.count < MaxEdits
  /\ file' = text /\ before' = file
  /\ last' = [edit |-> edit, key |-> key, value |-> value, count |-> last.count + 1]

Set(key, value) ==
  \E line \in Written(key, value) : Edited("set", key, value, Upsert(file, key, line))

Unset(key) == Edited("unset", key, <<>>, Dropped(file, key))

\* `pull` writes the whole file: the keys it was given, then a marker for each withheld.
Pull(key, value) ==
  \E line \in Written(key, value) :
    Edited("pull", key, value,
           Join(line \o SetToSeq({<<"mark", other>> : other \in Names \ {key}})))

Next ==
  \/ \E key \in Names : Unset(key)
  \/ \E key \in Names, value \in Values : Set(key, value) \/ Pull(key, value)

Spec == Init /\ [][Next]_vars

-----------------------------------------------------------------------------
\* A quote the file never closes reads on to its end, whatever is appended to it.
Unclosed(text) == \E n \in DOMAIN Read(text) : ~Read(text)[n].closed

\* What is set reads back as it was given, never computed; what is unset or withheld
\* has no value; and every other key keeps what it had, whatever the file held before:
\* quotes over several lines, repeats, markers, a key's name inside another's value
\* (write.rs:98-177, read.rs:66-170).
EditReadsBack ==
  LET others == Names \ {last.key} IN
  last.edit # "none" /\ ~Unclosed(before) =>
    /\ last.edit \in {"set", "pull"} =>
         /\ {e.value : e \in Entry(file, last.key)} = {last.value}
         /\ \A e \in Entry(file, last.key) : IsExpression(last.value) => e.literal
         /\ last.key \notin Redacted(file)
    /\ last.edit = "unset" =>
         Entry(file, last.key) = {} /\ last.key \notin Redacted(file)
    /\ \A key \in others :
         IF last.edit = "pull" THEN Entry(file, key) = {} /\ key \in Redacted(file)
         ELSE Entry(file, key) = Entry(before, key) /\ (key \in Redacted(file) <=> key \in Redacted(before))
=============================================================================
