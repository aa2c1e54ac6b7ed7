------------------------------ MODULE MCTexts ------------------------------
(***************************************************************************)
(* The places where penv takes a text apart or rewrites it: Masker on the  *)
(* command's output and SealedRelay on what a sealed service answers, both *)
(* in reads that are cut anywhere; the edits of a value file (DotenvText)  *)
(* and of the schema (SchemaFile); what a harness sends the hook           *)
(* (AgentHook); the functions url() and json() (UrlParts, JsonParts); and  *)
(* how values are computed from one another (Resolution).                  *)
(* They share nothing, so a behaviour is of one of them, its topic, and    *)
(* the variables v1..v9 are that one's, in the order it declares them.     *)
(***************************************************************************)
EXTENDS Integers, Sequences, SequencesExt, FiniteSets, TLC

VARIABLES topic, v1, v2, v3, v4, v5, v6, v7, v8, v9

slots == <<v1, v2, v3, v4, v5, v6, v7, v8, v9>>

-----------------------------------------------------------------------------
(* Masker over two letters and a line break.  The patterns overlap         *)
(* themselves and each other: a long one, one that is its prefix, one that *)
(* starts inside it, and a wrapped one as base64 has.                      *)

Bare(bytes) == [bytes |-> bytes, wrapped |-> FALSE]
Wrapped(bytes) == [bytes |-> bytes, wrapped |-> TRUE]

MaskPatterns ==
  << Bare(<<"a", "b", "a", "b">>), Wrapped(<<"b", "b", "a">>), Bare(<<"a", "b">>) >>

Mask == INSTANCE Masker WITH
  Bytes <- {"a", "b", "n"}, Breaks <- {"n"}, Mark <- "*", MaxChunk <- 3, MaxInput <- 7,
  Patterns <- MaskPatterns, input <- v1, held <- v2, maskedUntil <- v3, out <- v4,
  ended <- v5

ASSUME MaskAssumption == Mask!PatternAssumption

-----------------------------------------------------------------------------
(* SealedRelay over two letters.  One value starts inside the other and    *)
(* one is the other's beginning, so that a cut leaves every kind of tail;  *)
(* what replaces the one is shorter and the other longer than it.          *)

Blob(n)     == [is |-> "blob", n |-> n]
End         == [is |-> "crlf", n |-> 0]
Text(bytes) == [i \in DOMAIN bytes |-> [is |-> "byte", b |-> bytes[i]]]

MCTo == (<<"a", "b">> :> <<"x">>) @@ (<<"a", "b", "a">> :> <<"y", "y", "y", "y">>)
        @@ (<<"b", "b">> :> <<"z", "z">>)

MCBodies == BoundedSeq({"a", "b"}, 5)

String(text) == <<Blob(Len(text)), End>> \o Text(text) \o <<End>>
Line(text) == Text(text) \o <<End>>
Short(text) == <<Blob(Len(text) - 1), End>> \o Text(text) \o <<End>>

Elements ==
  {String(t) : t \in {<<"a", "b">>, <<"b", "a", "b", "a">>, <<"a">>}}
  \cup {Line(t) : t \in {<<"a", "b">>, <<"a">>, <<"b", "b", "a">>}}
  \cup {Short(<<"a", "b", "b">>), <<Blob(9), End>> \o Text(<<"a", "b", "a">>) \o <<End>>}

MCReplies ==
  {first \o second : first, second \in Elements} \cup {Text(<<"a", "b", "a", "b", "b", "b", "a">>)}

Frame(op, fin, text) ==
  [is |-> "frame", op |-> op, fin |-> fin, rsv |-> FALSE, closing |-> FALSE, text |-> Text(text)]
Ping == Frame("control", TRUE, <<"a", "b">>)
Closing == [Ping EXCEPT !.closing = TRUE]
Reserved == Frame("reserved", TRUE, <<"a", "b">>)
Compressed == [Frame("data", TRUE, <<"a", "b">>) EXCEPT !.rsv = TRUE]

Cuttings == {<<"a">>, <<"b">>, <<"a", "b", "b">>}

MCFrames ==
  {<<Frame("data", TRUE, t)>> \o between
     \o <<Frame("data", FALSE, p), Frame("continue", FALSE, q)>> \o between
     \o <<Frame("continue", TRUE, r)>> \o end :
       t, p, q, r \in Cuttings, between \in {<<>>, <<Ping>>, <<Reserved>>},
       end \in {<<>>, <<Closing, Ping>>, <<Compressed>>, <<Frame("continue", TRUE, <<"a">>)>>,
                <<Frame("data", FALSE, <<"a">>)>>,
                <<Frame("reserved", FALSE, <<"a">>), Frame("continue", TRUE, <<"b">>)>>}}

Relay == INSTANCE SealedRelay WITH
  Letters <- {"a", "b", "x", "y", "z"}, To <- MCTo, Buffer <- 2, MaxBody <- 4,
  MaxLine <- 5, MaxBlob <- 8, MaxRead <- 3, Bodies <- MCBodies, Replies <- MCReplies,
  Frames <- MCFrames, job <- v1, wire <- v2, at <- v3, pending <- v4, parsing <- v5,
  left <- v6, told <- v7, out <- v8, pc <- v9

ASSUME RelayAssumption == Relay!SwapAssumption

-----------------------------------------------------------------------------
(* The others, over the inputs of their own modules.                       *)

\* DotenvText over two keys: lines with a quote or a PEM block that is closed, closed
\* further down or never, comments, markers, an export and a carriage return; and
\* values that need each way of quoting.
Quote == "dq"
DotenvFew ==
  {<<>>, <<"A", "=", "x">>, <<"A", "=", Quote, "B">>, <<"B", "=", "#", Quote, "x">>,
   <<"mark", "A">>, <<"B", "=", "sq", "x">>}
DotenvLines ==
  DotenvFew \cup
  {<<"export", "B", " ", "=", " ", "x", " ", "#", "sq">>, <<"A", "=", "begin">>,
   <<"end", "\r">>, <<"B", "=", Quote, "bs", Quote>>, <<"mark", "B", "\r">>}
DotenvTexts == (BoundedSeq(DotenvLines, 2) \ {<<>>}) \cup [1 .. 3 -> DotenvFew]
DotenvValues ==
  {<<>>, <<"x">>, <<"#">>, <<"sq">>, <<"bt">>, <<Quote>>, <<"call">>, <<"bs", "n">>,
   <<"x", " ">>, <<"begin", "nl", "x">>, <<"nl", "A", "=", "$">>, <<"$", "nl", Quote>>,
   <<"sq", "$">>}
Dotenv == INSTANCE DotenvText WITH
  Names <- {"A", "B"}, Texts <- DotenvTexts, Values <- DotenvValues, MaxEdits <- 1,
  file <- v1, before <- v2, last <- v3

SchemaIn == INSTANCE MCSchemaFile WITH
  Files <- {}, Drafts <- {}, NewKeys <- {}, Addresses <- {}, Spaced <- {},
  Equated <- {}, Expressions <- {}, Cuts <- {}, Hosts <- {}, Spans <- {},
  PublicNames <- {}, CredentialNames <- {}, Dull <- {}, MaxCommands <- {}, file <- v1,
  before <- v2, did <- v3
SchemaFiles == SchemaIn!MCFiles
SchemaDrafts == SchemaIn!MCDrafts
SchemaNewKeys == SchemaIn!MCNew
SchemaCuts == SchemaIn!MCCuts
Schema == INSTANCE SchemaFile WITH
  Files <- SchemaFiles, Drafts <- SchemaDrafts, NewKeys <- SchemaNewKeys,
  Addresses <- {"acme/api", "acme/web"}, Spaced <- {"two words"},
  Equated <- {"a=b", "isInt=true", "minLength=1"},
  Expressions <- {"$A", "$A #x", "url($A, host)"}, Cuts <- SchemaCuts,
  Hosts <- {"a.com", "*.b.com"}, Spans <- {"90d", "1y"},
  PublicNames <- {"PUBLIC_A", "PUBLIC_D"}, CredentialNames <- {"API_KEY"},
  Dull <- {"b"}, MaxCommands <- 1, file <- v1, before <- v2, did <- v3

HookIn == INSTANCE MCAgentHook WITH
  Payloads <- {}, Families <- {}, ValueFiles <- {}, Patterns <- {}, FileNames <- {},
  DEPTH <- {}, payload <- v1, family <- v2, pattern <- v3, answer <- v4
HookPayloads == HookIn!MCPayloads
HookPatterns == HookIn!MCPatterns
HookFileNames == HookIn!MCNames
Hook == INSTANCE AgentHook WITH
  Payloads <- HookPayloads, Families <- {"claude-code", "cursor", "generic"},
  ValueFiles <- {"values"}, Patterns <- HookPatterns, FileNames <- HookFileNames,
  DEPTH <- 4, payload <- v1, family <- v2, pattern <- v3, answer <- v4

\* UrlParts over a URL with a password, an address in brackets, several hosts, a raw
\* password that splits the text elsewhere, and parts with every character that means
\* something in one.
UrlDigits == {"0", "1"}
UrlPlain == {"a", "b", "x"} \cup UrlDigits
UrlSpecial == {"@", ":", "/", "?", "#", "&", "=", "[", "]", ",", " ", "%"}
UrlQueries == {<<"x">>}

UrlSubjects == {
  <<"a", ":", "b", "@", "a", ":", "1", "/", "b", "?", "x", "=", "a", "#", "a">>,
  <<"[", ":", "1", "]", ":", "1", "?", "x", "&", "a", "=", "b">>,
  <<"a", "@", "a", ",", "b", ":", "1", "/", "a">>,
  <<"a", ":", "/", "b", "@", "a">>,
  <<"a", "#", "@">> }

UrlOne(is, values) == {<<[part |-> [is |-> is, name |-> <<>>], value |-> v]>> : v \in values}

UrlOdd == {<<"a", c>> : c \in {"@", ":", "/", "#", "&", " "}} \cup {<<>>, <<":", "1">>}
UrlSingles ==
  UrlOne("user", UrlOdd) \cup UrlOne("password", UrlOdd)
  \cup UrlOne("host", UrlOdd \cup {<<"[", ":", "1", "]">>}) \cup UrlOne("path", UrlOdd)
  \cup UrlOne("port", {<<>>, <<"1">>, <<"0", "0", "1">>, <<"1", "1", "1">>, <<"a">>})
  \cup {<<[part |-> [is |-> "query", name |-> q], value |-> v]>> : q \in UrlQueries, v \in UrlOdd}
UrlHosts == UrlOne("host", {<<"b">>, <<":", "1">>}) \cup UrlOne("path", {<<"a", "?">>})
UrlWrites ==
  UrlSingles \cup {a \o b : a \in UrlOne("password", {<<"@", "a">>}), b \in UrlHosts}
Url == INSTANCE UrlParts WITH
  Subjects <- UrlSubjects, Writes <- UrlWrites, Queries <- UrlQueries,
  Digits <- UrlDigits, Plain <- UrlPlain, Special <- UrlSpecial, MaxPort <- 2,
  MaxCalls <- 2, text <- v1, wrote <- v2, calls <- v3

JsonIn == INSTANCE MCJsonParts WITH
  Documents <- {}, Options <- {}, Paths <- {}, Numbers <- {}, NumberTexts <- {},
  MaxIndex <- {}, MaxCalls <- {}, doc <- v1, wrote <- v2, calls <- v3
JsonDocuments == JsonIn!MCDocuments
JsonOptions == JsonIn!MCOptions
JsonPaths == JsonIn!MCPaths
JsonNumbers == JsonIn!MCNumbers
JsonNumberTexts == JsonIn!MCNumberTexts
Json == INSTANCE JsonParts WITH
  Documents <- JsonDocuments, Options <- JsonOptions, Paths <- JsonPaths,
  Numbers <- JsonNumbers, NumberTexts <- JsonNumberTexts, MaxIndex <- 1, MaxCalls <- 2,
  doc <- v1, wrote <- v2, calls <- v3

\* Resolution over the projects of MCResolution, whose expressions are its own and go
\* back into it as constants.
CalcWays == INSTANCE MCResolution WITH
  Projects <- {}, Sensitive <- {}, PublicParts <- {}, Here <- "dev", ExprsA <- {},
  ExprsB <- {}, ExprsC <- {}, Depths <- {}, project <- v1, fetched <- v2, st <- v3,
  phase <- v4
CalcA == CalcWays!MCExprsA
CalcB == CalcWays!MCExprsB
CalcC == CalcWays!MCExprsC
CalcIn == INSTANCE MCResolution WITH
  Projects <- {}, Sensitive <- {"DB"}, PublicParts <- {"host"}, Here <- "dev",
  ExprsA <- CalcA, ExprsB <- CalcB, ExprsC <- CalcC, Depths <- {2, 9},
  project <- v1, fetched <- v2, st <- v3, phase <- v4
CalcProjects == CalcIn!MCProjects
Calc == INSTANCE Resolution WITH
  Projects <- CalcProjects, Sensitive <- {"DB"}, PublicParts <- {"host"}, Here <- "dev",
  project <- v1, fetched <- v2, st <- v3, phase <- v4

-----------------------------------------------------------------------------
Init ==
  \/ /\ topic = "masked" /\ Mask!Init
     /\ v6 = 0 /\ v7 = 0 /\ v8 = 0 /\ v9 = 0
  \/ /\ topic = "relayed" /\ Relay!Init
  \/ /\ topic = "dotenv" /\ Dotenv!Init
     /\ v4 = 0 /\ v5 = 0 /\ v6 = 0 /\ v7 = 0 /\ v8 = 0 /\ v9 = 0
  \/ /\ topic = "schema" /\ Schema!Init
     /\ v4 = 0 /\ v5 = 0 /\ v6 = 0 /\ v7 = 0 /\ v8 = 0 /\ v9 = 0
  \/ /\ topic = "hook" /\ Hook!Init
     /\ v5 = 0 /\ v6 = 0 /\ v7 = 0 /\ v8 = 0 /\ v9 = 0
  \/ /\ topic = "url" /\ Url!Init
     /\ v4 = 0 /\ v5 = 0 /\ v6 = 0 /\ v7 = 0 /\ v8 = 0 /\ v9 = 0
  \/ /\ topic = "json" /\ Json!Init
     /\ v4 = 0 /\ v5 = 0 /\ v6 = 0 /\ v7 = 0 /\ v8 = 0 /\ v9 = 0
  \/ /\ topic = "values" /\ Calc!Init
     /\ v5 = 0 /\ v6 = 0 /\ v7 = 0 /\ v8 = 0 /\ v9 = 0

Next ==
  /\ UNCHANGED topic
  /\ \/ topic = "masked" /\ Mask!Next /\ UNCHANGED <<v6, v7, v8, v9>>
     \/ topic = "relayed" /\ Relay!Next
     \/ topic = "dotenv" /\ Dotenv!Next /\ UNCHANGED <<v4, v5, v6, v7, v8, v9>>
     \/ topic = "schema" /\ Schema!Next /\ UNCHANGED <<v4, v5, v6, v7, v8, v9>>
     \/ topic = "hook" /\ Hook!Next /\ UNCHANGED <<v5, v6, v7, v8, v9>>
     \/ topic = "url" /\ Url!Next /\ UNCHANGED <<v4, v5, v6, v7, v8, v9>>
     \/ topic = "json" /\ Json!Next /\ UNCHANGED <<v4, v5, v6, v7, v8, v9>>
     \/ topic = "values" /\ Calc!Next /\ UNCHANGED <<v5, v6, v7, v8, v9>>

Spec == Init /\ [][Next]_<<topic, slots>>

-----------------------------------------------------------------------------
\* Masker's: whatever the cuts, what goes out is the whole stream scrubbed at once,
\* and only bytes that could still grow into a secret are held back
\* (penv-mask lib.rs:109-137).
CutsDoNotShow == topic = "masked" => Mask!CutsDoNotShow /\ Mask!HeldCouldGrow

\* SealedRelay's: whatever the cuts, every value is swapped and nothing else changes,
\* and a body the server cut short never looks whole (sealed/http.rs:393-543).
SwappedWhole == topic = "relayed" => Relay!SwappedWhole /\ Relay!CutIsSeen

\* DotenvText's: what is set reads back as it was given and every other key keeps what
\* it had, whatever the file held before (write.rs:98-177, read.rs:66-170).
EditReadsBack == topic = "dotenv" => Dotenv!EditReadsBack

\* SchemaFile's: what penv writes into a schema reads back as what was meant, and what an
\* editor shows of a key is what the parser reads of it (render.rs:5, editor.rs:1287-1349).
SchemaReadsBack == topic = "schema" => Schema!WritesReadBack /\ Schema!EditorAgrees

\* AgentHook's: a value file is refused wherever the harness names it, in any order and
\* behind any shell (hook.rs:148-186, 219-330).
HookHolds == topic = "hook" => Hook!HookHolds

\* Resolution's: a value that carries something sensitive belongs to a key that is
\* marked, a sealed command gets placeholders, and computed hosts carry nothing hidden
\* (resolve.rs:184-185, 483-600, source.rs:646-665, sealed/run.rs:36-37).
HiddenIsMarked ==
  topic = "values" =>
    Calc!HiddenIsMarked /\ Calc!SealedGetsPlaceholders /\ Calc!HostsHideNothing

\* Resolution's: what a key comes to does not depend on what was computed before it
\* (resolve.rs:317-425).
OrderDoesNotMatter == topic = "values" => Calc!OrderDoesNotMatter

\* UrlParts' and JsonParts': what a call writes into a URL or a document reads back as it
\* was given, and every part or path it does not write reads as before, so no character
\* of a password moves the host (url.rs:178-325, json.rs:427-539).
CallsReadBack ==
  [][(topic = "url" => Url!PartsStep) /\ (topic = "json" => Json!FieldsStep)]_<<topic, slots>>
=============================================================================
