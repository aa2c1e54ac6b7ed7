------------------------------ MODULE UrlParts ------------------------------
(***************************************************************************)
(* `url()` (penv-schema functions/url.rs): one part of a URL read, or some *)
(* of its parts written, in a text taken apart by hand.  What a part may   *)
(* hold and which characters are escaped decides whether a written URL     *)
(* comes apart again where it was put together.                            *)
(*                                                                         *)
(* A text is a sequence of characters, an escaped one being a character of *)
(* its own ("%@"); the scheme and its `://` stand before the text and are  *)
(* left out.  An optional part is a sequence of at most one.               *)
(***************************************************************************)
EXTENDS Integers, Sequences, SequencesExt

CONSTANTS
  Subjects,   \* the texts a value may hold behind its scheme
  Writes,     \* what a call may write: sequences of [part, value]
  Queries,    \* the names of query parts, each a text
  Digits,     \* the characters that are digits
  Plain,      \* the characters encode leaves alone, the digits among them
  Special,    \* the others
  MaxPort,    \* how many digits a port may have where it is read
  MaxCalls    \* bound on the calls that write, one over the other

VARIABLES
  text,    \* the value
  wrote,   \* what the last call wrote
  calls    \* how many there were

vars == <<text, wrote, calls>>

Refused == [is |-> "refused", text |-> <<>>]
Value(t) == [is |-> "value", text |-> t]

-----------------------------------------------------------------------------
(* Escaping.                                                               *)

Esc(c) == "%" \o c
\* A mutant: a colon is kept.
EncodeLoosely(t) == [i \in DOMAIN t |-> IF t[i] \in Plain \cup {":", "@"} THEN t[i] ELSE Esc(t[i])]
Encode(t) == [i \in DOMAIN t |-> IF t[i] \in Plain THEN t[i] ELSE Esc(t[i])]
Decode(t) ==
  [i \in DOMAIN t |-> IF \E c \in Special : t[i] = Esc(c)
                        THEN CHOOSE c \in Special : t[i] = Esc(c) ELSE t[i]]

\* The characters escaped in a path: those that would end it.
PathText(t) ==
  LET kept == [i \in DOMAIN t |-> IF t[i] \in {"?", "#", " "} THEN Esc(t[i]) ELSE t[i]]
  IN IF t = <<>> \/ t[1] = "/" THEN kept ELSE <<"/">> \o kept

-----------------------------------------------------------------------------
(* A text taken apart.                                                     *)

FirstAt(t, c) == SelectInSeq(t, LAMBDA d : d = c)
LastAt(t, c) == SelectLastInSeq(t, LAMBDA d : d = c)
Upto(t, i) == SubSeq(t, 1, i - 1)
After(t, i) == SubSeq(t, i + 1, Len(t))
\* split_once: what stands before the first c, and what stands behind it.
Before(t, c) == IF FirstAt(t, c) = 0 THEN t ELSE Upto(t, FirstAt(t, c))
Behind(t, c) == IF FirstAt(t, c) = 0 THEN <<>> ELSE <<After(t, FirstAt(t, c))>>
\* split: the pieces between the cs.
Pieces(t, c) ==
  LET ends == SelectSeq([i \in 1 .. Len(t) + 1 |-> i], LAMBDA i : i = Len(t) + 1 \/ t[i] = c)
      from(k) == IF k = 1 THEN 1 ELSE ends[k - 1] + 1
  IN [k \in DOMAIN ends |-> SubSeq(t, from(k), ends[k] - 1)]

\* A port stands behind the last colon that no bracket follows.
SplitHost(t) ==
  LET colon == LastAt(t, ":") IN
  IF colon > LastAt(t, "]")
    THEN [name |-> Upto(t, colon), port |-> <<After(t, colon)>>]
    ELSE [name |-> t, port |-> <<>>]

Pair(t) == [name |-> Before(t, "="), value |-> Behind(t, "=")]

Parse(t) ==
  LET whole == Before(t, "#")
      rest == Before(whole, "?")
      slash == FirstAt(rest, "/")
      authority == IF slash = 0 THEN rest ELSE Upto(rest, slash)
      at == LastAt(authority, "@")
      userinfo == Upto(authority, at)
      query == Behind(whole, "?")
  IN [user |-> IF at = 0 THEN <<>> ELSE <<Before(userinfo, ":")>>,
      password |-> IF at = 0 THEN <<>> ELSE Behind(userinfo, ":"),
      hosts |-> LET names == Pieces(After(authority, at), ",")
                IN [i \in DOMAIN names |-> SplitHost(names[i])],
      path |-> IF slash = 0 THEN <<>> ELSE SubSeq(rest, slash, Len(rest)),
      query |-> IF query = <<>> THEN <<>>
                ELSE LET pairs == SelectSeq(Pieces(query[1], "&"), LAMBDA p : p # <<>>)
                     IN [i \in DOMAIN pairs |-> Pair(pairs[i])],
      fragment |-> Behind(t, "#")]

-----------------------------------------------------------------------------
(* and put together.                                                       *)

Led(c, option) == IF option = <<>> THEN <<>> ELSE <<c>> \o option[1]
Joined(pieces, c) == FoldLeft(LAMBDA out, p : IF out = <<>> THEN p ELSE out \o <<c>> \o p, <<>>, pieces)

Render(url) ==
  (IF url.user = <<>> /\ url.password = <<>> THEN <<>>
   ELSE FlattenSeq(url.user) \o Led(":", url.password) \o <<"@">>)
  \o Joined([i \in DOMAIN url.hosts |-> url.hosts[i].name \o Led(":", url.hosts[i].port)], ",")
  \o url.path
  \o (IF url.query = <<>> THEN <<>>
      ELSE <<"?">> \o Joined([i \in DOMAIN url.query |->
                               url.query[i].name \o Led("=", url.query[i].value)], "&"))
  \o Led("#", url.fragment)

-----------------------------------------------------------------------------
(* Reading one part.                                                       *)

IsNumber(t) == Len(t) \in 1 .. MaxPort /\ Range(t) \subseteq Digits

\* A raw character of a password may have split the text elsewhere.
Unambiguous(url) ==
  /\ ~ Contains(url.path \o FlattenSeq(url.fragment), "@")
  /\ \A i \in DOMAIN url.query :
       ~ Contains(url.query[i].name \o FlattenSeq(url.query[i].value), "@")
  /\ \A i \in DOMAIN url.hosts : url.hosts[i].port # <<>> => IsNumber(url.hosts[i].port[1])

Single(url) == Len(url.hosts) = 1

QueryAt(url, name) == SelectInSeq(url.query, LAMBDA p : p.name = name)

Authority == {"user", "password", "host", "port"}

\* A part is [is, name]: the name is that of a query part.
Read(t, part) ==
  LET url == Parse(t) IN
  IF \/ part.is \in Authority /\ ~ Unambiguous(url)
     \/ part.is \in {"host", "port"} /\ ~ Single(url)
    THEN Refused
    ELSE Value(CASE part.is = "user" -> Decode(FlattenSeq(url.user))
                 [] part.is = "password" -> Decode(FlattenSeq(url.password))
                 [] part.is = "host" -> url.hosts[1].name
                 [] part.is = "port" -> FlattenSeq(url.hosts[1].port)
                 [] part.is = "path" -> url.path
                 [] part.is = "query" ->
                      IF QueryAt(url, part.name) = 0 THEN <<>>
                      ELSE Decode(FlattenSeq(url.query[QueryAt(url, part.name)].value)))

-----------------------------------------------------------------------------
(* Writing some.                                                           *)

\* What a written port may be: a number of 16 bits, its leading zeros uncounted.
Fits(t) ==
  /\ t # <<>> /\ Range(t) \subseteq Digits
  /\ LET lead == SelectInSeq(t, LAMBDA c : c # "0") IN lead = 0 \/ Len(t) - lead < MaxPort

Accepted(url, part, value) ==
  CASE part.is = "host" -> Single(url) /\ value # <<>>
                           /\ Range(value) \cap {"/", "?", "#", "@", ",", " "} = {}
    [] part.is = "port" -> Single(url) /\ (value = <<>> \/ Fits(value))
    [] OTHER -> TRUE

Bracketed(t) == IF Contains(t, ":") /\ t[1] # "[" THEN <<"[">> \o t \o <<"]">> ELSE t

WithQuery(url, name, value) ==
  LET pair == [name |-> name, value |-> <<value>>]
      at == QueryAt(url, name)
  IN IF at = 0 THEN Append(url.query, pair) ELSE [url.query EXCEPT ![at] = pair]

Put(url, part, value) ==
  CASE part.is = "user" -> [url EXCEPT !.user = <<Encode(value)>>]
    [] part.is = "password" -> [url EXCEPT !.password = <<Encode(value)>>]
    [] part.is = "host" -> [url EXCEPT !.hosts[1].name = Bracketed(value)]
    [] part.is = "port" -> [url EXCEPT !.hosts[1].port = IF value = <<>> THEN <<>> ELSE <<value>>]
    [] part.is = "path" -> [url EXCEPT !.path = PathText(value)]
    [] part.is = "query" -> [url EXCEPT !.query = WithQuery(url, part.name, Encode(value))]

Written(t, options) ==
  FoldLeft(LAMBDA url, o : Put(url, o.part, o.value), Parse(t), options)

-----------------------------------------------------------------------------
Init == text \in Subjects /\ wrote = <<>> /\ calls = 0

\* One call that writes, over a key's value or over the text another call
\* wrote.  A refused option refuses the call.
Write ==
  \E options \in Writes :
    /\ calls < MaxCalls
    /\ \A i \in DOMAIN options : Accepted(Parse(text), options[i].part, options[i].value)
    /\ text' = Render(Written(text, options))
    /\ wrote' = options
    /\ calls' = calls + 1

Next == Write

Spec == Init /\ [][Next]_vars

-----------------------------------------------------------------------------
TypeOK ==
  /\ text \in Seq(Plain \cup Special \cup {Esc(c) : c \in Special})
  /\ wrote \in Writes \cup {<<>>}
  /\ calls \in 0 .. MaxCalls

Parts == [is : Authority \cup {"path"}, name : {<<>>}] \cup [is : {"query"}, name : Queries]

\* What reading a part answers when the part was given this value.
Shown(part, value) ==
  CASE part.is = "host" -> Bracketed(value) [] part.is = "path" -> PathText(value) [] OTHER -> value

\* What a call may write although it does not come apart again: an `@` in the
\* path, a port with more digits than are read, and an address in brackets with
\* something behind them.
Unreadable(o) ==
  \/ o.part.is = "path" /\ Contains(o.value, "@")
  \/ o.part.is = "port" /\ Len(o.value) > MaxPort
  \/ o.part.is = "host" /\ Contains(o.value, "[") /\ o.value[Len(o.value)] # "]"

\* A written part reads back as it was given, whatever characters it holds, and
\* every part the call did not name reads as before: a password with an `@`, a
\* `:` or a `/` never moves the host the program connects to.
PartsStep ==
  (\A i \in DOMAIN wrote' : ~ Unreadable(wrote'[i])) =>
    \A part \in Parts :
      LET given == SelectSeq(wrote', LAMBDA o : o.part = part)
          before == Read(text, part)
          after == Read(text', part)
      IN IF given # <<>>
           THEN after \in {Value(Shown(part, given[Len(given)].value)), Refused}
                /\ (after = Refused => before = Refused)
           ELSE after = before \/ before = Refused

PartsReadBack == [][PartsStep]_vars
=============================================================================
