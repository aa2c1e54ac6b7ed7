----------------------------- MODULE JsonParts ------------------------------
(***************************************************************************)
(* `json()` (penv-schema functions/json.rs): a value read at a path of a   *)
(* document, or some paths written in it.  A path makes what it crosses    *)
(* and lacks: an object for a key, an array filled with nulls for an index.*)
(*                                                                         *)
(* A document is a tree of nodes [is, text, kids]; the kids of an object   *)
(* and of an array are sequences of [name, value].  A name is a sequence   *)
(* of characters: a path spells one bare (`a.b` is two) or in quotes       *)
(* (`["a.b"]` is one).                                                     *)
(***************************************************************************)
EXTENDS Integers, Sequences, SequencesExt

CONSTANTS
  Documents,   \* the documents a key may hold
  Options,     \* what one call may write: sequences of [path, text, quoted, raw, doc]
  Paths,       \* the paths, sequences of characters
  Numbers,     \* the numbers, by the character that writes one
  NumberTexts, \* the texts that are numbers
  MaxIndex,    \* the largest index that is written
  MaxCalls     \* bound on the calls that write

VARIABLES
  doc,     \* the document
  wrote,   \* what the last call wrote
  calls

vars == <<doc, wrote, calls>>

Node(is, text, kids) == [is |-> is, text |-> text, kids |-> kids]
Null == Node("null", "", <<>>)
Missing == Node("missing", "", <<>>)

-----------------------------------------------------------------------------
(* Paths.                                                                  *)

KeySeg(name) == [is |-> "key", name |-> name, at |-> 0]
IndexSeg(digit) == [is |-> "index", name |-> <<>>, at |-> Numbers[digit]]
BadPath == <<[is |-> "bad", name |-> <<>>, at |-> 0]>>

\* Where the first of these characters stands, from a place on; past the end if nowhere.
NextOf(path, from, cs) ==
  LET at == SelectInSubSeq(path, from, Len(path), LAMBDA c : c \in cs)
  IN IF at = 0 THEN Len(path) + 1 ELSE at

RECURSIVE Segs(_, _, _)
Segs(path, from, found) ==
  LET here == path[from]
      text(to) == SubSeq(path, from, to - 1)
      closed == NextOf(path, from, {"]"})
      quoted == NextOf(path, from + 2, {"'"})
      \* What follows a bracket.
      goOn(next, seg) ==
        IF next <= Len(path) /\ path[next] \notin {".", "["} THEN BadPath
        ELSE Segs(path, next, Append(found, seg))
  IN IF from > Len(path) THEN IF found = <<>> THEN BadPath ELSE found
     ELSE IF here = "[" /\ from < Len(path) /\ path[from + 1] = "'"
       THEN IF quoted >= Len(path) \/ path[quoted + 1] # "]" THEN BadPath
            ELSE goOn(quoted + 2, KeySeg(SubSeq(path, from + 2, quoted - 1)))
     ELSE IF here = "["
       THEN IF closed # from + 2 \/ closed > Len(path) \/ path[from + 1] \notin DOMAIN Numbers THEN BadPath
            ELSE goOn(closed + 1, IndexSeg(path[from + 1]))
     ELSE IF here = "." /\ found # <<>> /\ from < Len(path) /\ path[from + 1] \notin {".", "["}
       THEN Segs(path, from + 1, found)
     ELSE LET end == NextOf(path, from, {".", "["})
          IN IF end = from THEN BadPath ELSE Segs(path, end, Append(found, KeySeg(text(end))))

Parsed == [path \in Paths |-> Segs(path, 1, <<>>)]
ParsePath(path) == Parsed[path]

-----------------------------------------------------------------------------
(* Reading at a path.                                                      *)

Named(node, name) == SelectInSeq(node.kids, LAMBDA kid : kid.name = name)

\* The node one segment leads to.
Step(node, seg) ==
  CASE node.is = "object" /\ seg.is = "key" /\ Named(node, seg.name) # 0 ->
         node.kids[Named(node, seg.name)].value
    [] node.is = "array" /\ seg.is = "index" /\ seg.at < Len(node.kids) ->
         node.kids[seg.at + 1].value
    [] OTHER -> Missing

Get(node, segs) == FoldLeft(Step, node, segs)

\* What a read answers: a string's own text, the document of anything else, and
\* nothing for a null.
Answer(node) ==
  CASE node.is = "null" -> Missing
    [] node.is \in {"string", "number", "bool"} -> Node("text", node.text, <<>>)
    [] OTHER -> node

-----------------------------------------------------------------------------
(* Writing at one.                                                         *)

Refused == Node("refused", "", <<>>)

Typed(text, quoted) ==
  CASE quoted -> Node("string", text, <<>>)
    [] ~ quoted /\ text \in {"true", "false"} -> Node("bool", text, <<>>)
    [] ~ quoted /\ text \in NumberTexts -> Node("number", text, <<>>)
    [] OTHER -> Node("string", text, <<>>)

Filler == [name |-> <<>>, value |-> Null]

\* A null that is crossed becomes what the segment needs.
Opened(node, seg) ==
  IF node.is # "null" THEN node
  ELSE IF seg.is = "key" THEN Node("object", "", <<>>) ELSE Node("array", "", <<>>)

\* The node with a place for the segment: a key is added last, an array filled.
WithPlace(node, seg) ==
  CASE seg.is = "key" /\ Named(node, seg.name) = 0 ->
         [node EXCEPT !.kids = Append(@, [name |-> seg.name, value |-> Null])]
    [] seg.is = "index" /\ Len(node.kids) <= seg.at ->
         [node EXCEPT !.kids = @ \o [i \in 1 .. seg.at + 1 - Len(@) |-> Filler]]
    [] OTHER -> node

Fits(node, seg) ==
  \/ node.is = "object" /\ seg.is = "key"
  \/ node.is = "array" /\ seg.is = "index" /\ seg.at <= MaxIndex

RECURSIVE Put(_, _, _)
Put(node, segs, new) ==
  IF segs = <<>> THEN new
  ELSE LET seg == Head(segs)
           placed == WithPlace(Opened(node, seg), seg)
           at == IF seg.is = "key" THEN Named(placed, seg.name) ELSE seg.at + 1
           inner == Put(placed.kids[at].value, Tail(segs), new)
       IN IF ~ Fits(Opened(node, seg), seg) \/ inner = Refused THEN Refused
          ELSE [placed EXCEPT !.kids[at].value = inner]

\* One option over what the options before it left.
Set(node, option) ==
  IF node = Refused \/ ParsePath(option.path) = BadPath THEN Refused
  ELSE Put(node, ParsePath(option.path),
           IF option.raw THEN option.doc ELSE Typed(option.text, option.quoted))

-----------------------------------------------------------------------------
Init == doc \in Documents /\ wrote = <<>> /\ calls = 0

\* A call with options answers the document with all of them written, or nothing
\* at all.  The key that holds the call is the document of the next.
Write ==
  \E options \in Options :
    LET written == FoldLeft(Set, doc, options) IN
    /\ calls < MaxCalls
    /\ written # Refused
    /\ doc' = written
    /\ wrote' = options
    /\ calls' = calls + 1

Next == Write

Spec == Init /\ [][Next]_vars

-----------------------------------------------------------------------------
TypeOK ==
  /\ doc.is \in {"object", "array", "null", "string", "number", "bool"}
  /\ wrote \in Options \cup {<<>>}
  /\ calls \in 0 .. MaxCalls

\* Two paths cross when one leads to the place of the other or through it.
Crosses(p, q) ==
  IsPrefix(ParsePath(p), ParsePath(q)) \/ IsPrefix(ParsePath(q), ParsePath(p))

\* A written path reads back as it was given, whatever it had to make on the
\* way, and a path that crosses no written one reads as before, a place an array
\* was filled with included: a document written into an environment never loses
\* a field the call did not name.
FieldsStep ==
  \A path \in {p \in Paths : ParsePath(p) # BadPath} :
    LET crossing == SelectSeq(wrote', LAMBDA o : Crosses(o.path, path))
        last == crossing[Len(crossing)]
    IN /\ crossing = <<>> => Answer(Get(doc', ParsePath(path))) = Answer(Get(doc, ParsePath(path)))
       /\ (crossing # <<>> /\ ParsePath(last.path) = ParsePath(path)) =>
            Answer(Get(doc', ParsePath(path))) =
              Answer(IF last.raw THEN last.doc ELSE Typed(last.text, last.quoted))

FieldsReadBack == [][FieldsStep]_vars
=============================================================================
