------------------------------- MODULE Masker -------------------------------
(***************************************************************************)
(* The streaming scrubber of penv-mask: bytes arrive in chunks cut         *)
(* anywhere, every whole pattern is replaced, and only bytes that could    *)
(* still grow into a pattern are held back.                                *)
(*                                                                         *)
(* A pattern is one form of one secret, longest first; which forms a       *)
(* secret takes (base64, hex, JSON) is abstracted to the patterns given.   *)
(* A replacement is one mark.  The lookup by first byte is left out.       *)
(***************************************************************************)
EXTENDS Naturals, Sequences, SequencesExt, FiniteSetsExt

CONSTANTS
  Patterns,  \* the forms, longest first: a sequence of [bytes, wrapped]
  Bytes,     \* the bytes a child may write
  Breaks,    \* the bytes among them that are line breaks
  Mark,      \* what replaces a match
  MaxChunk,  \* bound: bytes in one read
  MaxInput   \* bound: bytes a child writes

\* What the constants are taken to be; the runs assume it.
PatternAssumption ==
  /\ \A i \in DOMAIN Patterns : Patterns[i].bytes # <<>>
  /\ \A i, j \in DOMAIN Patterns : i < j => Len(Patterns[i].bytes) >= Len(Patterns[j].bytes)
  /\ Mark \notin Bytes

VARIABLES
  input,        \* history: everything fed
  held,         \* bytes not decided yet
  maskedUntil,  \* how many of them a replacement already covers
  out,          \* what was written
  ended         \* TRUE once the stream ended

vars == <<input, held, maskedUntil, out, ended>>

Longest == IF Patterns = <<>> THEN 0 ELSE Len(Patterns[1].bytes)

-----------------------------------------------------------------------------
(* Matching at the head of a sequence of bytes                             *)

Full(consumed) == [hit |-> "full", consumed |-> consumed]
Partial == [hit |-> "partial", consumed |-> 0]
None    == [hit |-> "none", consumed |-> 0]

\* A wrapped form matched byte by byte, line breaks and all.
MutantCompare(hay, pattern) ==
  LET n == Len(pattern.bytes)
  IN  IF IsPrefix(pattern.bytes, hay) THEN Full(n)
      ELSE IF IsStrictPrefix(hay, pattern.bytes) THEN Partial ELSE None

\* Walks hay and the pattern together, stepping over line breaks after the first
\* byte of a wrapped pattern, as many as the pattern is long.
Compare(hay, pattern) ==
  LET n == Len(pattern.bytes)
      walk[i \in 0..Len(hay), matched \in 0..n, skipped \in 0..n] ==
        IF matched = n THEN Full(i)
        ELSE IF i = Len(hay) THEN Partial
        ELSE IF pattern.wrapped /\ matched > 0 /\ hay[i + 1] \in Breaks
          THEN IF skipped = n THEN None ELSE walk[i + 1, matched, skipped + 1]
        ELSE IF hay[i + 1] = pattern.bytes[matched + 1]
          THEN walk[i + 1, matched + 1, skipped]
        ELSE None
  IN  walk[0, 0, 0]

From(bytes, index) == SubSeq(bytes, index + 1, Len(bytes))

\* How many bytes the longest pattern that fits whole at this index takes, 0 if
\* none fits.
MatchAt(bytes, index) ==
  LET fits == {i \in DOMAIN Patterns : Compare(From(bytes, index), Patterns[i]).hit = "full"}
  IN  IF fits = {} THEN 0 ELSE Compare(From(bytes, index), Patterns[Min(fits)]).consumed

PartialAt(bytes, index) ==
  \E i \in DOMAIN Patterns : Compare(From(bytes, index), Patterns[i]).hit = "partial"

-----------------------------------------------------------------------------
(* One scan of what is held                                                *)

Largest(m, n) == IF m > n THEN m ELSE n

\* What a scan leaves: the first undecided index, how far the mask reaches, and
\* what it wrote.
Scanned(index, until, written) == [index |-> index, until |-> until, written |-> written]

\* A longer pattern still waiting for bytes outranks a shorter one that fits.
\* Before the tail nothing can still be waiting.
Waits(bytes, until, ending, index) ==
  /\ ~ending
  /\ index + 2 * Longest >= Len(bytes)
  /\ PartialAt(bytes, index)

\* Inside a masked run a match only lengthens it.
Step(bytes, at) ==
  LET matched == MatchAt(bytes, at.index) IN
  IF at.index < at.until
    THEN Scanned(at.index + 1, Largest(at.until, at.index + matched), at.written)
    ELSE IF matched > 0
      THEN Scanned(at.index + 1, at.index + matched, Append(at.written, Mark))
      ELSE Scanned(at.index + 1, at.until, Append(at.written, bytes[at.index + 1]))

Scan(bytes, until, ending) ==
  LET upTo[i \in 0..Len(bytes)] ==
        IF i = 0 THEN Scanned(0, until, <<>>)
        ELSE LET before == upTo[i - 1] IN
             IF before.index < i - 1 \/ Waits(bytes, before.until, ending, before.index)
               THEN before
               ELSE Step(bytes, before)
  IN  upTo[Len(bytes)]

-----------------------------------------------------------------------------
Init ==
  /\ input = <<>>
  /\ held = <<>>
  /\ maskedUntil = 0
  /\ out = <<>>
  /\ ended = FALSE

Release(bytes, scan) ==
  /\ out' = out \o scan.written
  /\ held' = From(bytes, scan.index)
  /\ maskedUntil' = IF scan.until > scan.index THEN scan.until - scan.index ELSE 0

\* With no pattern nothing matches and nothing waits: the stream is copied.
Feed(chunk) ==
  /\ ~ended
  /\ Len(input) + Len(chunk) <= MaxInput
  /\ input' = input \o chunk
  /\ Release(held \o chunk, Scan(held \o chunk, maskedUntil, FALSE))
  /\ UNCHANGED ended

Finish ==
  /\ ~ended
  /\ ended' = TRUE
  /\ Release(held, Scan(held, maskedUntil, TRUE))
  /\ UNCHANGED input

Chunks == UNION {[1..n -> Bytes] : n \in 1..MaxChunk}

Next == (\E chunk \in Chunks : Feed(chunk)) \/ Finish

Spec == Init /\ [][Next]_vars

-----------------------------------------------------------------------------
(* The reference: a stream scrubbed with all of it in hand                 *)

\* A form occurs at an index when it is written there, a wrapped one with line
\* breaks between its bytes, as many as it is long.
Occurs(bytes, index, pattern, length) ==
  LET text == SubSeq(bytes, index + 1, index + length) IN
  IF pattern.wrapped
    THEN /\ SelectSeq(text, LAMBDA byte : byte \notin Breaks) = pattern.bytes
         /\ Head(text) \notin Breaks
         /\ text[length] \notin Breaks
         /\ length <= 2 * Len(pattern.bytes)
    ELSE text = pattern.bytes

\* An occurrence that starts in `starts` reaches the index.
Reaches(bytes, starts, index) ==
  \E start \in starts, p \in DOMAIN Patterns :
    \E length \in (index - start + 1)..(Len(bytes) - start) :
      Occurs(bytes, start, Patterns[p], length)

\* Every byte of every occurrence is gone; each run of occurrences leaves a mark
\* where one starts that no earlier one reaches.
Scrubbed(bytes) ==
  LET at(index) ==
        IF index > 0 /\ Reaches(bytes, 0..(index - 1), index) THEN <<>>
        ELSE IF Reaches(bytes, {index}, index) THEN <<Mark>>
        ELSE <<bytes[index + 1]>>
  IN  FlattenSeq([i \in 1..Len(bytes) |-> at(i - 1)])

TypeOK ==
  /\ input \in Seq(Bytes)
  /\ held \in Seq(Bytes)
  /\ maskedUntil \in 0..Len(held)
  /\ out \in Seq(Bytes \cup {Mark})
  /\ ended \in BOOLEAN

\* However the reads cut the stream, what goes out is what scrubbing the whole of
\* it at once would give: a match is never missed at a cut, and nothing else is
\* lost, doubled or reordered.
CutsDoNotShow == ended => out = Scrubbed(input)

\* "Only bytes that could still grow into a secret are held back, so a prompt with
\* no newline reaches the terminal at once."
HeldCouldGrow == held # <<>> /\ ~ended => PartialAt(held, 0)

=============================================================================
