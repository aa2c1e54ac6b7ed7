---------------------------- MODULE SealedRelay ----------------------------
(***************************************************************************)
(* How a body passes through the sealed proxy: bytes arrive in reads cut   *)
(* anywhere, values are swapped for placeholders, and what is written is   *)
(* framed again so that the command can tell where it ends.                *)
(*                                                                         *)
(* One module for the five ways a body passes: the framings of relay       *)
(* (sealed/http.rs), the replies of a Redis server (sealed/redis.rs) and   *)
(* the frames of a WebSocket (sealed/websocket.rs).  A byte is a letter; a *)
(* size line, a line end, a length header and a frame header are tokens    *)
(* of their own, which is how the code reads them.                         *)
(***************************************************************************)
EXTENDS Integers, Sequences, FiniteSets, SequencesExt, Functions

CONSTANTS
  Letters,   \* the bytes of a body
  To,        \* each byte string to replace, and what replaces it
  Buffer,    \* a body up to this is held whole: BUFFER
  MaxBody,   \* a body or a message over this is not held: MAX_BODY
  MaxLine,   \* a line of a reply not ended within this is not waited for
  MaxBlob,   \* nor a string of a reply declared longer than this
  MaxRead,   \* bound: tokens one read returns
  Bodies,    \* bound: the bodies a server sends
  Replies,   \* bound: the token sequences a Redis server sends
  Frames     \* bound: the frame sequences a WebSocket server sends

Froms == DOMAIN To

\* What the constants are taken to be; the runs assume it.
SwapAssumption ==
  /\ Froms \subseteq Seq(Letters) \ {<<>>}
  /\ Buffer \in Nat /\ MaxBody \in Nat /\ MaxRead \in Nat \ {0}

VARIABLES
  job,      \* how the body is framed and what of it is asked for
  wire,     \* the tokens the server sends
  at,       \* how many of them were read
  pending,  \* read and not yet decided: the streamer's, or a whole body held
  parsing,  \* FALSE once a stream of replies no longer parses
  left,     \* bytes of the body or of the open chunk still to come; Sizeless
            \* where a chunk's size comes next
  told,     \* how the command was told the body ends
  out,      \* what was written after the head
  pc        \* "head", "read", "done" or "failed"

vars == <<job, wire, at, pending, parsing, left, told, out, pc>>

-----------------------------------------------------------------------------
(* Tokens                                                                  *)

Size(n)  == [is |-> "size", n |-> n]
Blob(n)  == [is |-> "blob", n |-> n]
End      == [is |-> "crlf", n |-> 0]
Byte(b)  == [is |-> "byte", b |-> b]
Text(bytes) == [i \in DOMAIN bytes |-> Byte(bytes[i])]

-----------------------------------------------------------------------------
(* Swaps                                                                   *)

From(s, i) == SubSeq(s, i, Len(s))

StringOf(from) == Text(from)
Fits(s) == {from \in Froms : IsPrefix(StringOf(from), s)}
Longest(fits) == CHOOSE from \in fits : \A other \in fits : Len(other) <= Len(from)

\* A shorter match is taken at once.
MutantCouldGrow(s) ==
  /\ Fits(s) = {}
  /\ \E from \in Froms : IsStrictPrefix(s, StringOf(from))

\* The candidates are tried longest first, so one that waits for bytes comes
\* before every one that already fits.
CouldGrow(s) == \E from \in Froms : IsStrictPrefix(s, StringOf(from))

\* One pass from the left; what a swap writes is not read again.  Stops, when more
\* is coming, at a tail that could still become a match.
Pass(s, more) ==
  LET from[i \in 1..Len(s) + 1] ==
        IF i > Len(s) THEN [out |-> <<>>, rest |-> <<>>]
        ELSE IF more /\ CouldGrow(From(s, i)) THEN [out |-> <<>>, rest |-> From(s, i)]
        ELSE LET fits == Fits(From(s, i))
                 hit  == Longest(fits)
                 next == IF fits = {} THEN from[i + 1] ELSE from[i + Len(hit)]
             IN  [next EXCEPT !.out = (IF fits = {} THEN <<s[i]>> ELSE Text(To[hit])) \o @]
  IN  from[1]

Apply(s) == Pass(s, FALSE).out

Swapped(s) == IF job.swapping THEN Apply(s) ELSE s

\* Streamer::push: what a read settles and what it leaves waiting.
Push(s) == IF job.swapping THEN Pass(s, TRUE) ELSE [out |-> s, rest |-> <<>>]

-----------------------------------------------------------------------------
(* What a server sends.  A job is one exchange; a wire, any part of its    *)
(* tokens, is what arrives before the server leaves.                       *)

Parts(tokens) == {SubSeq(tokens, 1, n) : n \in 0..Len(tokens)}

\* The chunks that end after the bytes in cuts.
Chunks(body, cuts) ==
  LET upTo(c) == {b \in cuts : b < c}
      first(c) == IF upTo(c) = {} THEN 1 ELSE 1 + CHOOSE b \in upTo(c) : \A a \in upTo(c) : a <= b
      chunk(c) == SubSeq(body, first(c), c)
  IN  FlattenSeq([i \in 1..Cardinality(cuts) |->
        LET c == SetToSortSeq(cuts, <)[i] IN <<Size(Len(chunk(c)))>> \o Text(chunk(c)) \o <<End>>])
      \o <<Size(0), End>>

\* A server that declares a chunk a byte shorter than it is.
Misdeclared(tokens) == [i \in DOMAIN tokens |->
  IF tokens[i].is = "size" /\ tokens[i].n > 1 THEN Size(tokens[i].n - 1) ELSE tokens[i]]

WiresOf(kind, body) ==
  CASE kind = "length"  -> Parts(Text(body))
    [] kind = "close"   -> {Text(body)}
    [] kind = "chunked" ->
         LET honest == {Chunks(body, cuts \cup ({Len(body)} \ {0})) :
                          cuts \in SUBSET (1..Len(body) - 1)}
         IN  UNION {Parts(tokens) \cup {Misdeclared(tokens)} : tokens \in honest}

Job(kind, body, chunkedOk, swapping) ==
  [kind |-> kind, body |-> Text(body), chunkedOk |-> chunkedOk, swapping |-> swapping]

Sizeless == -1
Unsaid == [how |-> "nothing", n |-> 0]

Init ==
  /\ \/ \E kind \in {"length", "chunked", "close"}, body \in Bodies,
           chunkedOk, swapping \in BOOLEAN :
          /\ job = Job(kind, body, chunkedOk, swapping)
          /\ wire \in WiresOf(kind, body)
     \/ /\ job = Job("replies", <<>>, FALSE, TRUE)
        /\ wire \in UNION {Parts(tokens) : tokens \in Replies}
     \/ /\ job = Job("frames", <<>>, FALSE, TRUE)
        /\ wire \in Frames
  /\ at = 0 /\ pending = <<>> /\ parsing = TRUE
  /\ left = 0
  /\ told = Unsaid
  /\ out = <<>>
  /\ pc = "head"

-----------------------------------------------------------------------------
(* relay: the head first, with framing that matches what will follow       *)

Declared == Len(job.body)

\* Nothing to swap streams as it is; a short body is held whole; a long one is
\* framed again, or held too where the command cannot read chunks.
Way ==
  CASE job.kind # "length"                      -> job.kind
    [] ~job.swapping                            -> "copy"
    [] Declared > Buffer /\ job.chunkedOk       -> "reframe"
    [] Declared > MaxBody                       -> "refuse"
    [] OTHER                                    -> "hold"

Told(way) ==
  CASE way = "copy"                   -> [how |-> "length", n |-> Declared]
    [] way \in {"reframe", "chunked"} -> [how |-> "chunks", n |-> 0]
    [] OTHER                          -> [how |-> "close", n |-> 0]

BeginRelay ==
  /\ pc = "head"
  /\ pc' = IF Way = "refuse" THEN "failed" ELSE "read"
  /\ told' = IF Way \in {"refuse", "hold"} THEN Unsaid ELSE Told(Way)
  /\ left' = CASE Way = "chunked" -> Sizeless [] job.kind = "length" -> Declared [] OTHER -> 0
  /\ UNCHANGED <<job, wire, at, pending, parsing, out>>

Rest == Len(wire) - at
Reads(most) == 1..(CHOOSE n \in {MaxRead, Rest, most} : n <= MaxRead /\ n <= Rest /\ n <= most)
Arrived(n) == SubSeq(wire, at + 1, at + n)

Settle(pushed) == out' = out \o pushed.out /\ pending' = pushed.rest
Finish == out' = out \o Swapped(pending) /\ pending' = <<>> /\ pc' = "done"
Fail == pc' = "failed" /\ UNCHANGED <<out, pending>>

\* A declared body that was not all read.
Over == left = 0

ReadLength(n) ==
  /\ pc = "read" /\ Way \in {"copy", "reframe"} /\ ~Over
  /\ n \in Reads(left)
  /\ Settle(Push(pending \o Arrived(n)))
  /\ at' = at + n /\ left' = left - n
  /\ UNCHANGED <<job, wire, parsing, told, pc>>

EndLength ==
  /\ pc = "read" /\ Way \in {"copy", "reframe"}
  /\ IF Over THEN Finish ELSE Rest = 0 /\ Fail
  /\ UNCHANGED <<job, wire, at, parsing, left, told>>

\* Held whole: the length told is the one of what is written.
ReadHeld(n) ==
  /\ pc = "read" /\ Way = "hold" /\ ~Over
  /\ n \in Reads(left)
  /\ pending' = pending \o Arrived(n)
  /\ at' = at + n /\ left' = left - n
  /\ UNCHANGED <<job, wire, parsing, told, out, pc>>

EndHeld ==
  /\ pc = "read" /\ Way = "hold"
  /\ IF Over
       THEN Finish /\ told' = [how |-> "length", n |-> Len(Swapped(pending))]
       ELSE Rest = 0 /\ Fail /\ UNCHANGED told
  /\ UNCHANGED <<job, wire, at, parsing, left>>

ReadSize ==
  /\ pc = "read" /\ Way = "chunked" /\ left = Sizeless
  /\ IF Rest = 0 \/ (Rest > 0 /\ wire[at + 1].is # "size")
       THEN Fail /\ UNCHANGED <<at, left>>
       ELSE /\ at' = at + 1
            /\ LET n == wire[at + 1].n IN
               IF n = 0 THEN Finish /\ UNCHANGED left
                        ELSE left' = n /\ UNCHANGED <<out, pending, pc>>
  /\ UNCHANGED <<job, wire, parsing, told>>

ReadChunk(n) ==
  /\ pc = "read" /\ Way = "chunked" /\ left > 0
  /\ n \in Reads(left)
  /\ Settle(Push(pending \o Arrived(n)))
  /\ at' = at + n /\ left' = left - n
  /\ UNCHANGED <<job, wire, parsing, told, pc>>

EndChunk ==
  /\ pc = "read" /\ Way = "chunked" /\ left # Sizeless
  /\ IF left = 0 /\ Rest > 0 /\ wire[at + 1] = End
       THEN at' = at + 1 /\ left' = Sizeless /\ UNCHANGED <<out, pending, pc>>
       ELSE (left = 0 \/ Rest = 0) /\ Fail /\ UNCHANGED <<at, left>>
  /\ UNCHANGED <<job, wire, parsing, told>>

\* Up to the end of the connection; the raw tail of replies goes the same way.
ReadStream(n) ==
  /\ pc = "read" /\ (Way = "close" \/ ~parsing)
  /\ n \in Reads(Rest)
  /\ Settle(Push(pending \o Arrived(n)))
  /\ at' = at + n
  /\ UNCHANGED <<job, wire, parsing, left, told, pc>>

EndStream ==
  /\ pc = "read" /\ Way \in {"close", "replies"} /\ Rest = 0
  /\ Finish
  /\ UNCHANGED <<job, wire, at, parsing, left, told>>

-----------------------------------------------------------------------------
(* Replies::push: whole elements, each with the length of what is written  *)

EndsFrom(s, i) == {e \in i..Len(s) : s[e] = End}
FirstOf(ends) == CHOOSE e \in ends : \A other \in ends : e <= other

\* A declared string at i: its length, or Sizeless where the line is text.
BlobAt(s, i, e) == IF e = i + 1 /\ s[i].is = "blob" THEN s[i].n ELSE Sizeless

Raw(s, i) ==
  LET streamed == Pass(From(s, i), TRUE)
  IN  [out |-> streamed.out, rest |-> streamed.rest, parses |-> FALSE]

\* What the command reads of one string: its length follows what is written.
Element(text) == LET swapped == Apply(text) IN <<Blob(Len(swapped)), End>> \o swapped \o <<End>>

ParsedReplies(s) ==
  LET from[i \in 1..Len(s) + 1] ==
        LET waits == [out |-> <<>>, rest |-> From(s, i), parses |-> TRUE]
            then(written, next) == [from[next] EXCEPT !.out = written \o @]
            ends == EndsFrom(s, i)
        IN  IF i > Len(s) THEN waits
            ELSE IF ends = {}
              THEN IF Len(s) - i + 1 > MaxLine THEN Raw(s, i) ELSE waits
            ELSE LET e == FirstOf(ends)
                     n == BlobAt(s, i, e)
                 IN  IF n = Sizeless
                       THEN then(Apply(SubSeq(s, i, e - 1)) \o <<End>>, e + 1)
                     ELSE IF n > MaxBlob THEN Raw(s, i)
                     ELSE IF Len(s) < e + n + 1 THEN waits
                     ELSE IF s[e + n + 1] # End THEN Raw(s, i)
                     ELSE then(Element(SubSeq(s, e + 1, e + n)), e + n + 2)
  IN  from[1]

ReadReplies(n) ==
  /\ pc = "read" /\ Way = "replies" /\ parsing
  /\ n \in Reads(Rest)
  /\ LET parsed == ParsedReplies(pending \o Arrived(n)) IN
     Settle(parsed) /\ parsing' = parsed.parses
  /\ at' = at + n
  /\ UNCHANGED <<job, wire, left, told, pc>>

-----------------------------------------------------------------------------
(* splice: one frame at a time, the fragments of a message joined          *)

\* rewrite_frame: values are looked for in messages of data, not in control frames nor
\* in frames of an opcode that means nothing yet.
Written(frame) ==
  [frame EXCEPT !.fin = TRUE, !.text = IF frame.op \in {"data", "continue"} THEN Apply(@) ELSE @]

Join(open, frame) == [open EXCEPT !.text = @ \o frame.text, !.fin = frame.fin]

WriteFrame(frame) ==
  /\ out' = Append(out, Written(frame))
  /\ pc' = IF frame.op = "control" /\ frame.closing THEN "done" ELSE pc

KeepOpen(frame) == pending' = <<frame>> /\ UNCHANGED <<out, pc>>

Continue(frame) ==
  IF pending = <<>> THEN Fail
  ELSE LET joined == Join(pending[1], frame) IN
       IF Len(joined.text) > MaxBody THEN Fail
       ELSE IF frame.fin THEN WriteFrame(joined) /\ pending' = <<>>
       ELSE KeepOpen(joined)

ReadFrame ==
  /\ pc = "read" /\ Way = "frames" /\ Rest > 0
  /\ LET frame == wire[at + 1] IN
       CASE frame.rsv              -> Fail
         [] ~frame.rsv /\ frame.op = "control"  -> WriteFrame(frame) /\ UNCHANGED pending
         [] ~frame.rsv /\ frame.op = "continue" -> Continue(frame)
         [] ~frame.rsv /\ frame.op \in {"data", "reserved"} ->
              IF frame.fin THEN WriteFrame(frame) /\ UNCHANGED pending ELSE KeepOpen(frame)
  /\ at' = at + 1
  /\ UNCHANGED <<job, wire, parsing, left, told>>

\* A server that leaves within a message: what there was of it is dropped.
EndFrames ==
  /\ pc = "read" /\ Way = "frames" /\ Rest = 0
  /\ Fail
  /\ UNCHANGED <<job, wire, at, parsing, left, told>>

-----------------------------------------------------------------------------

Next ==
  \/ BeginRelay
  \/ \E n \in 1..MaxRead :
       ReadLength(n) \/ ReadHeld(n) \/ ReadChunk(n) \/ ReadStream(n) \/ ReadReplies(n)
  \/ EndLength \/ EndHeld \/ ReadSize \/ EndChunk \/ EndStream
  \/ ReadFrame \/ EndFrames

Spec == Init /\ [][Next]_vars

-----------------------------------------------------------------------------
(* Properties                                                              *)

\* The messages of a sequence of frames: each from the frame that opened it to its
\* last, without what came whole in between.
MessageEndingAt(frames, i) ==
  LET opens == {j \in 1..i : /\ frames[j].op \in {"data", "reserved"}
                             /\ j = i \/ ~frames[j].fin}
      first == CHOOSE j \in opens : \A other \in opens : other <= j
      parts == {first} \cup {j \in first..i : frames[j].op = "continue"}
  IN  [op   |-> frames[first].op,
       text |-> FlattenSeq([k \in 1..i - first + 1 |->
                  IF first + k - 1 \in parts THEN frames[first + k - 1].text ELSE <<>>])]

MessagesOf(frames) ==
  LET last(frame) == frame.op # "control" /\ frame.fin
      ends == SetToSortSeq({i \in DOMAIN frames : last(frames[i])}, <)
  IN  [m \in DOMAIN ends |-> MessageEndingAt(frames, ends[m])]

\* A message of an opcode that means nothing yet is not read for values.
ReadOf(message) == IF message.op = "data" THEN Apply(message.text) ELSE message.text

DataOf(frames) ==
  LET data == SelectSeq(frames, LAMBDA frame : frame.op # "control")
  IN  [i \in DOMAIN data |-> data[i].text]

\* Every string in what was written has the length it declares.
LengthsHold ==
  \A i \in DOMAIN out : out[i].is = "blob" =>
    \/ Len(out) < i + 1 + out[i].n + 1
    \/ out[i + 1 + out[i].n + 1] = End

\* What the command reads does not depend on how the bytes were cut on their way: it
\* is what swapping the whole at once gives (sealed/http.rs:495-543), string by
\* string in replies, each with its own length (redis.rs:119-120), and message by
\* message in a WebSocket, whatever its fragments (websocket.rs:112-115); a control
\* frame and a message of a reserved opcode come as they are (websocket.rs:81-86).
\* Nothing is kept back but a tail that may still become a match (http.rs:351-353).
SwappedWhole ==
  /\ job.kind \in {"length", "chunked", "close"} =>
       /\ IsPrefix(out, Swapped(job.body))
       /\ pc = "done" => out = Swapped(job.body)
  /\ job.kind = "replies" =>
       LET once == ParsedReplies(wire) IN
       /\ IsPrefix(out, once.out \o Apply(once.rest))
       /\ pc = "done" => out = once.out \o Apply(once.rest)
       /\ (parsing /\ pc = "read") => LengthsHold
  /\ job.kind = "frames" =>
       LET messages == MessagesOf(wire) IN
       IsPrefix(DataOf(out), [m \in DOMAIN messages |-> ReadOf(messages[m])])
  /\ (Way \in {"reframe", "chunked", "close"} /\ pending # <<>>) => CouldGrow(pending)

\* What the command can tell of a body: that all of it has come.
LooksWhole ==
  CASE told.how = "length" -> Len(out) = told.n
    [] told.how = "chunks" -> pc = "done"
    [] OTHER               -> FALSE

\* A body the server cut short never looks whole to the command: the last chunk, or
\* the last byte of the length it was told, is written only after all of the
\* server's (http.rs:393-397, 413-416, 452-455).
CutIsSeen ==
  LooksWhole => out = Swapped(job.body)

=============================================================================
