---------------------------- MODULE SealedHalves ----------------------------
(***************************************************************************)
(* A proxied connection of a sealed run: the command on one socket, the    *)
(* service on the other, and a thread for each direction between them      *)
(* (`splice` of websocket.rs, `pipe_with` of upstream.rs).  A TLS          *)
(* connection is one state shared by the thread that reads it and the one  *)
(* that writes it, under the locks `conn` and `sending`.                   *)
(*                                                                         *)
(* A record is what one Shared::send sends, known by its kind.  What the   *)
(* rewriting of a direction does to the bytes, the framing and the size of *)
(* a record are left out, and so are bytes TLS cannot decrypt and poisoned *)
(* locks.  A socket takes Capacity records before a write to it blocks.    *)
(* What runs under `conn` alone is one step, for nobody else can see the   *)
(* middle of it.  The command, the service and the sockets are external.   *)
(***************************************************************************)
EXTENDS Naturals, Sequences, FiniteSets

CONSTANTS
  NoOne,      \* an open lock
  NoJob,      \* nothing to send
  Capacity,   \* records a socket holds
  MaxData,    \* bound: data each peer sends
  Askers      \* bound: the peers that may send a record that calls for an answer

Conns   == {"client", "upstream"}
Threads == {"up", "down"}

Other(c)  == IF c = "client" THEN "upstream" ELSE "client"
Reads(t)  == IF t = "up" THEN "client" ELSE "upstream"
Writes(t) == Other(Reads(t))

\* What a peer sends: data, a record that calls for an answer, close_notify.
Kinds   == {"data", "calls", "close"}
Records == {"data", "answer", "close"}

Labels == {"read", "recv", "eof", "relay", "order", "write", "end", "shut", "join", "done"}

\* A record being sent on a connection, and where its thread goes then.
Job == [on : Conns, record : Records, then : {"read", "recv", "end", "shut"}]

ASSUME SocketAssumption ==
  /\ Capacity \in Nat \ {0} /\ MaxData \in Nat
  /\ Askers \subseteq Conns
  /\ NoOne \notin Threads /\ NoJob \notin Job

Thread == [
  pc      : Labels,
  job     : Job \cup {NoJob},
  backlog : Seq(Kinds),              \* read from the socket, not given to TLS
  plain   : BOOLEAN,                 \* TLS holds plaintext
  closed  : BOOLEAN]                 \* TLS has seen close_notify

VARIABLES
  kind,     \* which of the two functions runs
  tls,      \* which connections are TLS
  conn,     \* holder of Shared::conn
  sending,  \* holder of Shared::sending
  made,     \* per TLS connection, the threads whose records wait, as made
  th,       \* the threads; `down` is the one that called
  in,       \* per socket, from its peer
  out,      \* per socket, to its peer
  shut,     \* per socket, what penv shut down
  eof,      \* the peer sends no more
  gone,     \* the peer reads no more either
  sent,     \* data each peer sent
  asked,    \* peers that sent a record that calls for an answer
  got       \* data each peer received

setting   == <<kind, tls>>
locks     == <<conn, sending>>
peerVars  == <<eof, gone, sent, asked, got>>
vars      == <<setting, locks, made, th, in, out, shut, peerVars>>

TypeOK ==
  /\ kind \in {"splice", "pipe"}
  /\ tls \in [Conns -> BOOLEAN]
  /\ conn \in [Conns -> Threads \cup {NoOne}]
  /\ sending \in [Conns -> Threads \cup {NoOne}]
  /\ made \in [Conns -> Seq(Threads)]
  /\ th \in [Threads -> Thread]
  /\ in \in [Conns -> Seq(Kinds)]
  /\ out \in [Conns -> Seq(Records)]
  /\ shut \in [Conns -> {"none", "write", "both"}]
  /\ eof \in [Conns -> BOOLEAN]
  /\ gone \in [Conns -> BOOLEAN]
  /\ sent \in [Conns -> 0..MaxData]
  /\ asked \in [Conns -> BOOLEAN]
  /\ got \in [Conns -> Nat]

\* Where a thread goes on reading.
Reading(t) == IF tls[Reads(t)] THEN "read" ELSE "recv"

Init ==
  /\ kind \in {"splice", "pipe"}
  /\ tls \in [Conns -> BOOLEAN]
  /\ IF kind = "splice" THEN \A c \in Conns : tls[c] ELSE ~tls["client"]
  /\ conn = [c \in Conns |-> NoOne]
  /\ sending = [c \in Conns |-> NoOne]
  /\ made = [c \in Conns |-> <<>>]
  /\ th = [t \in Threads |->
       [pc |-> Reading(t), job |-> NoJob, backlog |-> <<>>, plain |-> FALSE, closed |-> FALSE]]
  /\ in = [c \in Conns |-> <<>>]
  /\ out = [c \in Conns |-> <<>>]
  /\ shut = [c \in Conns |-> "none"]
  /\ eof = [c \in Conns |-> FALSE]
  /\ gone = [c \in Conns |-> FALSE]
  /\ sent = [c \in Conns |-> 0]
  /\ asked = [c \in Conns |-> FALSE]
  /\ got = [c \in Conns |-> 0]

Goto(t, label) == th' = [th EXCEPT ![t].pc = label]

-----------------------------------------------------------------------------
\* Shared::send, in two steps: wait for `sending` with `conn` held, then let `conn`
\* go and write.  A plain socket is written without locks.

\* BUG: Shared::conn is let go of before Shared::sending is taken.
MutantMade(t, c, record, label, from) ==
  /\ made' = IF tls[c] THEN [made EXCEPT ![c] = Append(@, t)] ELSE made
  /\ UNCHANGED conn
  /\ th' = [th EXCEPT ![t] =
       [from EXCEPT !.pc = IF tls[c] THEN "order" ELSE "write",
                    !.job = [on |-> c, record |-> record, then |-> label]]]

\* t has a new record for c and goes on at `label` once it is sent.
Made(t, c, record, label, from) ==
  /\ IF tls[c]
       THEN /\ made' = [made EXCEPT ![c] = Append(@, t)]
            /\ conn' = [conn EXCEPT ![c] = t]
       ELSE UNCHANGED <<made, conn>>
  /\ th' = [th EXCEPT ![t] =
       [from EXCEPT !.pc = IF tls[c] THEN "order" ELSE "write",
                    !.job = [on |-> c, record |-> record, then |-> label]]]

Order(t) ==
  LET c == th[t].job.on IN
  /\ th[t].pc = "order"
  /\ sending[c] = NoOne
  /\ sending' = [sending EXCEPT ![c] = t]
  /\ conn' = [conn EXCEPT ![c] = NoOne]
  /\ Goto(t, "write")
  /\ UNCHANGED <<setting, made, in, out, shut, peerVars>>

\* What waits when t's record no longer does.
Without(waiting, t) == IF Head(waiting) = t THEN Tail(waiting) ELSE << Head(waiting) >>

Broken(c) == gone[c] \/ shut[c] # "none"

Sent(t, label) ==
  LET c == th[t].job.on IN
  /\ IF tls[c]
       THEN /\ made' = [made EXCEPT ![c] = Without(@, t)]
            /\ sending' = [sending EXCEPT ![c] = NoOne]
       ELSE UNCHANGED <<made, sending>>
  /\ th' = [th EXCEPT ![t].pc = label, ![t].job = NoJob]
  /\ UNCHANGED <<setting, conn, in, shut, peerVars>>

Write(t) ==
  LET c == th[t].job.on IN
  /\ th[t].pc = "write"
  /\ ~Broken(c)
  /\ Len(out[c]) < Capacity
  /\ out' = [out EXCEPT ![c] = Append(@, th[t].job.record)]
  /\ Sent(t, th[t].job.then)

\* An error ends the direction; close ignores it.
WriteFails(t) ==
  /\ th[t].pc = "write"
  /\ Broken(th[t].job.on)
  /\ Sent(t, IF th[t].job.then = "shut" THEN "shut" ELSE "end")
  /\ UNCHANGED out

-----------------------------------------------------------------------------
\* ReadHalf::read: what TLS has, else what the backlog gives it, else the socket.

TakePlaintext(t) ==
  /\ th[t].pc = "read"
  /\ conn[Reads(t)] = NoOne
  /\ th[t].plain
  /\ th' = [th EXCEPT ![t].plain = FALSE, ![t].pc = "relay"]
  /\ UNCHANGED <<setting, locks, made, in, out, shut, peerVars>>

ReadEnds(t) ==
  /\ \/ th[t].pc = "read" /\ ~th[t].plain /\ th[t].closed
     \/ th[t].pc = "eof"
  /\ conn[Reads(t)] = NoOne
  /\ Goto(t, "end")
  /\ UNCHANGED <<setting, locks, made, in, out, shut, peerVars>>

\* Records are fed one by one: as far as the first plaintext, or all there are.
Stops(t, n) ==
  LET backlog == th[t].backlog IN
  /\ \A i \in 1..(n - 1) : backlog[i] # "data"
  /\ backlog[n] = "data" \/ n = Len(backlog)

\* BUG: the first record is fed and the rest of the backlog cleared.
MutantFed(t, n) ==
  LET head == Head(th[t].backlog) IN
    [th[t] EXCEPT !.backlog = <<>>, !.plain = head = "data", !.closed = head = "close"]

Fed(t, n) ==
  LET backlog == th[t].backlog IN
    [th[t] EXCEPT !.backlog = SubSeq(backlog, n + 1, Len(backlog)),
                  !.plain   = backlog[n] = "data",
                  !.closed  = \E i \in 1..n : backlog[i] = "close"]

\* TLS answers a record that calls for it; TLS 1.2 a close_notify, too.
Feed(t) ==
  LET c == Reads(t)
      backlog == th[t].backlog
  IN
  /\ th[t].pc = "read"
  /\ conn[c] = NoOne
  /\ ~th[t].plain /\ ~th[t].closed
  /\ \E n \in 1..Len(backlog) :
       /\ Stops(t, n)
       /\ \/ /\ \A i \in 1..n : backlog[i] # "calls"
             /\ th' = [th EXCEPT ![t] = Fed(t, n)]
             /\ UNCHANGED <<locks, made>>
          \/ /\ \E i \in 1..n : backlog[i] \in {"calls", "close"}
             /\ Made(t, c, "answer", "read", Fed(t, n))
             /\ UNCHANGED sending
  /\ UNCHANGED <<setting, in, out, shut, peerVars>>

WaitForSocket(t) ==
  /\ th[t].pc = "read"
  /\ conn[Reads(t)] = NoOne
  /\ ~th[t].plain /\ ~th[t].closed
  /\ th[t].backlog = <<>>
  /\ Goto(t, "recv")
  /\ UNCHANGED <<setting, locks, made, in, out, shut, peerVars>>

Receive(t) ==
  LET c == Reads(t) IN
  /\ th[t].pc = "recv"
  /\ in[c] # <<>>
  /\ IF tls[c]
       THEN /\ th' = [th EXCEPT ![t].backlog = in[c], ![t].pc = "read"]
            /\ in' = [in EXCEPT ![c] = <<>>]
       ELSE /\ Goto(t, "relay")
            /\ in' = [in EXCEPT ![c] = Tail(@)]
  /\ UNCHANGED <<setting, locks, made, out, shut, peerVars>>

ReceiveNothing(t) ==
  LET c == Reads(t) IN
  /\ th[t].pc = "recv"
  /\ (in[c] = <<>> /\ eof[c]) \/ shut[c] = "both"
  /\ Goto(t, IF tls[c] THEN "eof" ELSE "end")
  /\ UNCHANGED <<setting, locks, made, in, out, shut, peerVars>>

-----------------------------------------------------------------------------
\* WriteHalf::write, close and end.  What the service sends over a WebSocket is read
\* frame by frame: after a close frame, or at one that cannot be read, it ends.

Framed(t) == kind = "splice" /\ t = "down"

Relay(t) ==
  LET c == Writes(t) IN
  /\ th[t].pc = "relay"
  /\ tls[c] => conn[c] = NoOne
  /\ \/ Made(t, c, "data", Reading(t), th[t])
     \/ Framed(t) /\ Made(t, c, "data", "end", th[t])
  /\ UNCHANGED <<setting, sending, in, out, shut, peerVars>>

Unreadable(t) ==
  /\ th[t].pc = "relay"
  /\ Framed(t)
  /\ Goto(t, "end")
  /\ UNCHANGED <<setting, locks, made, in, out, shut, peerVars>>

Notify(t) ==
  LET c == Writes(t) IN
  /\ th[t].pc = "end"
  /\ IF tls[c]
       THEN /\ conn[c] = NoOne
            /\ Made(t, c, "close", "shut", th[t])
       ELSE /\ Goto(t, "shut")
            /\ UNCHANGED <<conn, made>>
  /\ UNCHANGED <<setting, sending, in, out, shut, peerVars>>

\* BUG: pipe_with ends the service's side when the command has no more to send.
MutantEndsBoth(t) == t \in Threads

\* BUG: an end is a half-close, so the other thread goes on waiting.
MutantShutdown(t) ==
  /\ th[t].pc = "shut"
  /\ shut' = [shut EXCEPT ![Writes(t)] = "write"]
  /\ Goto(t, IF t = "down" THEN "join" ELSE "done")
  /\ UNCHANGED <<setting, locks, made, in, out, peerVars>>

\* pipe_with closes the service's side when the command has no more to send; every
\* other end is both ways.
EndsBoth(t) == t = "down" \/ kind = "splice"

Shutdown(t) ==
  /\ th[t].pc = "shut"
  /\ shut' = [shut EXCEPT ![Writes(t)] = IF EndsBoth(t) THEN "both" ELSE "write"]
  /\ Goto(t, IF t = "down" THEN "join" ELSE "done")
  /\ UNCHANGED <<setting, locks, made, in, out, peerVars>>

Join ==
  /\ th["down"].pc = "join"
  /\ th["up"].pc = "done"
  /\ Goto("down", "done")
  /\ UNCHANGED <<setting, locks, made, in, out, shut, peerVars>>

-----------------------------------------------------------------------------
\* The peers.

CanSend(c) == ~eof[c] /\ shut[c] # "both" /\ Len(in[c]) < Capacity

PeerSends(c) ==
  /\ CanSend(c)
  /\ sent[c] < MaxData
  /\ in' = [in EXCEPT ![c] = Append(@, "data")]
  /\ sent' = [sent EXCEPT ![c] = @ + 1]
  /\ UNCHANGED <<setting, locks, made, th, out, shut, eof, gone, asked, got>>

PeerAsks(c) ==
  /\ CanSend(c)
  /\ tls[c] /\ c \in Askers /\ ~asked[c]
  /\ in' = [in EXCEPT ![c] = Append(@, "calls")]
  /\ asked' = [asked EXCEPT ![c] = TRUE]
  /\ UNCHANGED <<setting, locks, made, th, out, shut, eof, gone, sent, got>>

\* With or without close_notify.
PeerCloses(c) ==
  /\ ~eof[c]
  /\ eof' = [eof EXCEPT ![c] = TRUE]
  /\ in' \in {in} \cup (IF tls[c] THEN {[in EXCEPT ![c] = Append(@, "close")]} ELSE {})
  /\ UNCHANGED <<setting, locks, made, th, out, shut, gone, sent, asked, got>>

PeerReceives(c) ==
  /\ out[c] # <<>>
  /\ ~gone[c]
  /\ out' = [out EXCEPT ![c] = Tail(@)]
  /\ got' = [got EXCEPT ![c] = IF Head(out[c]) = "data" THEN @ + 1 ELSE @]
  /\ UNCHANGED <<setting, locks, made, th, in, shut, eof, gone, sent, asked>>

PeerLeaves(c) ==
  /\ ~gone[c]
  /\ gone' = [gone EXCEPT ![c] = TRUE]
  /\ eof' = [eof EXCEPT ![c] = TRUE]
  /\ out' = [out EXCEPT ![c] = <<>>]
  /\ UNCHANGED <<setting, locks, made, th, in, shut, sent, asked, got>>

Proceed(t) ==
  \/ Order(t) \/ Write(t) \/ WriteFails(t)
  \/ TakePlaintext(t) \/ ReadEnds(t) \/ Feed(t) \/ WaitForSocket(t)
  \/ Receive(t) \/ ReceiveNothing(t)
  \/ Relay(t) \/ Unreadable(t) \/ Notify(t) \/ Shutdown(t)
  \/ t = "down" /\ Join

Peer(c) ==
  \/ PeerSends(c) \/ PeerAsks(c) \/ PeerCloses(c) \/ PeerReceives(c) \/ PeerLeaves(c)

Next == (\E t \in Threads : Proceed(t)) \/ (\E c \in Conns : Peer(c))

\* The threads run; a peer reads what it was sent, or goes away instead.  Nobody has to
\* send, to close or to leave a quiet connection.
Fairness ==
  /\ \A t \in Threads : WF_vars(Proceed(t))
  /\ \A c \in Conns : WF_vars(out[c] # <<>> /\ (PeerReceives(c) \/ PeerLeaves(c)))

Spec == Init /\ [][Next]_vars /\ Fairness

-----------------------------------------------------------------------------
\* The record being written is the first made of those that wait, whichever thread made
\* it: TLS decrypts no other (Shared::send).
InOrder ==
  \A t \in Threads :
    th[t].pc = "write" /\ tls[th[t].job.on] => Head(made[th[t].job.on]) = t

CountData(kinds) == Cardinality({i \in 1..Len(kinds) : kinds[i] = "data"})

Ended(t) ==
  \/ th[t].pc \in {"end", "shut", "join", "done"}
  \/ (th[t].pc \in {"order", "write"} /\ th[t].job.then \in {"end", "shut"})

\* The data one peer sent the other: in the sockets, in the hands of their thread, there.
OnTheWay(t) ==
  LET w == Writes(t) IN
    CountData(in[Reads(t)]) + CountData(th[t].backlog)
    + (IF th[t].plain THEN 1 ELSE 0) + (IF th[t].pc = "relay" THEN 1 ELSE 0)
    + (IF th[t].job # NoJob /\ th[t].job.record = "data" THEN 1 ELSE 0)
    + CountData(out[w]) + got[w]

\* While a direction runs and there is who reads it, all its peer sent is on the way or
\* there: nothing read from the socket is dropped or relayed twice (ReadHalf::read, its
\* backlog).
NothingLost ==
  \A t \in Threads : ~Ended(t) /\ ~gone[Writes(t)] => sent[Reads(t)] = OnTheWay(t)

\* When the direction from the service ends, or either one of a WebSocket, both do
\* (splice: "when one direction ends, it ends the other side's connection").
EndsTogether ==
  (Ended("down") \/ (kind = "splice" /\ Ended("up")))
    ~> (th["up"].pc = "done" /\ th["down"].pc = "done")

\* A command that has no more to send still gets the whole answer, as long as both
\* peers stay and the service asks for no answer on the closed side (pipe_with).
AnswerArrives ==
  \A n \in 1..MaxData :
    (kind = "pipe" /\ sent["upstream"] >= n) ~>
      (\/ got["client"] >= n
       \/ gone["client"] \/ gone["upstream"]
       \/ (asked["upstream"] /\ shut["upstream"] # "none"))

=============================================================================
