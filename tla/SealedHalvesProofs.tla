------------------------- MODULE SealedHalvesProofs -------------------------
(***************************************************************************)
(* InOrder and NothingLost for every size of socket and amount of data.    *)
(*                                                                         *)
(* In order: whoever holds `conn` waits to send and whoever holds          *)
(* `sending` writes, so at most two records of a connection wait, the      *)
(* writer's first: a third could only be made by a thread that has `conn`, *)
(* and the one that waits has it.                                          *)
(*                                                                         *)
(* Nothing lost: what a peer sent is counted where it is, in the two       *)
(* sockets, the backlog, TLS, the thread and its record. A thread goes     *)
(* back to its socket only with an empty backlog, and takes plaintext only *)
(* from a TLS that has one piece of it; so every step moves a piece from   *)
(* one place to the next.                                                  *)
(***************************************************************************)
EXTENDS SealedHalves, SequenceTheorems, FiniteSetTheorems, FunctionTheorems, TLAPS

-----------------------------------------------------------------------------
(* Types.                                                                  *)

LEMMA SidesTyped ==
  ASSUME NEW t \in Threads
  PROVE  Reads(t) \in Conns /\ Writes(t) \in Conns /\ Reading(t) \in {"read", "recv"}
  BY DEF Threads, Conns, Reads, Writes, Other, Reading

LEMMA MadeTyped ==
  ASSUME TypeOK, NEW t \in Threads, NEW c \in Conns, NEW record \in Records,
         NEW label \in {"read", "recv", "end", "shut"}, NEW from \in Thread,
         Made(t, c, record, label, from)
  PROVE  /\ made' \in [Conns -> Seq(Threads)]
         /\ conn' \in [Conns -> Threads \cup {NoOne}]
         /\ th' \in [Threads -> Thread]
  <1>1. [on |-> c, record |-> record, then |-> label] \in Job
    BY DEF Job
  <1>2. [from EXCEPT !.pc = IF tls[c] THEN "order" ELSE "write",
                     !.job = [on |-> c, record |-> record, then |-> label]] \in Thread
    BY <1>1 DEF Thread, Labels
  <1>3. th' \in [Threads -> Thread]
    BY <1>2 DEF Made, TypeOK
  <1>4. Append(made[c], t) \in Seq(Threads)
    BY AppendProperties DEF TypeOK
  <1> QED
    BY <1>3, <1>4 DEF Made, TypeOK

LEMMA GotoTyped ==
  ASSUME TypeOK, NEW t \in Threads, NEW label \in Labels, Goto(t, label)
  PROVE  th' \in [Threads -> Thread]
  <1>1. [th[t] EXCEPT !.pc = label] \in Thread
    <2>1. th[t] \in Thread
      BY DEF TypeOK
    <2> QED
      BY <2>1 DEF Thread
  <1> QED
    BY <1>1 DEF Goto, TypeOK

LEMMA SentTyped ==
  ASSUME TypeOK, NEW t \in Threads, NEW label \in Labels, Sent(t, label),
         th[t].job \in Job, tls[th[t].job.on] => made[th[t].job.on] # <<>>
  PROVE  /\ made' \in [Conns -> Seq(Threads)]
         /\ sending' \in [Conns -> Threads \cup {NoOne}]
         /\ th' \in [Threads -> Thread]
  <1> DEFINE c == th[t].job.on
  <1>0. c \in Conns
    BY DEF Job
  <1>1. [th[t] EXCEPT !.pc = label, !.job = NoJob] \in Thread
    <2>1. th[t] \in Thread
      BY DEF TypeOK
    <2> QED
      BY <2>1 DEF Thread
  <1>2. th' \in [Threads -> Thread]
    BY <1>1 DEF Sent, TypeOK
  <1>3. made[c] # <<>> => Without(made[c], t) \in Seq(Threads)
    <2> SUFFICES ASSUME made[c] # <<>> PROVE Without(made[c], t) \in Seq(Threads)
      OBVIOUS
    <2>1. Head(made[c]) \in Threads /\ Tail(made[c]) \in Seq(Threads)
      BY <1>0, HeadTailProperties DEF TypeOK
    <2>2. << Head(made[c]) >> \in Seq(Threads)
      BY <2>1
    <2> QED
      BY <2>1, <2>2 DEF Without
  <1> QED
    BY <1>0, <1>2, <1>3 DEF Sent, TypeOK

LEMMA FedTyped ==
  ASSUME TypeOK, NEW t \in Threads, NEW n \in 1..Len(th[t].backlog)
  PROVE  Fed(t, n) \in Thread
  <1> DEFINE backlog == th[t].backlog
  <1>1. backlog \in Seq(Kinds)
    BY DEF TypeOK, Thread
  <1>2. SubSeq(backlog, n + 1, Len(backlog)) \in Seq(Kinds)
    <2>1. Len(backlog) \in Nat
      BY <1>1, LenProperties
    <2>2. \A i \in (n + 1)..Len(backlog) : backlog[i] \in Kinds
      BY <1>1, <2>1, ElementOfSeq
    <2> QED
      BY <2>1, <2>2, SubSeqProperties
  <1> DEFINE plain  == backlog[n] = "data"
             closed == \E i \in 1..n : backlog[i] = "close"
  <1>3. plain \in BOOLEAN /\ closed \in BOOLEAN
    BY Zenon
  <1>4. th[t] \in Thread
    BY DEF TypeOK
  <1>5. Fed(t, n) = [th[t] EXCEPT !.backlog = SubSeq(backlog, n + 1, Len(backlog)),
                                  !.plain = plain, !.closed = closed]
    BY DEF Fed
  <1> HIDE DEF plain, closed
  <1> QED
    BY <1>2, <1>3, <1>4, <1>5 DEF Thread

-----------------------------------------------------------------------------
(* The invariant.                                                          *)

\* Who sends: `conn` is held by who waits for `sending`, `sending` by who writes.
Held ==
  \A t \in Threads :
    /\ th[t].pc \in {"order", "write"} => th[t].job \in Job
    /\ th[t].pc = "order" => tls[th[t].job.on]
    /\ \A c \in Conns :
         /\ conn[c] = t <=> th[t].pc = "order" /\ th[t].job.on = c
         /\ sending[c] = t <=> tls[c] /\ th[t].pc = "write" /\ th[t].job.on = c

\* What waits on a connection by the holders of its locks.
Queue(writer, waiter) ==
  IF writer = NoOne
    THEN IF waiter = NoOne THEN << >> ELSE << waiter >>
    ELSE IF waiter = NoOne THEN << writer >> ELSE << writer, waiter >>

Waiting == \A c \in Conns : made[c] = Queue(sending[c], conn[c])

IInv == TypeOK /\ Held /\ Waiting

LEMMA QueueHead ==
  ASSUME NEW writer \in Threads, NEW waiter \in Threads \cup {NoOne}
  PROVE  /\ Queue(writer, waiter) # << >>
         /\ Head(Queue(writer, waiter)) = writer
         /\ Tail(Queue(writer, waiter)) = Queue(NoOne, waiter)
  BY SocketAssumption DEF Queue

LEMMA QueueAppend ==
  ASSUME NEW writer \in Threads \cup {NoOne}, NEW t \in Threads
  PROVE  Append(Queue(writer, NoOne), t) = Queue(writer, t)
  <1>1. t # NoOne
    BY SocketAssumption
  <1>2. Append(<< >>, t) = << t >>
    OBVIOUS
  <1>3. Append(<< writer >>, t) = << writer, t >>
    <2> DEFINE S == {writer, t}
               both == << writer, t >>
    <2>1. << writer >> \in Seq(S) /\ both \in Seq(S) /\ Len(<< writer >>) = 1 /\ Len(both) = 2
      OBVIOUS
    <2>2. Append(<< writer >>, t) \in Seq(S)
      BY <2>1, AppendProperties
    <2>3. /\ Len(Append(<< writer >>, t)) = 2
          /\ Append(<< writer >>, t)[1] = writer
          /\ Append(<< writer >>, t)[2] = t
      BY <2>1
    <2>4. \A i \in 1..2 : Append(<< writer >>, t)[i] = both[i]
      BY <2>3
    <2> QED
      BY <2>1, <2>2, <2>3, <2>4, SeqEqual
  <1> QED
    BY <1>1, <1>2, <1>3 DEF Queue

LEMMA QueueOrder ==
  ASSUME NEW t \in Threads
  PROVE  Queue(NoOne, t) = Queue(t, NoOne)
  BY SocketAssumption DEF Queue

\* A thread that holds nothing and takes nothing changes no lock.
LEMMA QuietStep ==
  ASSUME IInv, NEW t \in Threads, UNCHANGED <<tls, locks, made>>,
         th' \in [Threads -> Thread],
         \A u \in Threads \ {t} : th'[u] = th[u],
         th[t].pc \notin {"order", "write"}, th'[t].pc \notin {"order", "write"}
  PROVE  Held' /\ Waiting'
  <1>1. Held'
    BY DEF IInv, Held, locks
  <1> QED
    BY <1>1 DEF IInv, Waiting, locks

LEMMA MadeStep ==
  ASSUME IInv, NEW t \in Threads, NEW c \in Conns, NEW record \in Records,
         NEW label \in {"read", "recv", "end", "shut"}, NEW from \in Thread,
         Made(t, c, record, label, from), UNCHANGED <<tls, sending>>,
         tls[c] => conn[c] = NoOne, th[t].pc \notin {"order", "write"}
  PROVE  Held' /\ Waiting'
  <1> DEFINE job == [on |-> c, record |-> record, then |-> label]
  <1>1. job \in Job
    BY DEF Job
  <1>2. th'[t].pc = IF tls[c] THEN "order" ELSE "write"
    BY DEF Made, IInv, TypeOK, Thread
  <1>3. th'[t].job = job
    BY DEF Made, IInv, TypeOK, Thread
  <1>4. \A u \in Threads \ {t} : th'[u] = th[u]
    BY DEF Made, IInv, TypeOK
  <1>5. \A d \in Conns : conn'[d] = IF tls[d] /\ d = c THEN t ELSE conn[d]
    BY DEF Made, IInv, TypeOK
  <1>6. \A d \in Conns : made'[d] = IF tls[d] /\ d = c THEN Append(made[d], t) ELSE made[d]
    <2>1. CASE tls[c]
      <3>1. made' = [made EXCEPT ![c] = Append(made[c], t)]
        BY <2>1 DEF Made
      <3> QED
        BY <2>1, <3>1 DEF IInv, TypeOK
    <2>2. CASE ~tls[c]
      BY <2>2 DEF Made
    <2> QED
      BY <2>1, <2>2
  <1>7. Held'
    <2> SUFFICES ASSUME NEW u \in Threads
                 PROVE  /\ th'[u].pc \in {"order", "write"} => th'[u].job \in Job
                        /\ th'[u].pc = "order" => tls'[th'[u].job.on]
                        /\ \A d \in Conns :
                             /\ conn'[d] = u <=> th'[u].pc = "order" /\ th'[u].job.on = d
                             /\ sending'[d] = u
                                  <=> tls'[d] /\ th'[u].pc = "write" /\ th'[u].job.on = d
      BY DEF Held
    <2>1. CASE u = t
      BY <1>1, <1>2, <1>3, <1>5, <2>1, SocketAssumption DEF IInv, Held
    <2>2. CASE u # t
      BY <1>4, <1>5, <2>2, SocketAssumption DEF IInv, Held
    <2> QED
      BY <2>1, <2>2
  <1>8. Waiting'
    <2> SUFFICES ASSUME NEW d \in Conns PROVE made'[d] = Queue(sending'[d], conn'[d])
      BY DEF Waiting
    <2>1. CASE tls[d] /\ d = c
      <3>1. made[d] = Queue(sending[d], NoOne)
        BY <2>1 DEF IInv, Waiting
      <3>2. Append(Queue(sending[d], NoOne), t) = Queue(sending[d], t)
        BY QueueAppend DEF IInv, TypeOK
      <3> QED
        BY <1>5, <1>6, <2>1, <3>1, <3>2
    <2>2. CASE ~(tls[d] /\ d = c)
      BY <1>5, <1>6, <2>2 DEF IInv, Waiting
    <2> QED
      BY <2>1, <2>2
  <1> QED
    BY <1>7, <1>8

LEMMA OrderStep ==
  ASSUME IInv, NEW t \in Threads, Order(t)
  PROVE  Held' /\ Waiting'
  <1> DEFINE c == th[t].job.on
  <1>1. c \in Conns /\ tls[c] /\ conn[c] = t /\ sending[c] = NoOne
    BY DEF Order, IInv, Held, Job
  <1>2. th'[t].pc = "write" /\ th'[t].job = th[t].job
    BY DEF Order, Goto, IInv, TypeOK, Thread
  <1>3. \A u \in Threads \ {t} : th'[u] = th[u]
    BY DEF Order, Goto, IInv, TypeOK
  <1>4. \A d \in Conns : /\ conn'[d] = IF d = c THEN NoOne ELSE conn[d]
                         /\ sending'[d] = IF d = c THEN t ELSE sending[d]
    BY DEF Order, IInv, TypeOK
  <1>5. UNCHANGED <<tls, made>>
    BY DEF Order, setting
  <1>6. Held'
    BY <1>1, <1>2, <1>3, <1>4, <1>5, SocketAssumption DEF Order, IInv, Held
  <1>7. Waiting'
    BY <1>1, <1>4, <1>5, QueueOrder DEF IInv, Waiting
  <1> QED
    BY <1>6, <1>7

\* Who writes on a TLS connection is the first that waits.
LEMMA WriterFirst ==
  ASSUME IInv, NEW t \in Threads, th[t].pc = "write", tls[th[t].job.on]
  PROVE  /\ sending[th[t].job.on] = t
         /\ made[th[t].job.on] # << >>
         /\ Head(made[th[t].job.on]) = t
         /\ Tail(made[th[t].job.on]) = Queue(NoOne, conn[th[t].job.on])
  <1> DEFINE c == th[t].job.on
  <1>1. c \in Conns /\ sending[c] = t
    BY DEF IInv, Held, Job
  <1>2. made[c] = Queue(t, conn[c]) /\ conn[c] \in Threads \cup {NoOne}
    BY <1>1 DEF IInv, Waiting, TypeOK
  <1> QED
    BY <1>1, <1>2, QueueHead

LEMMA SentStep ==
  ASSUME IInv, NEW t \in Threads, NEW label \in Labels \ {"order", "write"},
         th[t].pc = "write", Sent(t, label)
  PROVE  Held' /\ Waiting'
  <1> DEFINE c == th[t].job.on
  <1>1. c \in Conns
    BY DEF IInv, Held, Job
  <1>2. th'[t].pc = label
    BY DEF Sent, IInv, TypeOK, Thread
  <1>3. \A u \in Threads \ {t} : th'[u] = th[u]
    BY DEF Sent, IInv, TypeOK
  <1>4. \A d \in Conns : sending'[d] = IF tls[d] /\ d = c THEN NoOne ELSE sending[d]
    BY <1>1 DEF Sent, IInv, TypeOK
  <1>5. \A d \in Conns : made'[d] = IF tls[d] /\ d = c THEN Tail(made[d]) ELSE made[d]
    <2>1. CASE tls[c]
      <3>1. made' = [made EXCEPT ![c] = Without(made[c], t)]
        BY <2>1 DEF Sent
      <3>2. Without(made[c], t) = Tail(made[c])
        BY <2>1, WriterFirst DEF Without
      <3> QED
        BY <1>1, <2>1, <3>1, <3>2 DEF IInv, TypeOK
    <2>2. CASE ~tls[c]
      BY <2>2 DEF Sent
    <2> QED
      BY <2>1, <2>2
  <1>6. UNCHANGED <<tls, conn>>
    BY DEF Sent, setting
  <1>7. Held'
    BY <1>1, <1>2, <1>3, <1>4, <1>6, SocketAssumption DEF IInv, Held
  <1>8. Waiting'
    BY <1>1, <1>4, <1>5, <1>6, WriterFirst DEF IInv, Waiting
  <1> QED
    BY <1>7, <1>8

-----------------------------------------------------------------------------
(* The steps.                                                              *)

\* Steps of a thread that hold and take nothing.
QuietLabels == Labels \ {"order", "write"}

LEMMA GotoStep ==
  ASSUME IInv, NEW t \in Threads, NEW label \in QuietLabels, Goto(t, label),
         th[t].pc \in QuietLabels, UNCHANGED <<tls, locks, made>>
  PROVE  th' \in [Threads -> Thread] /\ Held' /\ Waiting'
  <1>1. th' \in [Threads -> Thread]
    BY GotoTyped DEF IInv, QuietLabels
  <1>2. th'[t].pc = label /\ \A u \in Threads \ {t} : th'[u] = th[u]
    BY DEF Goto, IInv, TypeOK, Thread
  <1> QED
    BY <1>1, <1>2, QuietStep DEF QuietLabels

\* The same with other fields of the thread changed.
LEMMA ThreadStep ==
  ASSUME IInv, NEW t \in Threads, NEW to \in Thread, th' = [th EXCEPT ![t] = to],
         th[t].pc \in QuietLabels, to.pc \in QuietLabels, UNCHANGED <<tls, locks, made>>
  PROVE  th' \in [Threads -> Thread] /\ Held' /\ Waiting'
  <1>1. th' \in [Threads -> Thread] /\ th'[t] = to
    BY DEF IInv, TypeOK
  <1>2. \A u \in Threads \ {t} : th'[u] = th[u]
    BY DEF IInv, TypeOK
  <1> QED
    BY <1>1, <1>2, QuietStep DEF QuietLabels

LEMMA IInvInit == Init => IInv
  <1> SUFFICES ASSUME Init PROVE IInv
    OBVIOUS
  <1>1. TypeOK
    <2>1. th \in [Threads -> Thread]
      <3>1. \A t \in Threads :
              [pc |-> Reading(t), job |-> NoJob, backlog |-> <<>>, plain |-> FALSE,
               closed |-> FALSE] \in Thread
        BY SidesTyped, EmptySeq DEF Thread, Labels
      <3> QED
        BY <3>1 DEF Init
    <2> QED
      BY <2>1, EmptySeq, SocketAssumption DEF Init, TypeOK
  <1>2. \A t \in Threads : th[t].pc \in QuietLabels
    BY SidesTyped DEF Init, QuietLabels, Labels
  <1>3. Held
    BY <1>2, SocketAssumption DEF Init, Held, QuietLabels
  <1>4. Waiting
    BY DEF Init, Waiting, Queue
  <1> QED
    BY <1>1, <1>3, <1>4 DEF IInv

LEMMA ThreadNext ==
  ASSUME IInv, NEW t \in Threads, Proceed(t)
  PROVE  IInv'
  <1> USE DEF setting, locks, peerVars
  <1>1. CASE Order(t)
    <2>1. th' \in [Threads -> Thread]
      BY <1>1, GotoTyped DEF Order, IInv, Labels
    <2>2. TypeOK'
      BY <1>1, <2>1 DEF Order, IInv, TypeOK
    <2> QED
      BY <1>1, <2>2, OrderStep DEF IInv
  <1>2. CASE Write(t) \/ WriteFails(t)
    <2>1. th[t].job \in Job /\ th[t].pc = "write"
      BY <1>2 DEF Write, WriteFails, IInv, Held
    <2>2. PICK label \in QuietLabels : Sent(t, label)
      BY <1>2, <2>1 DEF Write, WriteFails, Job, QuietLabels, Labels
    <2>3. /\ made' \in [Conns -> Seq(Threads)]
          /\ sending' \in [Conns -> Threads \cup {NoOne}]
          /\ th' \in [Threads -> Thread]
      BY <2>1, <2>2, SentTyped, WriterFirst DEF IInv, QuietLabels
    <2>4. out' \in [Conns -> Seq(Records)]
      <3>1. Append(out[th[t].job.on], th[t].job.record) \in Seq(Records)
        BY <2>1, AppendProperties DEF IInv, TypeOK, Job
      <3> QED
        BY <1>2, <2>1, <3>1 DEF Write, WriteFails, IInv, TypeOK, Job
    <2>5. TypeOK'
      BY <2>2, <2>3, <2>4 DEF Sent, IInv, TypeOK
    <2> QED
      BY <2>1, <2>2, <2>5, SentStep DEF IInv, QuietLabels
  <1>3. CASE TakePlaintext(t)
    <2>0. th[t] \in Thread /\ FALSE \in BOOLEAN
      BY DEF IInv, TypeOK
    <2>1. [th[t] EXCEPT !.plain = FALSE, !.pc = "relay"] \in Thread
      BY <2>0 DEF Thread, Labels
    <2>2. th' = [th EXCEPT ![t] = [th[t] EXCEPT !.plain = FALSE, !.pc = "relay"]]
      BY <1>3 DEF TakePlaintext
    <2>3. [th[t] EXCEPT !.plain = FALSE, !.pc = "relay"].pc = "relay"
      BY DEF IInv, TypeOK, Thread
    <2>4. th' \in [Threads -> Thread] /\ Held' /\ Waiting'
      BY <1>3, <2>1, <2>2, <2>3, ThreadStep DEF TakePlaintext, QuietLabels, Labels
    <2> QED
      BY <1>3, <2>4 DEF TakePlaintext, IInv, TypeOK
  <1>4. CASE ReadEnds(t) \/ WaitForSocket(t) \/ ReceiveNothing(t) \/ Unreadable(t)
    <2>1. PICK label \in QuietLabels : Goto(t, label)
      BY <1>4 DEF ReadEnds, WaitForSocket, ReceiveNothing, Unreadable, QuietLabels, Labels
    <2>2. th[t].pc \in QuietLabels /\ UNCHANGED <<setting, locks, made, in, out, shut, peerVars>>
      BY <1>4 DEF ReadEnds, WaitForSocket, ReceiveNothing, Unreadable, QuietLabels, Labels
    <2>3. th' \in [Threads -> Thread] /\ Held' /\ Waiting'
      BY <2>1, <2>2, GotoStep
    <2> QED
      BY <2>2, <2>3 DEF IInv, TypeOK
  <1>5. CASE Feed(t)
    <2> DEFINE c == Reads(t)
    <2>1. PICK n \in 1..Len(th[t].backlog) :
            \/ th' = [th EXCEPT ![t] = Fed(t, n)] /\ UNCHANGED <<locks, made>>
            \/ Made(t, c, "answer", "read", Fed(t, n)) /\ UNCHANGED sending
      BY <1>5 DEF Feed
    <2>2. c \in Conns /\ Fed(t, n) \in Thread
      BY SidesTyped, FedTyped DEF IInv
    <2>3. UNCHANGED <<setting, in, out, shut, peerVars>> /\ th[t].pc = "read" /\ conn[c] = NoOne
      BY <1>5 DEF Feed
    <2>4. CASE th' = [th EXCEPT ![t] = Fed(t, n)] /\ UNCHANGED <<locks, made>>
      <3>1. Fed(t, n).pc = "read"
        BY <2>3 DEF Fed, IInv, TypeOK, Thread
      <3>2. th' \in [Threads -> Thread] /\ Held' /\ Waiting'
        BY <2>2, <2>3, <2>4, <3>1, ThreadStep DEF QuietLabels, Labels
      <3> QED
        BY <2>3, <2>4, <3>2 DEF IInv, TypeOK
    <2>5. CASE Made(t, c, "answer", "read", Fed(t, n)) /\ UNCHANGED sending
      <3>1. /\ made' \in [Conns -> Seq(Threads)]
            /\ conn' \in [Conns -> Threads \cup {NoOne}]
            /\ th' \in [Threads -> Thread]
        BY <2>2, <2>5, MadeTyped DEF IInv, Records
      <3>2. Held' /\ Waiting'
        BY <2>2, <2>3, <2>5, MadeStep DEF Records
      <3> QED
        BY <2>3, <2>5, <3>1, <3>2 DEF IInv, TypeOK
    <2> QED
      BY <2>1, <2>4, <2>5
  <1>6. CASE Receive(t)
    <2> DEFINE c == Reads(t)
               to == [th[t] EXCEPT !.backlog = in[c], !.pc = "read"]
    <2>1. c \in Conns /\ th[t].pc = "recv" /\ in[c] # <<>>
      BY <1>6, SidesTyped DEF Receive
    <2>2. in' \in [Conns -> Seq(Kinds)]
      <3>1. in[c] \in Seq(Kinds)
        BY <2>1 DEF IInv, TypeOK
      <3>2. << >> \in Seq(Kinds) /\ Tail(in[c]) \in Seq(Kinds)
        BY <2>1, <3>1, EmptySeq, HeadTailProperties
      <3>3. in' = [in EXCEPT ![c] = << >>] \/ in' = [in EXCEPT ![c] = Tail(in[c])]
        BY <1>6 DEF Receive
      <3> QED
        BY <2>1, <3>2, <3>3 DEF IInv, TypeOK
    <2>3. th' \in [Threads -> Thread] /\ Held' /\ Waiting'
      <3>1. CASE tls[c]
        <4>1. to \in Thread /\ to.pc = "read"
          BY <2>1 DEF IInv, TypeOK, Thread, Labels
        <4>2. th' = [th EXCEPT ![t] = to]
          BY <1>6, <3>1 DEF Receive
        <4> QED
          BY <1>6, <2>1, <4>1, <4>2, ThreadStep DEF Receive, QuietLabels, Labels
      <3>2. CASE ~tls[c]
        BY <1>6, <2>1, <3>2, GotoStep DEF Receive, QuietLabels, Labels
      <3> QED
        BY <3>1, <3>2
    <2> QED
      BY <1>6, <2>2, <2>3 DEF Receive, IInv, TypeOK
  <1>7. CASE Relay(t)
    <2>1. PICK label \in {"read", "recv", "end"} : Made(t, Writes(t), "data", label, th[t])
      BY <1>7, SidesTyped DEF Relay
    <2>2. th[t] \in Thread /\ Writes(t) \in Conns
      BY SidesTyped DEF IInv, TypeOK
    <2>3. /\ made' \in [Conns -> Seq(Threads)]
          /\ conn' \in [Conns -> Threads \cup {NoOne}]
          /\ th' \in [Threads -> Thread]
      BY <2>1, <2>2, MadeTyped DEF IInv, Records
    <2>4. Held' /\ Waiting'
      BY <1>7, <2>1, <2>2, MadeStep DEF Relay, Records
    <2> QED
      BY <1>7, <2>3, <2>4 DEF Relay, IInv, TypeOK
  <1>8. CASE Notify(t)
    <2>1. CASE tls[Writes(t)]
      <3>1. /\ Made(t, Writes(t), "close", "shut", th[t])
            /\ th[t] \in Thread /\ Writes(t) \in Conns
        BY <1>8, <2>1, SidesTyped DEF Notify, IInv, TypeOK
      <3>2. /\ made' \in [Conns -> Seq(Threads)]
            /\ conn' \in [Conns -> Threads \cup {NoOne}]
            /\ th' \in [Threads -> Thread]
        BY <3>1, MadeTyped DEF IInv, Records
      <3>3. Held' /\ Waiting'
        BY <1>8, <2>1, <3>1, MadeStep DEF Notify, Records
      <3> QED
        BY <1>8, <3>2, <3>3 DEF Notify, IInv, TypeOK
    <2>2. CASE ~tls[Writes(t)]
      <3>1. th' \in [Threads -> Thread] /\ Held' /\ Waiting'
        BY <1>8, <2>2, GotoStep DEF Notify, QuietLabels, Labels
      <3> QED
        BY <1>8, <2>2, <3>1 DEF Notify, IInv, TypeOK
    <2> QED
      BY <2>1, <2>2
  <1>9. CASE Shutdown(t)
    <2>1. th' \in [Threads -> Thread] /\ Held' /\ Waiting'
      BY <1>9, GotoStep DEF Shutdown, QuietLabels, Labels
    <2>2. shut' \in [Conns -> {"none", "write", "both"}]
      BY <1>9 DEF Shutdown, IInv, TypeOK
    <2> QED
      BY <1>9, <2>1, <2>2 DEF Shutdown, IInv, TypeOK
  <1>10. CASE t = "down" /\ Join
    <2>1. th' \in [Threads -> Thread] /\ Held' /\ Waiting'
      BY <1>10, GotoStep DEF Join, QuietLabels, Labels
    <2> QED
      BY <1>10, <2>1 DEF Join, IInv, TypeOK
  <1> QED
    BY <1>1, <1>2, <1>3, <1>4, <1>5, <1>6, <1>7, <1>8, <1>9, <1>10 DEF Proceed

LEMMA PeerNext ==
  ASSUME IInv, NEW c \in Conns, Peer(c)
  PROVE  IInv'
  <1> USE DEF setting, locks
  <1>1. UNCHANGED <<kind, tls, conn, sending, made, th, shut>>
    BY DEF Peer, PeerSends, PeerAsks, PeerCloses, PeerReceives, PeerLeaves
  <1>2. Held' /\ Waiting'
    BY <1>1 DEF IInv, Held, Waiting
  <1>3. in' \in [Conns -> Seq(Kinds)]
    <2>1. \A what \in Kinds : Append(in[c], what) \in Seq(Kinds)
      BY AppendProperties DEF IInv, TypeOK
    <2> QED
      BY <2>1 DEF Peer, PeerSends, PeerAsks, PeerCloses, PeerReceives, PeerLeaves, Kinds, IInv, TypeOK
  <1>4. out' \in [Conns -> Seq(Records)]
    <2>1. out[c] # <<>> => Tail(out[c]) \in Seq(Records)
      BY HeadTailProperties DEF IInv, TypeOK
    <2> QED
      <3>1. CASE PeerReceives(c)
        BY <2>1, <3>1 DEF PeerReceives, IInv, TypeOK
      <3>2. CASE PeerLeaves(c)
        <4>1. << >> \in Seq(Records)
          BY EmptySeq
        <4>2. out' = [out EXCEPT ![c] = << >>]
          BY <3>2 DEF PeerLeaves
        <4> QED
          BY <4>1, <4>2 DEF IInv, TypeOK
      <3>3. CASE PeerSends(c) \/ PeerAsks(c) \/ PeerCloses(c)
        BY <3>3 DEF PeerSends, PeerAsks, PeerCloses, IInv, TypeOK
      <3> QED
        BY <3>1, <3>2, <3>3 DEF Peer
  <1>5. /\ eof' \in [Conns -> BOOLEAN] /\ gone' \in [Conns -> BOOLEAN]
        /\ asked' \in [Conns -> BOOLEAN]
    BY DEF Peer, PeerSends, PeerAsks, PeerCloses, PeerReceives, PeerLeaves, IInv, TypeOK
  <1>6. sent' \in [Conns -> 0..MaxData] /\ got' \in [Conns -> Nat]
    <2>1. CASE PeerSends(c)
      <3>1. sent[c] + 1 \in 0..MaxData
        BY <2>1, SocketAssumption DEF PeerSends, IInv, TypeOK
      <3> QED
        BY <2>1, <3>1 DEF PeerSends, IInv, TypeOK
    <2>2. CASE PeerReceives(c)
      <3>1. got[c] \in Nat
        BY DEF IInv, TypeOK
      <3> DEFINE n == IF Head(out[c]) = "data" THEN got[c] + 1 ELSE got[c]
      <3>2. n \in Nat
        BY <3>1
      <3>3. got' = [got EXCEPT ![c] = n]
        BY <2>2 DEF PeerReceives
      <3> HIDE DEF n
      <3> QED
        BY <2>2, <3>2, <3>3 DEF PeerReceives, IInv, TypeOK
    <2>3. CASE PeerAsks(c) \/ PeerCloses(c) \/ PeerLeaves(c)
      BY <2>3 DEF PeerAsks, PeerCloses, PeerLeaves, IInv, TypeOK
    <2> QED
      BY <2>1, <2>2, <2>3 DEF Peer
  <1> QED
    BY <1>1, <1>2, <1>3, <1>4, <1>5, <1>6 DEF IInv, TypeOK

LEMMA IInvNext == IInv /\ [Next]_vars => IInv'
  <1> SUFFICES ASSUME IInv, [Next]_vars PROVE IInv'
    OBVIOUS
  <1>1. CASE UNCHANGED vars
    BY <1>1 DEF vars, setting, locks, peerVars, IInv, TypeOK, Held, Waiting
  <1>2. CASE \E t \in Threads : Proceed(t)
    BY <1>2, ThreadNext
  <1>3. CASE \E c \in Conns : Peer(c)
    BY <1>3, PeerNext
  <1> QED
    BY <1>1, <1>2, <1>3 DEF Next

LEMMA Invariance == Spec => []IInv
  BY IInvInit, IInvNext, PTL DEF Spec

\* The state of a proxied connection is always one of its types (upstream.rs).
THEOREM Typing == Spec => []TypeOK
  <1>1. IInv => TypeOK
    BY DEF IInv
  <1> QED
    BY <1>1, Invariance, PTL

\* Records leave a connection in the order they were encrypted, whatever the size of its
\* socket and however much goes through it (Shared::send).
THEOREM Ordered == Spec => []InOrder
  <1>1. IInv => InOrder
    BY WriterFirst DEF InOrder
  <1> QED
    BY <1>1, Invariance, PTL

-----------------------------------------------------------------------------
(* Counting the data of a sequence.                                        *)

DataAt(kinds) == {i \in 1..Len(kinds) : kinds[i] = "data"}

LEMMA CountTyped ==
  ASSUME NEW S, NEW s \in Seq(S)
  PROVE  CountData(s) \in Nat /\ IsFiniteSet(DataAt(s)) /\ CountData(s) = Cardinality(DataAt(s))
  <1>1. Len(s) \in Nat
    BY LenProperties
  <1>2. IsFiniteSet(1..Len(s))
    BY <1>1, FS_Interval
  <1>3. IsFiniteSet(DataAt(s))
    BY <1>2, FS_Subset DEF DataAt
  <1> QED
    BY <1>3, FS_CardinalityType DEF CountData, DataAt

LEMMA CountEmpty == CountData(<< >>) = 0
  <1>1. {i \in 1..Len(<< >>) : << >>[i] = "data"} = {}
    OBVIOUS
  <1> QED
    BY <1>1, FS_EmptySet DEF CountData

LEMMA CountAppend ==
  ASSUME NEW S, NEW s \in Seq(S), NEW k \in S
  PROVE  CountData(Append(s, k)) = CountData(s) + (IF k = "data" THEN 1 ELSE 0)
  <1> DEFINE longer == Append(s, k)
  <1>1. /\ longer \in Seq(S) /\ Len(s) \in Nat /\ Len(longer) = Len(s) + 1
        /\ \A i \in 1..Len(s) : longer[i] = s[i]
        /\ longer[Len(s) + 1] = k
    BY AppendProperties, LenProperties
  <1>2. /\ IsFiniteSet(DataAt(s)) /\ CountData(s) = Cardinality(DataAt(s))
        /\ CountData(longer) = Cardinality(DataAt(longer))
    BY <1>1, CountTyped
  <1> HIDE DEF longer
  <1>3. CASE k = "data"
    <2>1. DataAt(longer) = DataAt(s) \cup {Len(s) + 1} /\ Len(s) + 1 \notin DataAt(s)
      BY <1>1, <1>3 DEF DataAt
    <2> QED
      BY <1>2, <1>3, <2>1, FS_AddElement DEF longer
  <1>4. CASE k # "data"
    <2>1. DataAt(longer) = DataAt(s)
      BY <1>1, <1>4 DEF DataAt
    <2>2. CountData(longer) = CountData(s) /\ CountData(s) \in Nat
      BY <1>2, <2>1, CountTyped
    <2> QED
      BY <1>4, <2>2 DEF longer
  <1> QED
    BY <1>3, <1>4

\* A beginning with no data but at its end.
LEMMA CountRest ==
  ASSUME NEW S, NEW s \in Seq(S), NEW n \in 1..Len(s), NEW rest \in Seq(S),
         Len(rest) = Len(s) - n, \A i \in 1..Len(rest) : rest[i] = s[i + n],
         \A i \in 1..(n - 1) : s[i] # "data"
  PROVE  CountData(s) = CountData(rest) + (IF s[n] = "data" THEN 1 ELSE 0)
  <1>1. Len(s) \in Nat /\ Len(rest) \in Nat
    BY LenProperties
  <1> DEFINE later == {i \in (n + 1)..Len(s) : s[i] = "data"}
             shift == [i \in DataAt(rest) |-> i + n]
  <1>2. /\ IsFiniteSet(DataAt(rest)) /\ CountData(rest) = Cardinality(DataAt(rest))
        /\ CountData(s) = Cardinality(DataAt(s)) /\ CountData(rest) \in Nat
    BY CountTyped
  <1>3. shift \in Bijection(DataAt(rest), later)
    <2>1. shift \in [DataAt(rest) -> later]
      BY <1>1 DEF DataAt
    <2>2. \A i, j \in DataAt(rest) : shift[i] = shift[j] => i = j
      BY <1>1 DEF DataAt
    <2>3. \A j \in later : \E i \in DataAt(rest) : shift[i] = j
      <3> SUFFICES ASSUME NEW j \in later PROVE \E i \in DataAt(rest) : shift[i] = j
        OBVIOUS
      <3>1. j - n \in DataAt(rest)
        BY <1>1 DEF DataAt
      <3>2. shift[j - n] = j
        BY <1>1, <3>1
      <3> QED
        BY <3>1, <3>2
    <2> QED
      BY <2>1, <2>2, <2>3, Fun_IsBij
  <1>4. IsFiniteSet(later) /\ Cardinality(later) = CountData(rest)
    BY <1>2, <1>3, FS_Bijection DEF ExistsBijection
  <1> HIDE DEF shift
  <1>5. CASE s[n] = "data"
    <2>1. DataAt(s) = later \cup {n} /\ n \notin later
      BY <1>1, <1>5 DEF DataAt
    <2> HIDE DEF later
    <2> QED
      BY <1>2, <1>4, <1>5, <2>1, FS_AddElement
  <1>6. CASE s[n] # "data"
    <2>1. DataAt(s) = later
      BY <1>1, <1>6 DEF DataAt
    <2> HIDE DEF later
    <2> QED
      BY <1>2, <1>4, <1>6, <2>1
  <1> QED
    BY <1>5, <1>6

LEMMA CountTail ==
  ASSUME NEW S, NEW s \in Seq(S), s # << >>
  PROVE  CountData(s) = CountData(Tail(s)) + (IF Head(s) = "data" THEN 1 ELSE 0)
  <1>1. /\ Tail(s) \in Seq(S) /\ Len(Tail(s)) = Len(s) - 1 /\ Head(s) = s[1]
        /\ Len(s) \in Nat \ {0}
        /\ \A i \in 1..Len(Tail(s)) : Tail(s)[i] = s[i + 1]
    BY HeadTailProperties, EmptySeq, LenProperties
  <1>2. 1 \in 1..Len(s) /\ \A i \in 1..(1 - 1) : s[i] # "data"
    BY <1>1
  <1>3. CountData(s) = CountData(Tail(s)) + (IF s[1] = "data" THEN 1 ELSE 0)
    BY <1>1, <1>2, CountRest
  <1> QED
    BY <1>1, <1>3

-----------------------------------------------------------------------------
(* What is on the way.                                                     *)

\* What a thread's place says of its record and its backlog.
Steady(t) ==
  /\ th[t].pc \in QuietLabels => th[t].job = NoJob
  /\ th[t].pc \notin QuietLabels =>
       /\ th[t].job.record = "data" => th[t].job.on = Writes(t)
       /\ th[t].job.then = "recv" => ~tls[Reads(t)]
  /\ th[t].pc = "recv" /\ tls[Reads(t)] => th[t].backlog = << >>

\* A plain connection has no records.
OnlyData == \A c \in Conns : ~tls[c] => \A i \in 1..Len(in[c]) : in[c][i] = "data"

CInv == IInv /\ (\A t \in Threads : Steady(t)) /\ OnlyData /\ NothingLost

Balanced(t) == ~Ended(t) /\ ~gone[Writes(t)] => sent[Reads(t)] = OnTheWay(t)

LEMMA Counted ==
  ASSUME IInv, NEW t \in Threads
  PROVE  /\ CountData(in[Reads(t)]) \in Nat
         /\ CountData(th[t].backlog) \in Nat
         /\ CountData(out[Writes(t)]) \in Nat
         /\ got[Writes(t)] \in Nat /\ sent[Reads(t)] \in Nat
  <1>1. /\ in[Reads(t)] \in Seq(Kinds) /\ th[t].backlog \in Seq(Kinds)
        /\ out[Writes(t)] \in Seq(Records)
        /\ got[Writes(t)] \in Nat /\ sent[Reads(t)] \in Nat
    BY SidesTyped, SocketAssumption DEF IInv, TypeOK, Thread
  <1> QED
    BY <1>1, CountTyped

\* What a step of a thread leaves alone.
LEMMA ThreadEffect ==
  ASSUME IInv, NEW t \in Threads, Proceed(t)
  PROVE  /\ UNCHANGED <<kind, tls, gone, got, sent>>
         /\ \A u \in Threads \ {t} : th'[u] = th[u]
         /\ \A c \in Conns \ {Reads(t)} : in'[c] = in[c]
         /\ th[t].pc # "write" => out' = out
  <1> USE DEF setting, locks, peerVars
  <1>1. UNCHANGED <<kind, tls, gone, got, sent>>
    BY DEF Proceed, Order, Write, WriteFails, Sent, TakePlaintext, ReadEnds, Feed,
           WaitForSocket, Receive, ReceiveNothing, Relay, Unreadable, Notify, Shutdown, Join
  <1>2. \E to : th' = [th EXCEPT ![t] = to]
    BY DEF Proceed, Order, Write, WriteFails, Sent, TakePlaintext, ReadEnds, Feed, Goto, Made,
           WaitForSocket, Receive, ReceiveNothing, Relay, Unreadable, Notify, Shutdown, Join
  <1>3. \A u \in Threads \ {t} : th'[u] = th[u]
    BY <1>2 DEF IInv, TypeOK
  <1>4. \A c \in Conns \ {Reads(t)} : in'[c] = in[c]
    BY DEF Proceed, Order, Write, WriteFails, Sent, TakePlaintext, ReadEnds, Feed,
           WaitForSocket, Receive, ReceiveNothing, Relay, Unreadable, Notify, Shutdown, Join,
           IInv, TypeOK
  <1>5. th[t].pc # "write" => out' = out
    BY DEF Proceed, Order, Write, WriteFails, TakePlaintext, ReadEnds, Feed,
           WaitForSocket, Receive, ReceiveNothing, Relay, Unreadable, Notify, Shutdown, Join
  <1> QED
    BY <1>1, <1>3, <1>4, <1>5

\* A record goes where its thread sends it, and only data is relayed.
LEMMA WriteEffect ==
  ASSUME CInv, NEW t \in Threads, Write(t)
  PROVE  /\ CountData(out'[Writes(t)])
              = CountData(out[Writes(t)]) + (IF th[t].job.record = "data" THEN 1 ELSE 0)
         /\ CountData(out'[Reads(t)]) = CountData(out[Reads(t)])
  <1> DEFINE c == th[t].job.on
             k == th[t].job.record
  <1>1. th[t].job \in Job /\ c \in Conns /\ k \in Records /\ th[t].pc = "write"
    BY DEF Write, CInv, IInv, Held, Job
  <1>2. k = "data" => c = Writes(t)
    BY <1>1 DEF CInv, Steady, QuietLabels
  <1>3. \A d \in Conns : out'[d] = IF d = c THEN Append(out[d], k) ELSE out[d]
    BY <1>1 DEF Write, CInv, IInv, TypeOK
  <1>4. \A d \in Conns : out[d] \in Seq(Records) /\ CountData(out[d]) \in Nat
    BY CountTyped DEF CInv, IInv, TypeOK
  <1>5. CountData(Append(out[c], k)) = CountData(out[c]) + (IF k = "data" THEN 1 ELSE 0)
    BY <1>1, <1>4, CountAppend
  <1>6. c \in {Reads(t), Writes(t)} /\ Reads(t) # Writes(t)
    BY <1>1 DEF Reads, Writes, Other, Conns
  <1>7. Reads(t) \in Conns /\ Writes(t) \in Conns
    BY SidesTyped
  <1> HIDE DEF c, k
  <1>8. /\ CountData(out'[Writes(t)])
             = CountData(out[Writes(t)]) + (IF k = "data" THEN 1 ELSE 0)
        /\ CountData(out'[Reads(t)]) = CountData(out[Reads(t)])
    BY <1>2, <1>3, <1>4, <1>5, <1>6, <1>7
  <1> QED
    BY <1>8 DEF k

\* The other thread keeps what it has and what waits for it.
LEMMA OthersStep ==
  ASSUME CInv, NEW t \in Threads, NEW u \in Threads \ {t}, Proceed(t)
  PROVE  Steady(u)' /\ Balanced(u)'
  <1>1. IInv
    BY DEF CInv
  <1>2. /\ UNCHANGED <<tls, gone, got, sent>> /\ th'[u] = th[u]
        /\ in'[Reads(u)] = in[Reads(u)]
    BY <1>1, ThreadEffect, SidesTyped DEF Reads, Threads
  <1>3. CountData(out'[Writes(u)]) = CountData(out[Writes(u)])
    <2>1. Writes(u) = Reads(t)
      BY DEF Writes, Reads, Other, Threads
    <2>2. CASE Write(t)
      BY <2>1, <2>2, WriteEffect
    <2>3. CASE ~Write(t)
      <3>1. out' = out
        BY <2>3, <1>1, ThreadEffect DEF Proceed, Order, WriteFails, TakePlaintext, ReadEnds,
           Feed, WaitForSocket, Receive, ReceiveNothing, Relay, Unreadable, Notify, Shutdown, Join
      <3> QED
        BY <3>1
    <2> QED
      BY <2>2, <2>3
  <1>4. Balanced(u)
    BY DEF CInv, NothingLost, Balanced
  <1> QED
    BY <1>2, <1>3, <1>4 DEF CInv, Steady, Balanced, Ended, OnTheWay

\* Where a thread goes is all Goto changes.
LEMMA GotoFields ==
  ASSUME IInv, NEW t \in Threads, NEW label, Goto(t, label)
  PROVE  /\ th'[t].pc = label /\ th'[t].job = th[t].job
         /\ th'[t].backlog = th[t].backlog /\ th'[t].plain = th[t].plain
  BY DEF Goto, IInv, TypeOK, Thread

LEMMA MadeFields ==
  ASSUME IInv, NEW t \in Threads, NEW c, NEW record, NEW label, NEW from \in Thread,
         Made(t, c, record, label, from)
  PROVE  /\ th'[t].pc = IF tls[c] THEN "order" ELSE "write"
         /\ th'[t].job = [on |-> c, record |-> record, then |-> label]
         /\ th'[t].backlog = from.backlog /\ th'[t].plain = from.plain
  BY DEF Made, IInv, TypeOK, Thread

\* Feeding TLS takes from the backlog what it makes plain.
LEMMA FedFields ==
  ASSUME IInv, NEW t \in Threads, NEW n \in 1..Len(th[t].backlog), Stops(t, n)
  PROVE  /\ Fed(t, n).pc = th[t].pc /\ Fed(t, n).job = th[t].job
         /\ CountData(th[t].backlog)
              = CountData(Fed(t, n).backlog) + (IF Fed(t, n).plain THEN 1 ELSE 0)
         /\ Fed(t, n).backlog \in Seq(Kinds)
  <1> DEFINE backlog == th[t].backlog
             rest == SubSeq(backlog, n + 1, Len(backlog))
  <1>1. /\ backlog \in Seq(Kinds) /\ Len(backlog) \in Nat
        /\ \A i \in 1..(n - 1) : backlog[i] # "data"
    BY LenProperties DEF IInv, TypeOK, Thread, Stops
  <1>2. /\ Fed(t, n).pc = th[t].pc /\ Fed(t, n).job = th[t].job
        /\ Fed(t, n).backlog = rest /\ Fed(t, n).plain = (backlog[n] = "data")
    BY DEF Fed, IInv, TypeOK, Thread
  <1>3. rest \in Seq(Kinds) /\ Len(rest) = Len(backlog) - n
    <2>1. \A i \in (n + 1)..Len(backlog) : backlog[i] \in Kinds
      BY <1>1, ElementOfSeq
    <2> QED
      BY <1>1, <2>1, SubSeqProperties
  <1>4. \A i \in 1..Len(rest) : rest[i] = backlog[i + n]
    BY <1>1, <1>3, SubSeqProperties
  <1> HIDE DEF rest
  <1>5. CountData(backlog) = CountData(rest) + (IF backlog[n] = "data" THEN 1 ELSE 0)
    BY <1>1, <1>3, <1>4, CountRest
  <1> QED
    BY <1>2, <1>3, <1>5

\* A thread that ends needs no account of what it had.
LEMMA EndStep ==
  ASSUME CInv, NEW t \in Threads, NEW label \in {"end", "shut", "join", "done"}, Goto(t, label),
         th[t].pc \in QuietLabels
  PROVE  Steady(t)' /\ Balanced(t)'
  <1>1. th'[t].pc = label /\ th'[t].job = th[t].job
    BY GotoFields DEF CInv
  <1> QED
    BY <1>1 DEF CInv, Steady, Balanced, Ended, QuietLabels, Labels

\* What a thread has stays on the way or arrives, step by step.
LEMMA OwnStep ==
  ASSUME CInv, NEW t \in Threads, Proceed(t)
  PROVE  Steady(t)' /\ Balanced(t)'
  <1> DEFINE r == Reads(t)
             w == Writes(t)
  <1>1. IInv /\ Steady(t) /\ Balanced(t) /\ th[t] \in Thread
    BY DEF CInv, NothingLost, Balanced, IInv, TypeOK
  <1>2. /\ UNCHANGED <<kind, tls, gone, got, sent>>
        /\ th[t].pc # "write" => out' = out
    BY <1>1, ThreadEffect
  <1>3. /\ CountData(in[r]) \in Nat /\ CountData(th[t].backlog) \in Nat
        /\ CountData(out[w]) \in Nat /\ got[w] \in Nat /\ sent[r] \in Nat
    BY <1>1, Counted
  <1>4. CASE Order(t)
    <2>1. /\ th'[t].pc = "write" /\ th'[t].job = th[t].job /\ th[t].pc = "order"
          /\ th'[t].backlog = th[t].backlog /\ th'[t].plain = th[t].plain /\ in' = in
      BY <1>1, <1>4, GotoFields DEF Order
    <2>2. Steady(t)'
      BY <1>1, <1>2, <2>1 DEF Steady, QuietLabels
    <2>3. Balanced(t)'
      BY <1>1, <1>2, <2>1 DEF Balanced, Ended, OnTheWay
    <2> QED
      BY <2>2, <2>3
  <1>5. CASE Write(t)
    <2>1. /\ th[t].pc = "write" /\ th[t].job \in Job /\ in' = in
          /\ Sent(t, th[t].job.then)
      BY <1>1, <1>5 DEF Write, Sent, IInv, Held
    <2>2. /\ th'[t].pc = th[t].job.then /\ th'[t].job = NoJob
          /\ th'[t].backlog = th[t].backlog /\ th'[t].plain = th[t].plain
      BY <2>1, <1>1 DEF Sent, IInv, TypeOK, Thread
    <2>3. th[t].job # NoJob /\ th[t].job.then \in {"read", "recv", "end", "shut"}
      BY <2>1, SocketAssumption DEF Job
    <2>4. CountData(out'[w]) = CountData(out[w]) + (IF th[t].job.record = "data" THEN 1 ELSE 0)
      BY <1>5, WriteEffect
    <2>5. Steady(t)'
      BY <1>1, <1>2, <2>1, <2>2, <2>3 DEF Steady, QuietLabels, Labels
    <2>6. Balanced(t)'
      BY <1>1, <1>2, <1>3, <2>1, <2>2, <2>3, <2>4 DEF Balanced, Ended, OnTheWay
    <2> QED
      BY <2>5, <2>6
  <1>6. CASE WriteFails(t)
    <2>1. PICK label \in {"end", "shut"} : Sent(t, label)
      BY <1>6 DEF WriteFails
    <2>2. th'[t].pc = label /\ th'[t].job = NoJob
      BY <2>1, <1>1 DEF Sent, IInv, TypeOK, Thread
    <2> QED
      BY <2>2 DEF Steady, Balanced, Ended, QuietLabels, Labels
  <1>7. CASE TakePlaintext(t)
    <2>1. /\ th[t].pc = "read" /\ th[t].plain /\ in' = in
          /\ th' = [th EXCEPT ![t] = [th[t] EXCEPT !.plain = FALSE, !.pc = "relay"]]
      BY <1>7 DEF TakePlaintext
    <2>2. /\ th'[t].pc = "relay" /\ th'[t].job = th[t].job
          /\ th'[t].backlog = th[t].backlog /\ th'[t].plain = FALSE
      BY <1>1, <2>1 DEF IInv, TypeOK, Thread
    <2>3. Steady(t)'
      BY <1>1, <1>2, <2>1, <2>2 DEF Steady, QuietLabels, Labels
    <2>4. Balanced(t)'
      BY <1>1, <1>2, <1>3, <2>1, <2>2 DEF Balanced, Ended, OnTheWay
    <2> QED
      BY <2>3, <2>4
  <1>8. CASE ReadEnds(t)
    BY <1>8, EndStep DEF ReadEnds, QuietLabels, Labels
  <1>9. CASE Feed(t)
    <2>1. PICK n \in 1..Len(th[t].backlog) :
            /\ Stops(t, n)
            /\ \/ th' = [th EXCEPT ![t] = Fed(t, n)]
               \/ Made(t, r, "answer", "read", Fed(t, n))
      BY <1>9 DEF Feed
    <2>2. th[t].pc = "read" /\ ~th[t].plain /\ th[t].job = NoJob /\ in' = in
      BY <1>1, <1>9 DEF Feed, Steady, QuietLabels, Labels
    <2>3. /\ Fed(t, n) \in Thread
          /\ Fed(t, n).pc = "read" /\ Fed(t, n).job = NoJob
          /\ CountData(th[t].backlog)
               = CountData(Fed(t, n).backlog) + (IF Fed(t, n).plain THEN 1 ELSE 0)
          /\ CountData(Fed(t, n).backlog) \in Nat
      BY <1>1, <2>1, <2>2, FedTyped, FedFields, CountTyped DEF IInv
    <2>4. /\ th'[t].backlog = Fed(t, n).backlog /\ th'[t].plain = Fed(t, n).plain
          /\ \/ th'[t].pc = "read" /\ th'[t].job = NoJob
             \/ /\ th'[t].pc \in {"order", "write"}
                /\ th'[t].job = [on |-> r, record |-> "answer", then |-> "read"]
      <3>1. CASE th' = [th EXCEPT ![t] = Fed(t, n)]
        <4>1. th'[t] = Fed(t, n)
          BY <1>1, <3>1 DEF IInv, TypeOK
        <4> QED
          BY <2>3, <4>1
      <3>2. CASE Made(t, r, "answer", "read", Fed(t, n))
        BY <1>1, <2>3, <3>2, MadeFields
      <3> QED
        BY <2>1, <3>1, <3>2
    <2>5. Steady(t)'
      BY <2>4 DEF Steady, QuietLabels, Labels
    <2>6. Balanced(t)'
      BY <1>1, <1>2, <1>3, <2>2, <2>3, <2>4 DEF Balanced, Ended, OnTheWay
    <2> QED
      BY <2>5, <2>6
  <1>10. CASE WaitForSocket(t) \/ (ReceiveNothing(t) /\ tls[r])
    <2>1. /\ th'[t].pc \in {"recv", "eof"} /\ th'[t].job = th[t].job /\ th[t].pc \in {"read", "recv"}
          /\ th'[t].backlog = th[t].backlog /\ th'[t].plain = th[t].plain /\ in' = in
          /\ th'[t].pc = "recv" => th[t].backlog = << >>
      BY <1>1, <1>10, GotoFields DEF WaitForSocket, ReceiveNothing
    <2>2. Steady(t)'
      BY <1>1, <1>2, <2>1 DEF Steady, QuietLabels, Labels
    <2>3. Balanced(t)'
      BY <1>1, <1>2, <2>1 DEF Balanced, Ended, OnTheWay
    <2> QED
      BY <2>2, <2>3
  <1>11. CASE Receive(t)
    <2>1. /\ th[t].pc = "recv" /\ in[r] # << >> /\ in[r] \in Seq(Kinds) /\ r \in Conns
          /\ in \in [Conns -> Seq(Kinds)]
      BY <1>1, <1>11, SidesTyped DEF Receive, IInv, TypeOK
    <2>2. CASE tls[r]
      <3>1. /\ th' = [th EXCEPT ![t] = [th[t] EXCEPT !.backlog = in[r], !.pc = "read"]]
            /\ in' = [in EXCEPT ![r] = << >>]
        BY <1>11, <2>2 DEF Receive
      <3>2. /\ th'[t].pc = "read" /\ th'[t].job = th[t].job
            /\ th'[t].backlog = in[r] /\ th'[t].plain = th[t].plain /\ in'[r] = << >>
        BY <1>1, <2>1, <3>1 DEF IInv, TypeOK, Thread
      <3>3. CountData(th[t].backlog) = 0 /\ CountData(in'[r]) = 0
        BY <1>1, <2>1, <2>2, <3>2, CountEmpty DEF Steady
      <3>4. Steady(t)'
        BY <1>1, <1>2, <2>1, <3>2 DEF Steady, QuietLabels, Labels
      <3>5. Balanced(t)'
        BY <1>1, <1>2, <1>3, <2>1, <3>2, <3>3 DEF Balanced, Ended, OnTheWay
      <3> QED
        BY <3>4, <3>5
    <2>3. CASE ~tls[r]
      <3>1. /\ Goto(t, "relay") /\ in' = [in EXCEPT ![r] = Tail(in[r])]
        BY <1>11, <2>3 DEF Receive
      <3>2. /\ th'[t].pc = "relay" /\ th'[t].job = th[t].job
            /\ th'[t].backlog = th[t].backlog /\ th'[t].plain = th[t].plain
        BY <1>1, <3>1, GotoFields
      <3>3. CountData(in[r]) = CountData(in'[r]) + 1 /\ CountData(in'[r]) \in Nat
        <4>1. in'[r] = Tail(in[r]) /\ Tail(in[r]) \in Seq(Kinds) /\ Head(in[r]) = in[r][1]
              /\ Len(in[r]) \in Nat /\ Len(in[r]) # 0
          BY <2>1, <3>1, HeadTailProperties, EmptySeq, LenProperties
        <4>2. Head(in[r]) = "data"
          BY <2>1, <2>3, <4>1 DEF CInv, OnlyData
        <4> QED
          BY <2>1, <4>1, <4>2, CountTail, CountTyped
      <3>4. Steady(t)'
        BY <1>1, <1>2, <2>1, <3>2 DEF Steady, QuietLabels, Labels
      <3>5. Balanced(t)'
        BY <1>1, <1>2, <1>3, <2>1, <3>2, <3>3 DEF Balanced, Ended, OnTheWay
      <3> QED
        BY <3>4, <3>5
    <2> QED
      BY <2>2, <2>3
  <1>12. CASE Relay(t)
    <2>1. PICK label \in {"read", "recv", "end"} :
            /\ Made(t, w, "data", label, th[t])
            /\ label = "recv" => ~tls[r]
      BY <1>12 DEF Relay, Reading
    <2>2. th[t].pc = "relay" /\ th[t].job = NoJob /\ in' = in
      BY <1>1, <1>12 DEF Relay, Steady, QuietLabels, Labels
    <2>3. /\ th'[t].pc \in {"order", "write"}
          /\ th'[t].job = [on |-> w, record |-> "data", then |-> label]
          /\ th'[t].backlog = th[t].backlog /\ th'[t].plain = th[t].plain
      BY <1>1, <2>1, MadeFields
    <2>4. th'[t].job # NoJob
      BY <2>3, SidesTyped, SocketAssumption DEF Job, Records
    <2>5. Steady(t)'
      BY <1>2, <2>1, <2>3 DEF Steady, QuietLabels, Labels
    <2>6. Balanced(t)'
      BY <1>1, <1>2, <1>3, <2>2, <2>3, <2>4 DEF Balanced, Ended, OnTheWay
    <2> QED
      BY <2>5, <2>6
  <1>13. CASE Unreadable(t)
    BY <1>13, EndStep DEF Unreadable, QuietLabels, Labels
  <1>14. CASE Notify(t)
    <2>1. CASE tls[w]
      <3>1. Made(t, w, "close", "shut", th[t])
        BY <1>14, <2>1 DEF Notify
      <3>2. /\ th'[t].pc \in {"order", "write"}
            /\ th'[t].job = [on |-> w, record |-> "close", then |-> "shut"]
        BY <1>1, <3>1, MadeFields
      <3> QED
        BY <3>2 DEF Steady, Balanced, Ended, QuietLabels, Labels
    <2>2. CASE ~tls[w]
      BY <1>14, <2>2, EndStep DEF Notify, QuietLabels, Labels
    <2> QED
      BY <2>1, <2>2
  <1>15. CASE Shutdown(t)
    BY <1>15, EndStep DEF Shutdown, QuietLabels, Labels
  <1>16. CASE t = "down" /\ Join
    BY <1>16, EndStep DEF Join, QuietLabels, Labels
  <1>17. CASE ReceiveNothing(t) /\ ~tls[r]
    BY <1>17, EndStep DEF ReceiveNothing, QuietLabels, Labels
  <1> QED
    BY <1>4, <1>5, <1>6, <1>7, <1>8, <1>9, <1>10, <1>11, <1>12, <1>13, <1>14, <1>15, <1>16, <1>17
       DEF Proceed


\* A peer's sends and receives keep the account of what they touch.
LEMMA PeerStep ==
  ASSUME CInv, NEW c \in Conns, Peer(c), NEW t \in Threads
  PROVE  Steady(t)' /\ Balanced(t)'
  <1> DEFINE r == Reads(t)
             w == Writes(t)
  <1> USE DEF setting, locks
  <1>1. /\ IInv /\ Steady(t) /\ Balanced(t) /\ r \in Conns /\ w \in Conns
        /\ in \in [Conns -> Seq(Kinds)] /\ out \in [Conns -> Seq(Records)]
        /\ sent \in [Conns -> 0..MaxData] /\ got \in [Conns -> Nat] /\ gone \in [Conns -> BOOLEAN]
    BY SidesTyped DEF CInv, NothingLost, Balanced, IInv, TypeOK
  <1>2. UNCHANGED <<tls, th>>
    BY DEF Peer, PeerSends, PeerAsks, PeerCloses, PeerReceives, PeerLeaves
  <1>3. Steady(t)'
    BY <1>1, <1>2 DEF Steady
  <1>4. /\ CountData(in[r]) \in Nat /\ CountData(th[t].backlog) \in Nat
        /\ CountData(out[w]) \in Nat /\ got[w] \in Nat /\ sent[r] \in Nat
    BY <1>1, Counted
  <1> DEFINE b == CountData(th[t].backlog)
             p == IF th[t].plain THEN 1 ELSE 0
             q == IF th[t].pc = "relay" THEN 1 ELSE 0
             k == IF th[t].job # NoJob /\ th[t].job.record = "data" THEN 1 ELSE 0
  <1>parts. /\ b \in Nat /\ p \in Nat /\ q \in Nat /\ k \in Nat
         /\ OnTheWay(t) = CountData(in[r]) + b + p + q + k + CountData(out[w]) + got[w]
    BY <1>4 DEF OnTheWay
  <1>after. OnTheWay(t)' = CountData(in'[r]) + b + p + q + k + CountData(out'[w]) + got'[w]
    BY <1>2 DEF OnTheWay
  <1>ends. Ended(t)' <=> Ended(t)
    BY <1>2 DEF Ended
  <1> HIDE DEF b, p, q, k
  <1>5. \A x \in Kinds : CountData(Append(in[r], x))
                           = CountData(in[r]) + (IF x = "data" THEN 1 ELSE 0)
    BY <1>1, CountAppend
  <1>6. CASE PeerSends(c)
    <2>1. /\ UNCHANGED <<th, out, gone, got>>
          /\ in'[r] = IF r = c THEN Append(in[r], "data") ELSE in[r]
          /\ sent'[r] = IF r = c THEN sent[r] + 1 ELSE sent[r]
      BY <1>1, <1>6 DEF PeerSends
    <2>2. CountData(in'[r]) = CountData(in[r]) + (IF r = c THEN 1 ELSE 0)
      <3>1. CountData(Append(in[r], "data")) = CountData(in[r]) + 1
        BY <1>5 DEF Kinds
      <3> HIDE DEF r
      <3>2. CASE r = c
        BY <2>1, <3>1, <3>2
      <3>3. CASE r # c
        BY <1>4, <2>1, <3>3
      <3> QED
        BY <3>2, <3>3
    <2>3. Balanced(t)'
      <3> SUFFICES ASSUME ~Ended(t)', ~gone'[w] PROVE sent'[r] = OnTheWay(t)'
        BY DEF Balanced
      <3>1. sent[r] = CountData(in[r]) + b + p + q + k + CountData(out[w]) + got[w]
        BY <1>1, <1>parts, <1>ends, <2>1 DEF Balanced
      <3> HIDE DEF r, w
      <3> QED
        BY <1>4, <1>parts, <1>after, <2>1, <2>2, <3>1
    <2> QED
      BY <1>3, <2>3
  <1>7. CASE PeerAsks(c) \/ PeerCloses(c)
    <2>1. /\ UNCHANGED <<th, out, gone, got, sent>>
          /\ \/ in'[r] = in[r]
             \/ in'[r] = Append(in[r], "calls")
             \/ in'[r] = Append(in[r], "close")
      BY <1>1, <1>7 DEF PeerAsks, PeerCloses
    <2>2. CountData(in'[r]) = CountData(in[r])
      <3>1. /\ CountData(Append(in[r], "calls")) = CountData(in[r])
            /\ CountData(Append(in[r], "close")) = CountData(in[r])
        BY <1>4, <1>5 DEF Kinds
      <3> HIDE DEF r
      <3> QED
        BY <2>1, <3>1
    <2>3. Balanced(t)'
      BY <1>1, <2>1, <2>2 DEF Balanced, Ended, OnTheWay
    <2> QED
      BY <1>3, <2>3
  <1>8. CASE PeerReceives(c)
    <2>1. /\ UNCHANGED <<th, in, gone, sent>> /\ out[c] # << >>
          /\ out'[w] = IF w = c THEN Tail(out[w]) ELSE out[w]
          /\ got'[w] = IF w = c /\ Head(out[w]) = "data" THEN got[w] + 1 ELSE got[w]
      BY <1>1, <1>8 DEF PeerReceives
    <2>2. w = c => /\ CountData(out[w])
                        = CountData(Tail(out[w])) + (IF Head(out[w]) = "data" THEN 1 ELSE 0)
                   /\ CountData(Tail(out[w])) \in Nat
      BY <1>1, <2>1, CountTail, CountTyped, HeadTailProperties
    <2>3. /\ CountData(out'[w]) + got'[w] = CountData(out[w]) + got[w]
          /\ CountData(out'[w]) \in Nat /\ got'[w] \in Nat
      <3> HIDE DEF w
      <3>1. CASE w = c
        BY <1>4, <2>1, <2>2, <3>1
      <3>2. CASE w # c
        BY <1>4, <2>1, <3>2
      <3> QED
        BY <3>1, <3>2
    <2>4. Balanced(t)'
      <3> SUFFICES ASSUME ~Ended(t)', ~gone'[w] PROVE sent'[r] = OnTheWay(t)'
        BY DEF Balanced
      <3>1. sent[r] = CountData(in[r]) + b + p + q + k + CountData(out[w]) + got[w]
        BY <1>1, <1>parts, <1>ends, <2>1 DEF Balanced
      <3>2. sent'[r] = sent[r] /\ in'[r] = in[r]
        BY <2>1
      <3> HIDE DEF r, w
      <3> QED
        BY <1>4, <1>parts, <1>after, <2>3, <3>1, <3>2
    <2> QED
      BY <1>3, <2>4
  <1>9. CASE PeerLeaves(c)
    <2>1. /\ UNCHANGED <<th, in, got, sent>>
          /\ w = c => gone'[w]
          /\ w # c => out'[w] = out[w] /\ gone'[w] = gone[w]
      BY <1>1, <1>9 DEF PeerLeaves
    <2>2. Balanced(t)'
      BY <1>1, <2>1 DEF Balanced, Ended, OnTheWay
    <2> QED
      BY <1>3, <2>2
  <1> QED
    BY <1>6, <1>7, <1>8, <1>9 DEF Peer

LEMMA OnlyDataNext ==
  ASSUME CInv, Next
  PROVE  OnlyData'
  <1> SUFFICES ASSUME NEW d \in Conns, ~tls'[d], NEW i \in 1..Len(in'[d])
               PROVE  in'[d][i] = "data"
    BY DEF OnlyData
  <1> USE DEF setting, locks
  <1>1. in \in [Conns -> Seq(Kinds)] /\ in[d] \in Seq(Kinds) /\ Len(in[d]) \in Nat
    BY LenProperties DEF CInv, IInv, TypeOK
  <1>2. ~tls[d] => \A j \in 1..Len(in[d]) : in[d][j] = "data"
    BY DEF CInv, OnlyData
  <1>3. CASE \E t \in Threads : Proceed(t)
    <2>1. PICK t \in Threads : Proceed(t)
      BY <1>3
    <2>2. ~tls[d]
      BY <2>1, ThreadEffect DEF CInv
    <2>3. in'[d] = in[d] \/ (in[d] # << >> /\ in'[d] = Tail(in[d]))
      BY <1>1, <2>1, <2>2, SidesTyped
         DEF Proceed, Order, Write, WriteFails, Sent, TakePlaintext, ReadEnds, Feed,
             WaitForSocket, Receive, ReceiveNothing, Relay, Unreadable, Notify, Shutdown, Join
    <2> QED
      BY <1>1, <1>2, <2>2, <2>3, HeadTailProperties
  <1>4. CASE \E c \in Conns : Peer(c)
    <2>1. PICK c \in Conns : Peer(c)
      BY <1>4
    <2>2. ~tls[d]
      BY <2>1 DEF Peer, PeerSends, PeerAsks, PeerCloses, PeerReceives, PeerLeaves
    <2>3. in'[d] = in[d] \/ in'[d] = Append(in[d], "data")
      BY <1>1, <2>1, <2>2 DEF Peer, PeerSends, PeerAsks, PeerCloses, PeerReceives, PeerLeaves
    <2>4. /\ Len(Append(in[d], "data")) = Len(in[d]) + 1
          /\ \A j \in 1..Len(in[d]) : Append(in[d], "data")[j] = in[d][j]
          /\ Append(in[d], "data")[Len(in[d]) + 1] = "data"
      BY <1>1, AppendProperties DEF Kinds
    <2>5. CASE in'[d] = in[d]
      BY <1>2, <2>2, <2>5
    <2>6. CASE in'[d] = Append(in[d], "data")
      <3>1. i \in 1..(Len(in[d]) + 1)
        BY <2>4, <2>6
      <3>2. i \in 1..Len(in[d]) \/ i = Len(in[d]) + 1
        BY <1>1, <3>1
      <3> QED
        BY <1>2, <2>2, <2>4, <2>6, <3>2
    <2> QED
      BY <2>3, <2>5, <2>6
  <1> QED
    BY <1>3, <1>4 DEF Next

LEMMA CInvInit == Init => CInv
  <1> SUFFICES ASSUME Init PROVE CInv
    OBVIOUS
  <1>1. IInv
    BY IInvInit
  <1>2. \A t \in Threads : /\ th[t].pc = Reading(t) /\ th[t].job = NoJob
                           /\ th[t].backlog = << >> /\ th[t].plain = FALSE
    BY DEF Init
  <1>3. \A t \in Threads : Steady(t)
    BY <1>2, SidesTyped DEF Steady, QuietLabels, Labels, Reading
  <1>4. OnlyData
    <2>1. \A c \in Conns : in[c] = << >>
      BY DEF Init
    <2> QED
      BY <2>1 DEF OnlyData
  <1>5. NothingLost
    <2>1. \A t \in Threads : OnTheWay(t) = 0 /\ sent[Reads(t)] = 0
      BY <1>2, SidesTyped, CountEmpty DEF Init, OnTheWay
    <2> QED
      BY <2>1 DEF NothingLost
  <1> QED
    BY <1>1, <1>3, <1>4, <1>5 DEF CInv

LEMMA CInvNext == CInv /\ [Next]_vars => CInv'
  <1> SUFFICES ASSUME CInv, [Next]_vars PROVE CInv'
    OBVIOUS
  <1>1. IInv'
    BY IInvNext DEF CInv
  <1>2. CASE Next
    <2>1. \A t \in Threads : Steady(t)' /\ Balanced(t)'
      BY <1>2, OwnStep, OthersStep, PeerStep DEF Next
    <2>2. NothingLost'
      BY <2>1 DEF NothingLost, Balanced
    <2> QED
      BY <1>1, <1>2, <2>1, <2>2, OnlyDataNext DEF CInv
  <1>3. CASE UNCHANGED vars
    <2>1. UNCHANGED <<tls, th, in, out, gone, sent, got>>
      BY <1>3 DEF vars, setting, peerVars
    <2>2. (\A t \in Threads : Steady(t)') /\ OnlyData' /\ NothingLost'
      BY <2>1 DEF CInv, Steady, OnlyData, NothingLost, OnTheWay, Ended
    <2> QED
      BY <1>1, <2>2 DEF CInv
  <1> QED
    BY <1>2, <1>3

\* Whatever is sent, by whichever peer and in whatever pieces it is read, a direction that
\* runs has all of it on the way or delivered (ReadHalf::read, its backlog; splice).
THEOREM Kept == Spec => []NothingLost
  <1>1. CInv => NothingLost
    BY DEF CInv
  <1> QED
    BY <1>1, CInvInit, CInvNext, PTL DEF Spec

=============================================================================
