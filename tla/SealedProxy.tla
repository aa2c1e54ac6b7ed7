---------------------------- MODULE SealedProxy ----------------------------
(***************************************************************************)
(* The HTTP proxy of a sealed run (sealed/run.rs, sealed/proxy.rs): which  *)
(* keys a run seals and to which hosts, and what one connection of the     *)
(* command carries: a tunnel, requests inside TLS the proxy terminates, a  *)
(* plain request, a WebSocket.                                             *)
(*                                                                         *)
(* A message is the set of the things in it the properties tell apart: a   *)
(* key's placeholder, its value, either inside the base64 of a Basic       *)
(* header, a signature made with either.  A pattern of hosts is the set of *)
(* hosts it names.  An origin is a host: what reaches it is seen[h], and   *)
(* it may send back anything it has seen.  How bytes are cut and framed is *)
(* SealedRelay's; who is served at all is SealedService's.                 *)
(***************************************************************************)
EXTENDS Integers, FiniteSets

CONSTANTS
  Keys,      \* the keys of the schema
  Hosts,     \* the hosts a command may name
  Loopback,  \* those among them that are this machine
  Setups,    \* the schemas, values and pins a run may start with
  Conns,     \* connections of the command
  None,      \* no key, no host
  MaxRequests  \* bound: requests on one connection

ASSUME ProxyAssumption == Loopback \subseteq Hosts /\ None \notin Hosts \cup Keys

VARIABLES
  setup,   \* what the run started with: of each key its type, hosts and pin
  sealed,  \* the keys held back from the command, None until the run is prepared
  seen,    \* history: what reached each origin
  got,     \* history: what the command was sent back
  http     \* each connection's session

proxyVars == <<setup, sealed, seen, got, http>>

-----------------------------------------------------------------------------
(* prepare: the keys a run seals, and their hosts                          *)

IsSet(k) == setup[k].value
Computed(k) == setup[k].hosts = "computed"

\* A computed list counts only when its pin names exactly the same hosts, and it
\* was not read from a sensitive value.
Pinned(k) == ~setup[k].hot /\ setup[k].names # {} /\ setup[k].pin = setup[k].names

HasHosts(k) == setup[k].hosts = "written" \/ (Computed(k) /\ IsSet(k))
Sealable == {k \in Keys : HasHosts(k) /\ IsSet(k) /\ ~setup[k].url}

\* Each reason prepare has to refuse the whole run; a sealed URL's are SealedLogin's.
Refused ==
  \/ \E k \in Keys : Computed(k) /\ IsSet(k) /\ ~Pinned(k)
  \/ \E k \in Keys : HasHosts(k) /\ IsSet(k) /\ setup[k].signs
  \/ \E k \in Sealable : ~setup[k].room

IsAws(k) == setup[k].aws

Prepare ==
  /\ sealed = None
  /\ ~Refused
  /\ sealed' = Sealable
  /\ UNCHANGED <<setup, seen, got, http>>

-----------------------------------------------------------------------------
(* Swaps of the proxy                                                      *)

Thing(form, k) == [form |-> form, key |-> k]

\* host_allowed over the hosts of a key.
HostAllowed(k, h) == h \in setup[k].names
Allowed(h) == \E k \in sealed : HostAllowed(k, h)

\* request_swaps and basic_auth.
GoesUp(k, h) == k \in sealed /\ ~IsAws(k) /\ HostAllowed(k, h)

\* The key a signed request to h is signed again with.
SignsAgain(k, h) == k \in sealed /\ IsAws(k) /\ HostAllowed(k, h)

Up(thing, h) ==
  CASE thing.form = "placeholder" /\ GoesUp(thing.key, h)      -> Thing("value", thing.key)
    [] thing.form = "basicPlaceholder" /\ GoesUp(thing.key, h) ->
         Thing("basicValue", thing.key)
    [] thing.form = "signature" /\ SignsAgain(thing.key, h)    -> Thing("resigned", thing.key)
    [] OTHER -> thing

\* What an answer must swap back beside the values: what penv itself made.
Echoes(head, h) ==
  {thing \in {Up(t, h) : t \in head} : thing.form \in {"basicValue", "resigned"}}

\* A value under four bytes is not looked for; one long enough is found inside a
\* base64 it did not come in.
Down(thing, echoes) ==
  CASE thing.form = "value" /\ thing.key \in sealed /\ setup[thing.key].length # "tiny" ->
         Thing("placeholder", thing.key)
    [] thing.form = "basicValue"
         /\ (thing \in echoes \/ (thing.key \in sealed /\ setup[thing.key].length = "long")) ->
         Thing("basicPlaceholder", thing.key)
    [] thing.form = "resigned" /\ thing \in echoes -> Thing("signature", thing.key)
    [] OTHER -> thing

-----------------------------------------------------------------------------
(* A session                                                               *)

\* at: where serve stands.  host: the origin the tunnel was opened to.  own: what
\* the last request carried up; echoes: what its answer must swap back.
Session(at, host) ==
  [at |-> at, host |-> host, plain |-> FALSE, own |-> {}, echoes |-> {},
   closing |-> FALSE, asked |-> 0]

NoSession == Session("none", None)

ProxyInit ==
  /\ setup \in Setups
  /\ sealed = None
  /\ seen = [h \in Hosts |-> {}]
  /\ got = {}
  /\ http = [c \in Conns |-> NoSession]

HttpBegin(c) == http' = [http EXCEPT ![c] = Session("first", None)]
HttpOver(c) == http[c].at = "over"

Becomes(c, session) == http' = [http EXCEPT ![c] = session]
Leaves(c) == Becomes(c, Session("over", None))

\* What a request, a body or an answer may hold.
Things == {Thing("placeholder", k) : k \in Keys}
Held == Things \cup {Thing("basicPlaceholder", k) : k \in Keys}
             \cup {Thing("signature", k) : k \in {k \in Keys : IsAws(k)}}

\* Only what the command does not hold itself is worth recording, on the way up and
\* on the way back.
Telling(things) == {t \in things : t.form \in {"value", "basicValue", "resigned"}}

Reached(h, head, body, way) ==
  seen' = [seen EXCEPT
    ![h] = @ \cup {[thing |-> t, place |-> "head", way |-> way] : t \in Telling(head)}
             \cup {[thing |-> t, place |-> "body", way |-> way] : t \in Telling(body)}]

\* What an origin sends back: something it has seen, or nothing.
Echo(h) == {{}} \cup {{s.thing} : s \in seen[h]}

\* as: the part of a connection it came in, "data" or a WebSocket's "control" frame; whose
\* request a control frame echoes does not matter.
Sent(c, things, as) ==
  got' = got \cup
    {[thing |-> t, own |-> as = "data" /\ t \in http[c].own, as |-> as] : t \in Telling(things)}

\* CONNECT to a host some key may go to is intercepted, to any other a tunnel.
Connect(c) ==
  /\ http[c].at = "first"
  /\ \E h \in Hosts : Becomes(c, Session(IF Allowed(h) THEN "request" ELSE "tunnel", h))
  /\ UNCHANGED <<setup, sealed, seen, got>>

\* Neither CONNECT nor http://, a head that cannot be read, a host that cannot be
\* reached, a side that left or was silent for IDLE.
HttpFails(c) ==
  /\ http[c].at \in {"first", "request", "answer", "tunnel", "socket"}
  /\ Leaves(c)
  /\ UNCHANGED <<setup, sealed, seen, got>>

TunnelUp(c) ==
  /\ http[c].at = "tunnel"
  /\ \E t \in Held : Reached(http[c].host, {t}, {}, "tunnel")
  /\ UNCHANGED <<setup, sealed, got, http>>

TunnelDown(c) ==
  /\ http[c].at = "tunnel"
  /\ \E echo \in Echo(http[c].host) : Sent(c, echo, "data")
  /\ UNCHANGED <<setup, sealed, seen, http>>

-----------------------------------------------------------------------------
(* intercept                                                               *)

\* The request is for the origin the tunnel was opened to.
MutantSameOrigin(request, h) == request.host # None
SameOrigin(request, h) == request.host = h

Misdirected(c) ==
  /\ http[c].at = "request"
  /\ \E h \in Hosts \cup {None} :
       /\ ~SameOrigin([host |-> h], http[c].host)
       /\ Leaves(c)
  /\ UNCHANGED <<setup, sealed, seen, got>>

\* A request signed for an AWS key goes up with the values in its head, signed
\* again; its body must be declared or short enough to hash.
ResignedOrPlain(head, body, hashable, h) ==
  (\E t \in head : t.form = "signature" /\ SignsAgain(t.key, h)) => hashable

\* Values go into the head alone; a front end routes what it gets by its Host.
Body(body, h) == body

Request(c) ==
  /\ http[c].at = "request" /\ http[c].asked < MaxRequests
  /\ \E route \in Hosts, item \in Held \cup {None}, body \in {{}} \cup {{t} : t \in Things},
        hashable, closing \in BOOLEAN :
       LET h    == http[c].host
           head == IF item = None THEN {} ELSE {item}
       IN  /\ SameOrigin([host |-> route], h)
           /\ IF ResignedOrPlain(head, body, hashable, h)
                THEN /\ Reached(route, {Up(t, h) : t \in head}, Body(body, h), "tls")
                     /\ Becomes(c, [http[c] EXCEPT
                          !.at = "answer", !.asked = @ + 1, !.closing = closing,
                          !.own = {Up(t, h) : t \in head}, !.echoes = Echoes(head, h)])
                ELSE Leaves(c) /\ UNCHANGED seen
  /\ UNCHANGED <<setup, sealed, got>>

\* The echoes of one exchange and the values of every key.
SwappedBack(c, things) == {Down(t, http[c].echoes) : t \in things}

\* An answer before the answer; the wait goes on.
Interim(c) ==
  /\ http[c].at = "answer"
  /\ \E echo \in Echo(http[c].host) : Sent(c, SwappedBack(c, echo), "data")
  /\ UNCHANGED <<setup, sealed, seen, http>>

\* The head is swapped, the body too when it can be read; an encoded body is
\* refused with 502 before anything of the answer is sent.
Readable(encoded) == ~encoded

\* What the command reads of an answer: encoded bytes pass no swap.
Seen(c, echo, encoded) == IF encoded THEN echo ELSE SwappedBack(c, echo)

Answer(c) ==
  /\ http[c].at = "answer"
  /\ \E echo \in Echo(http[c].host), encoded, ends \in BOOLEAN :
       IF Readable(encoded)
         THEN /\ Sent(c, Seen(c, echo, encoded), "data")
              /\ IF http[c].closing \/ ends
                   THEN Leaves(c)
                   ELSE Becomes(c, [http[c] EXCEPT !.at = "request", !.own = {}, !.echoes = {}])
         ELSE Leaves(c) /\ UNCHANGED got
  /\ UNCHANGED <<setup, sealed, seen>>

\* 101: a WebSocket goes on as frames, anything else is refused.
Upgrade(c) ==
  /\ http[c].at = "answer" /\ ~http[c].plain
  /\ \E websocket \in BOOLEAN, echo \in Echo(http[c].host) :
       IF websocket
         THEN /\ Sent(c, SwappedBack(c, echo), "data")
              /\ Becomes(c, [http[c] EXCEPT !.at = "socket"])
         ELSE Leaves(c) /\ UNCHANGED got
  /\ UNCHANGED <<setup, sealed, seen>>

\* Up as they are, like a body.
SocketUp(c) ==
  /\ http[c].at = "socket"
  /\ \E t \in Things : Reached(http[c].host, {}, {t}, "tls")
  /\ UNCHANGED <<setup, sealed, got, http>>

\* rewrite_frame: a message is swapped back; a control frame, and one of a reserved
\* opcode, passes as it is.
RewriteFrame(c, echo, as) == IF as = "data" THEN SwappedBack(c, echo) ELSE echo

SocketDown(c) ==
  /\ http[c].at = "socket"
  /\ \E echo \in Echo(http[c].host), as \in {"data", "control"} :
       Sent(c, RewriteFrame(c, echo, as), as)
  /\ UNCHANGED <<setup, sealed, seen, http>>

-----------------------------------------------------------------------------
(* forward_plain: one request over plain HTTP                              *)

\* Values go in plain only to this machine.
SwapsPlain(h) == h \in Loopback /\ Allowed(h)

Plain(c) ==
  /\ http[c].at = "first"
  /\ \E h \in Hosts, t \in Held, body \in {{}} \cup {{b} : b \in Things}, hashable \in BOOLEAN :
       LET sent == IF SwapsPlain(h) THEN Up(t, h) ELSE t
           echoes == IF SwapsPlain(h) THEN Echoes({t}, h) ELSE {}
       IN  IF SwapsPlain(h) => ResignedOrPlain({t}, body, hashable, h)
             THEN /\ Reached(h, {sent}, body, "plain")
                  /\ Becomes(c, [Session("answer", h) EXCEPT
                       !.plain = TRUE, !.closing = TRUE, !.own = {sent}, !.echoes = echoes])
             ELSE Leaves(c) /\ UNCHANGED seen
  /\ UNCHANGED <<setup, sealed, got>>

-----------------------------------------------------------------------------

HttpStep(c) ==
  \/ Connect(c) \/ Plain(c) \/ HttpFails(c)
  \/ TunnelUp(c) \/ TunnelDown(c)
  \/ Misdirected(c) \/ Request(c) \/ Interim(c) \/ Answer(c) \/ Upgrade(c)
  \/ SocketUp(c) \/ SocketDown(c)

-----------------------------------------------------------------------------
(* Properties                                                              *)

\* The hosts the schema and the pins give a key.
Grants(k) ==
  CASE setup[k].hosts = "written"  -> setup[k].names
    [] setup[k].hosts = "computed" -> setup[k].names \cap setup[k].pin
    [] OTHER                       -> {}

\* A value reaches no origin but those its key's @hosts names (and, where they are
\* computed, its pin too), only in the head of a request, and over TLS unless the
\* origin is this machine; an AWS secret never leaves, only what it signs
\* (proxy.rs:1-5, 34-35, 252-254, 357-359).
OnlyToItsHosts ==
  \A h \in Hosts : \A s \in seen[h] :
    /\ s.thing.form \in {"value", "basicValue", "resigned"} =>
         /\ h \in Grants(s.thing.key)
         /\ s.place = "head"
         /\ s.way = "tls" \/ (s.way = "plain" /\ h \in Loopback)
    /\ s.thing.form \in {"value", "basicValue"} => ~setup[s.thing.key].aws

\* What an origin echoes comes back with its placeholder: the value itself, whatever
\* the connection it came up on; the Basic header and the signature penv made, in the
\* exchange that carried them, and in any later one where the value is long enough to
\* be found in another's base64 (proxy.rs:463-500, 518-537).  Not so in a WebSocket's
\* control frames, which nothing is swapped in (websocket.rs:1-8, 81-86): the exception
\* is theirs alone.
EchoesComeBackSealed ==
  \A g \in got : g.as # "control" =>
    /\ g.thing.form = "value" => setup[g.thing.key].length = "tiny"
    /\ g.own => g.thing.form \notin {"basicValue", "resigned"}
    /\ g.thing.form = "basicValue" => setup[g.thing.key].length # "long"

\* A value leaves only for its own hosts, and no answer hands it to the command.
ValuesStaySealed == OnlyToItsHosts /\ EchoesComeBackSealed

=============================================================================
