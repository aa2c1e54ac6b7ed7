------------------------ MODULE SealedServiceProofs ------------------------
(***************************************************************************)
(* ValuesStaySealed, LoginHolds and TurnedAwayOnlyWhenFull for any setup,  *)
(* any hosts, any sealed URL, any number of connections and any limit on   *)
(* them.  What an origin has seen of a key, the key's hosts allow; what an *)
(* answer must swap back of what its request carried up is remembered with *)
(* it; a login knows of the placeholder, the role and the transport it     *)
(* went through; and the count of slots is that of the served connections. *)
(***************************************************************************)
EXTENDS SealedService, FiniteSetTheorems, WellFoundedInduction, TLAPS

-----------------------------------------------------------------------------
(* The invariant of the HTTP proxy.                                        *)

SessionFields == {"at", "host", "plain", "own", "echoes", "closing", "asked"}

\* A run that is prepared sealed what it could, and had nothing to refuse.
Chosen == sealed # None => sealed = Sealable /\ ~Refused

\* A session is served by a prepared run, with an origin of its own; a tunnel goes
\* where no key may; and what penv made of a request's head its answer swaps back.
Kept(s) ==
  /\ DOMAIN s = SessionFields
  /\ s.at # "none" => sealed # None
  /\ s.at \in {"request", "answer", "tunnel", "socket"} => s.host \in Hosts
  /\ s.at = "tunnel" => ~Allowed(s.host)
  /\ \A t \in s.own : t.form \in {"basicValue", "resigned"} => t \in s.echoes

\* What may be seen of a key at an origin.
Due(s, h) ==
  /\ s.thing = Thing(s.thing.form, s.thing.key)
  /\ s.thing.form \in {"value", "basicValue", "resigned"}
  /\ sealed # None /\ s.thing.key \in sealed /\ HostAllowed(s.thing.key, h)
  /\ s.thing.form # "resigned" => ~IsAws(s.thing.key)
  /\ s.place = "head"
  /\ s.way = "tls" \/ (s.way = "plain" /\ h \in Loopback)

HttpInv ==
  /\ DOMAIN http = Conns /\ DOMAIN seen = Hosts
  /\ Chosen
  /\ \A c \in Conns : Kept(http[c])
  /\ \A h \in Hosts : \A s \in seen[h] : Due(s, h)
  /\ EchoesComeBackSealed

-----------------------------------------------------------------------------
(* The invariant of the database proxies.                                  *)

LoginFields ==
  {"at", "users", "given", "secured", "scram", "verified", "early", "asked", "count", "spent"}

\* What was spent of a password was spent as the URL allows.
SpentAsAllowed(s) ==
  /\ target.scheme = "postgres" =>
       /\ s.given
       /\ s.form \in Auth
       /\ MustEncrypt => s.secured
       /\ s.afterScram => s.form = "scram"
       /\ target.sslmode = "verify" => target.certified
  /\ target.scheme = "redis" => s.form # "kept"

\* How far a login is: its role pinned, its placeholder proved, its connection made;
\* and what the database has asked and shown.
Reckoned(s) ==
  /\ DOMAIN s = LoginFields
  /\ s.at \in {"prove", "connect", "auth", "piped"} =>
       (target.user # Nobody => s.users = <<target.user>>)
  /\ s.at \in {"connect", "auth", "piped"} => s.given
  /\ s.at \in {"auth", "piped"} =>
       /\ MustEncrypt => s.secured
       /\ target.sslmode = "verify" => target.certified
  /\ s.at = "redis" => target.scheme # "postgres"
  /\ s.at \in {"startup", "prove", "connect", "auth", "piped"} => target.scheme = "postgres"
  /\ s.scram \in {"none", "begun", "answered"} /\ (s.scram # "none" => "scram" \in Auth)
  /\ s.verified => target.genuine \/ s.early
  /\ \A method \in s.asked : method \in Auth
  /\ s.at = "piped" => (s.scram # "none" => s.verified) /\ (s.asked = {} => "none" \in Auth)
  /\ \A spent \in s.spent : SpentAsAllowed(spent)

LoginInv ==
  /\ DOMAIN login = Conns
  /\ \A c \in Conns : Reckoned(login[c])

-----------------------------------------------------------------------------
(* The invariant of the listener.                                          *)

SlotInv ==
  /\ DOMAIN phase = Conns
  /\ IsFiniteSet(Served) /\ used = Cardinality(Served) /\ used <= MaxConnections

IInv == HttpInv /\ LoginInv /\ SlotInv

-----------------------------------------------------------------------------
(* What goes up, and what comes down.                                      *)

LEMMA SessionFieldsOf ==
  ASSUME NEW at, NEW h
  PROVE  /\ DOMAIN Session(at, h) = SessionFields
         /\ Session(at, h).at = at /\ Session(at, h).host = h /\ Session(at, h).own = {}
  BY DEF Session, SessionFields

\* What the command may write is no value; what is made of it on its way to h may go there.
LEMMA UpIsDue ==
  ASSUME Chosen, sealed # None, NEW h \in Hosts, NEW t \in Held, NEW way,
         way = "tls" \/ (way = "plain" /\ h \in Loopback),
         Up(t, h).form \in {"value", "basicValue", "resigned"}
  PROVE  Due([thing |-> Up(t, h), place |-> "head", way |-> way], h)
  <1> DEFINE s == [thing |-> Up(t, h), place |-> "head", way |-> way]
             k == t.key
  <1>1. PICK form \in {"placeholder", "basicPlaceholder", "signature"}, key \in Keys : t = Thing(form, key)
    BY DEF Held, Things
  <1>2. t.form \in {"placeholder", "basicPlaceholder", "signature"}
    BY <1>1 DEF Thing
  <1>3. \/ t.form = "placeholder" /\ GoesUp(k, h) /\ Up(t, h) = Thing("value", k)
        \/ t.form = "basicPlaceholder" /\ GoesUp(k, h) /\ Up(t, h) = Thing("basicValue", k)
        \/ t.form = "signature" /\ SignsAgain(k, h) /\ Up(t, h) = Thing("resigned", k)
    BY <1>2 DEF Up
  <1>4. /\ Up(t, h) = Thing(Up(t, h).form, Up(t, h).key) /\ Up(t, h).key = k
        /\ k \in sealed /\ HostAllowed(k, h)
        /\ Up(t, h).form # "resigned" => ~IsAws(k)
    BY <1>3 DEF Thing, GoesUp, SignsAgain
  <1>5. s.thing = Up(t, h) /\ s.place = "head" /\ s.way = way
    OBVIOUS
  <1> HIDE DEF s
  <1> QED
    BY <1>4, <1>5 DEF Due, s

\* What is sent of a head is due to its host, and nothing of a body is worth recording.
LEMMA SeenGrows ==
  ASSUME HttpInv, UNCHANGED <<setup, sealed>>, NEW h \in Hosts, NEW head, NEW body, NEW way,
         Reached(h, head, body, way), Telling(body) = {},
         \A t \in Telling(head) : Due([thing |-> t, place |-> "head", way |-> way], h)
  PROVE  DOMAIN seen' = Hosts /\ \A g \in Hosts : \A s \in seen'[g] : Due(s, g)'
  <1> DEFINE new == {[thing |-> t, place |-> "head", way |-> way] : t \in Telling(head)}
  <1>1. seen' = [seen EXCEPT ![h] = @ \cup new \cup {}]
    BY DEF Reached
  <1>2. \A s \in new : Due(s, h)
    OBVIOUS
  <1> HIDE DEF new
  <1>3. \A g \in Hosts : \A s \in seen'[g] : Due(s, g)
    BY <1>1, <1>2 DEF HttpInv
  <1>4. DOMAIN seen' = Hosts
    BY <1>1 DEF HttpInv
  <1>5. \A g \in Hosts : \A s \in seen'[g] : Due(s, g) => Due(s, g)'
    BY DEF Due, HostAllowed, IsAws
  <1> QED
    BY <1>3, <1>4, <1>5

\* What the command is sent without telling it anything.
Discreet(t, own) ==
  /\ t.form = "value" => setup[t.key].length = "tiny"
  /\ t \in own => t.form \notin {"basicValue", "resigned"}
  /\ t.form = "basicValue" => setup[t.key].length # "long"

LEMMA GotGrows ==
  ASSUME HttpInv, UNCHANGED setup, NEW c, NEW things, NEW as, Sent(c, things, as),
         as # "control" => \A t \in Telling(things) : Discreet(t, http[c].own)
  PROVE  EchoesComeBackSealed'
  <1> SUFFICES ASSUME NEW g \in got', g.as # "control"
               PROVE  /\ g.thing.form = "value" => setup[g.thing.key].length = "tiny"
                      /\ g.own => g.thing.form \notin {"basicValue", "resigned"}
                      /\ g.thing.form = "basicValue" => setup[g.thing.key].length # "long"
    BY DEF EchoesComeBackSealed
  <1>1. CASE g \in got
    BY <1>1 DEF HttpInv, EchoesComeBackSealed
  <1>2. CASE g \notin got
    <2>1. PICK t \in Telling(things) :
            g = [thing |-> t, own |-> as = "data" /\ t \in http[c].own, as |-> as]
      BY <1>2 DEF Sent
    <2>2. g.thing = t /\ g.own = (as = "data" /\ t \in http[c].own) /\ g.as = as
      BY <2>1
    <2> QED
      BY <2>2 DEF Discreet
  <1> QED
    BY <1>1, <1>2

\* What an answer makes of what its origin has seen, when the exchange remembers what
\* penv made of its own request.
LEMMA DownIsDiscreet ==
  ASSUME NEW s, NEW h, Due(s, h), NEW own, NEW echoes,
         \A t \in own : t.form \in {"basicValue", "resigned"} => t \in echoes,
         Down(s.thing, echoes).form \in {"value", "basicValue", "resigned"}
  PROVE  Discreet(Down(s.thing, echoes), own)
  <1> DEFINE t == s.thing
  <1>1. t.form \in {"value", "basicValue", "resigned"} /\ t.key \in sealed
    BY DEF Due
  <1> HIDE DEF t
  <1>2. CASE t.form = "value"
    BY <1>1, <1>2 DEF Down, Thing, Discreet, t
  <1>3. CASE t.form = "basicValue"
    BY <1>1, <1>3 DEF Down, Thing, Discreet, t
  <1>4. CASE t.form = "resigned"
    BY <1>1, <1>4 DEF Down, Thing, Discreet, t
  <1> QED
    BY <1>1, <1>2, <1>3, <1>4

\* An answer of the session's own origin.
LEMMA AnswerGrows ==
  ASSUME HttpInv, UNCHANGED setup, NEW c \in Conns, http[c].host \in Hosts,
         NEW echo \in Echo(http[c].host), NEW as, Sent(c, SwappedBack(c, echo), as)
  PROVE  EchoesComeBackSealed'
  <1> SUFFICES ASSUME NEW t \in Telling(SwappedBack(c, echo))
               PROVE  Discreet(t, http[c].own)
    BY GotGrows
  <1>1. PICK e \in echo : t = Down(e, http[c].echoes)
    BY DEF Telling, SwappedBack
  <1>2. PICK s \in seen[http[c].host] : e = s.thing
    BY <1>1 DEF Echo
  <1>3. Due(s, http[c].host) /\ Kept(http[c])
    BY DEF HttpInv
  <1>4. t.form \in {"value", "basicValue", "resigned"}
    BY DEF Telling
  <1> QED
    BY <1>1, <1>2, <1>3, <1>4, DownIsDiscreet DEF Kept

LEMMA SessionsKept ==
  ASSUME HttpInv, UNCHANGED <<setup, sealed>>, NEW c \in Conns, NEW s, Becomes(c, s), Kept(s)
  PROVE  DOMAIN http' = Conns /\ \A d \in Conns : Kept(http[d])'
  <1>1. DOMAIN http' = Conns /\ \A d \in Conns : http'[d] \in {http[d], s}
    BY DEF HttpInv, Becomes
  <1>2. \A d \in Conns : Kept(http'[d])
    BY <1>1 DEF HttpInv
  <1> QED
    BY <1>1, <1>2 DEF Kept, Allowed, HostAllowed

LEMMA ChosenStays == ASSUME Chosen, UNCHANGED <<setup, sealed>> PROVE Chosen'
  BY DEF Chosen, Sealable, Refused, HasHosts, Computed, IsSet, Pinned

\* What was seen and sent stays due.
LEMMA DueStays ==
  ASSUME HttpInv, UNCHANGED <<setup, sealed, seen>>
  PROVE  DOMAIN seen' = Hosts /\ \A h \in Hosts : \A s \in seen'[h] : Due(s, h)'
  BY DEF HttpInv, Due, HostAllowed, IsAws

LEMMA GotStays ==
  ASSUME HttpInv, UNCHANGED <<setup, got>> PROVE EchoesComeBackSealed'
  BY DEF HttpInv, EchoesComeBackSealed

LEMMA OverKept == ASSUME NEW h, sealed # None PROVE Kept(Session("over", h))
  BY SessionFieldsOf DEF Kept

-----------------------------------------------------------------------------
(* The steps of the HTTP proxy.                                            *)

\* A session's step that leaves the run as it is.
LEMMA HttpWhole ==
  ASSUME HttpInv, UNCHANGED <<setup, sealed>>, NEW c \in Conns, NEW s, Becomes(c, s), Kept(s),
         DOMAIN seen' = Hosts /\ \A h \in Hosts : \A e \in seen'[h] : Due(e, h)',
         EchoesComeBackSealed'
  PROVE  HttpInv'
  <1>1. Chosen'
    BY ChosenStays DEF HttpInv
  <1>2. DOMAIN http' = Conns /\ \A d \in Conns : Kept(http[d])'
    BY SessionsKept
  <1> QED
    BY <1>1, <1>2 DEF HttpInv

\* One that leaves the sessions as they are.
LEMMA HttpFlows ==
  ASSUME HttpInv, UNCHANGED <<setup, sealed, http>>,
         DOMAIN seen' = Hosts /\ \A h \in Hosts : \A e \in seen'[h] : Due(e, h)',
         EchoesComeBackSealed'
  PROVE  HttpInv'
  <1>1. Chosen'
    BY ChosenStays DEF HttpInv
  <1>2. DOMAIN http' = Conns /\ \A d \in Conns : Kept(http[d])'
    BY DEF HttpInv, Kept, Allowed, HostAllowed
  <1> QED
    BY <1>1, <1>2 DEF HttpInv

LEMMA HttpStays == ASSUME HttpInv, UNCHANGED proxyVars PROVE HttpInv'
  <1>1. UNCHANGED <<setup, sealed, seen, got, http>>
    BY DEF proxyVars
  <1> QED
    BY <1>1, HttpFlows, DueStays, GotStays

\* The command's things tell nothing, wherever they go.
LEMMA HeldTellsNothing ==
  /\ \A t \in Held : Telling({t}) = {}
  /\ \A t \in Things : Telling({t}) = {}
  /\ Telling({}) = {}
  BY DEF Held, Things, Thing, Telling

LEMMA BodyTellsNothing ==
  ASSUME NEW body \in {{}} \cup {{t} : t \in Things} PROVE Telling(body) = {}
  BY HeldTellsNothing

\* A head of what the command holds, with its values put in.
LEMMA HeadIsDue ==
  ASSUME Chosen, sealed # None, NEW h \in Hosts, NEW head, head \subseteq Held, NEW way,
         way = "tls" \/ (way = "plain" /\ h \in Loopback)
  PROVE  \A t \in Telling({Up(u, h) : u \in head}) :
            Due([thing |-> t, place |-> "head", way |-> way], h)
  <1> SUFFICES ASSUME NEW u \in head, Up(u, h).form \in {"value", "basicValue", "resigned"}
               PROVE  Due([thing |-> Up(u, h), place |-> "head", way |-> way], h)
    BY DEF Telling
  <1> QED
    BY UpIsDue

LEMMA ConnectKeeps == ASSUME HttpInv, NEW c \in Conns, Connect(c) PROVE HttpInv'
  <1>1. PICK h \in Hosts : Becomes(c, Session(IF Allowed(h) THEN "request" ELSE "tunnel", h))
    BY DEF Connect
  <1>2. http[c].at = "first" /\ UNCHANGED <<setup, sealed, seen, got>>
    BY DEF Connect
  <1>3. sealed # None
    BY <1>2 DEF HttpInv, Kept
  <1>4. Kept(Session(IF Allowed(h) THEN "request" ELSE "tunnel", h))
    BY <1>3, SessionFieldsOf DEF Kept
  <1> QED
    BY <1>1, <1>2, <1>4, HttpWhole, DueStays, GotStays

LEMMA LeavesKeeps ==
  ASSUME HttpInv, NEW c \in Conns, http[c].at # "none", Leaves(c),
         UNCHANGED <<setup, sealed, seen, got>>
  PROVE  HttpInv'
  <1>1. Kept(Session("over", None))
    BY OverKept DEF HttpInv, Kept
  <1> QED
    BY <1>1, HttpWhole, DueStays, GotStays DEF Leaves

LEMMA TunnelKeeps == ASSUME HttpInv, NEW c \in Conns, TunnelUp(c) \/ TunnelDown(c) PROVE HttpInv'
  <1> DEFINE h == http[c].host
  <1>1. /\ h \in Hosts /\ ~Allowed(h) /\ UNCHANGED <<setup, sealed, http>>
    BY DEF TunnelUp, TunnelDown, HttpInv, Kept
  <1>2. CASE TunnelUp(c)
    <2>1. PICK t \in Held : Reached(h, {t}, {}, "tunnel")
      BY <1>2 DEF TunnelUp
    <2>2. Telling({t}) = {} /\ Telling({}) = {}
      BY HeldTellsNothing
    <2>3. DOMAIN seen' = Hosts /\ \A g \in Hosts : \A s \in seen'[g] : Due(s, g)'
      BY <1>1, <2>1, <2>2, SeenGrows
    <2> QED
      BY <1>1, <1>2, <2>3, HttpFlows, GotStays DEF TunnelUp
  <1>3. CASE TunnelDown(c)
    <2>1. PICK echo \in Echo(h) : Sent(c, echo, "data")
      BY <1>3 DEF TunnelDown
    <2>2. echo = {}
      BY <1>1 DEF Echo, HttpInv, Due, Allowed
    <2>3. EchoesComeBackSealed'
      BY <1>1, <2>1, <2>2, GotGrows DEF Telling
    <2> QED
      BY <1>1, <1>3, <2>3, HttpFlows, DueStays DEF TunnelDown
  <1> QED
    BY <1>2, <1>3

LEMMA RequestKeeps == ASSUME HttpInv, NEW c \in Conns, Request(c) PROVE HttpInv'
  <1> DEFINE h == http[c].host
             s == http[c]
  <1>1. /\ s.at = "request" /\ h \in Hosts /\ sealed # None /\ DOMAIN s = SessionFields
        /\ UNCHANGED <<setup, sealed, got>> /\ Chosen
    BY DEF Request, HttpInv, Kept
  <1>2. CASE Leaves(c) /\ UNCHANGED seen
    BY <1>1, <1>2, LeavesKeeps
  <1>3. CASE ~(Leaves(c) /\ UNCHANGED seen)
    <2>1. PICK item \in Held \cup {None}, body \in {{}} \cup {{t} : t \in Things}, closing \in BOOLEAN :
            LET head == IF item = None THEN {} ELSE {item} IN
            /\ Reached(h, {Up(t, h) : t \in head}, Body(body, h), "tls")
            /\ Becomes(c, [http[c] EXCEPT
                 !.at = "answer", !.asked = @ + 1, !.closing = closing,
                 !.own = {Up(t, h) : t \in head}, !.echoes = Echoes(head, h)])
      BY <1>3 DEF Request, SameOrigin
    <2> DEFINE head == IF item = None THEN {} ELSE {item}
               own == {Up(t, h) : t \in head}
               session == [http[c] EXCEPT
                 !.at = "answer", !.asked = @ + 1, !.closing = closing,
                 !.own = own, !.echoes = Echoes(head, h)]
    <2>2. /\ DOMAIN session = SessionFields /\ session.at = "answer" /\ session.host = h
          /\ session.own = own /\ session.echoes = Echoes(head, h)
      BY <1>1 DEF SessionFields
    <2>3. Becomes(c, session) /\ Reached(h, own, body, "tls")
      BY <2>1 DEF Body
    <2>4. head \subseteq Held
      OBVIOUS
    <2> HIDE DEF session, head
    <2>5. Kept(session)
      BY <1>1, <2>2 DEF Kept, Echoes
    <2>6. \A t \in Telling(own) : Due([thing |-> t, place |-> "head", way |-> "tls"], h)
      BY <1>1, <2>4, HeadIsDue
    <2> HIDE DEF own, h, s
    <2>7. DOMAIN seen' = Hosts /\ \A g \in Hosts : \A e \in seen'[g] : Due(e, g)'
      BY <1>1, <2>3, <2>6, BodyTellsNothing, SeenGrows
    <2> QED
      BY <1>1, <2>3, <2>5, <2>7, HttpWhole, GotStays
  <1> QED
    BY <1>2, <1>3

LEMMA PlainKeeps == ASSUME HttpInv, NEW c \in Conns, Plain(c) PROVE HttpInv'
  <1>1. /\ http[c].at = "first" /\ sealed # None /\ Chosen
        /\ UNCHANGED <<setup, sealed, got>>
    BY DEF Plain, HttpInv, Kept
  <1>2. CASE Leaves(c) /\ UNCHANGED seen
    BY <1>1, <1>2, LeavesKeeps
  <1>3. CASE ~(Leaves(c) /\ UNCHANGED seen)
    <2>1. PICK h \in Hosts, t \in Held, body \in {{}} \cup {{b} : b \in Things} :
            LET sent == IF SwapsPlain(h) THEN Up(t, h) ELSE t
                echoes == IF SwapsPlain(h) THEN Echoes({t}, h) ELSE {}
            IN  /\ Reached(h, {sent}, body, "plain")
                /\ Becomes(c, [Session("answer", h) EXCEPT
                     !.plain = TRUE, !.closing = TRUE, !.own = {sent}, !.echoes = echoes])
      BY <1>3 DEF Plain
    <2> DEFINE sent == IF SwapsPlain(h) THEN Up(t, h) ELSE t
               echoes == IF SwapsPlain(h) THEN Echoes({t}, h) ELSE {}
               session == [Session("answer", h) EXCEPT
                     !.plain = TRUE, !.closing = TRUE, !.own = {sent}, !.echoes = echoes]
    <2>2. /\ DOMAIN session = SessionFields /\ session.at = "answer" /\ session.host = h
          /\ session.own = {sent} /\ session.echoes = echoes
      BY DEF Session, SessionFields
    <2>3. Becomes(c, session) /\ Reached(h, {sent}, body, "plain")
      BY <2>1
    <2> HIDE DEF session
    <2>4. sent.form \in {"basicValue", "resigned"} => sent \in echoes
      <3>1. CASE SwapsPlain(h)
        BY <3>1 DEF Echoes
      <3>2. CASE ~SwapsPlain(h)
        BY <3>2 DEF Held, Things, Thing
      <3> QED
        BY <3>1, <3>2
    <2>5. \A u \in Telling({sent}) : Due([thing |-> u, place |-> "head", way |-> "plain"], h)
      <3>1. CASE SwapsPlain(h)
        <4>1. {sent} = {Up(u, h) : u \in {t}}
          BY <3>1
        <4> QED
          BY <1>1, <3>1, <4>1, HeadIsDue DEF SwapsPlain
      <3>2. CASE ~SwapsPlain(h)
        BY <3>2, HeldTellsNothing
      <3> QED
        BY <3>1, <3>2
    <2> HIDE DEF sent, echoes
    <2>6. Kept(session)
      BY <1>1, <2>2, <2>4 DEF Kept
    <2>7. DOMAIN seen' = Hosts /\ \A g \in Hosts : \A e \in seen'[g] : Due(e, g)'
      BY <1>1, <2>3, <2>5, BodyTellsNothing, SeenGrows
    <2> QED
      BY <1>1, <2>3, <2>6, <2>7, HttpWhole, GotStays
  <1> QED
    BY <1>2, <1>3

LEMMA AnswerKeeps ==
  ASSUME HttpInv, NEW c \in Conns, Interim(c) \/ Answer(c) \/ Upgrade(c) \/ SocketDown(c)
  PROVE  HttpInv'
  <1> DEFINE h == http[c].host
             again == [http[c] EXCEPT !.at = "request", !.own = {}, !.echoes = {}]
             socket == [http[c] EXCEPT !.at = "socket"]
  <1>1. /\ http[c].at \in {"answer", "socket"} /\ h \in Hosts /\ sealed # None
        /\ DOMAIN http[c] = SessionFields /\ Kept(http[c])
        /\ UNCHANGED <<setup, sealed, seen>>
    BY DEF Interim, Answer, Upgrade, SocketDown, HttpInv, Kept
  <1>2. CASE Leaves(c) /\ UNCHANGED got
    BY <1>1, <1>2, LeavesKeeps
  <1>3. CASE ~(Leaves(c) /\ UNCHANGED got)
    <2>1. PICK echo \in Echo(h) :
            /\ Sent(c, SwappedBack(c, echo), "data") \/ Sent(c, echo, "control")
            /\ UNCHANGED http \/ Leaves(c) \/ Becomes(c, again) \/ Becomes(c, socket)
      BY <1>3 DEF Interim, Answer, Upgrade, SocketDown, RewriteFrame, Readable, Seen
    <2>2. EchoesComeBackSealed'
      BY <1>1, <2>1, AnswerGrows, GotGrows
    <2>3. Kept(again)
      <3>1. /\ DOMAIN again = SessionFields /\ again.at = "request" /\ again.host = h
            /\ again.own = {}
        BY <1>1 DEF SessionFields
      <3> HIDE DEF again
      <3> QED
        BY <1>1, <3>1 DEF Kept
    <2>4. Kept(socket)
      <3>1. /\ DOMAIN socket = SessionFields /\ socket.at = "socket" /\ socket.host = h
            /\ socket.own = http[c].own /\ socket.echoes = http[c].echoes
        BY <1>1 DEF SessionFields
      <3> HIDE DEF socket
      <3> QED
        BY <1>1, <3>1 DEF Kept
    <2>5. Kept(Session("over", None))
      BY <1>1, OverKept
    <2> HIDE DEF again, socket
    <2>6. CASE UNCHANGED http
      BY <1>1, <2>2, <2>6, HttpFlows, DueStays
    <2>7. CASE Leaves(c) \/ Becomes(c, again) \/ Becomes(c, socket)
      BY <1>1, <2>2, <2>3, <2>4, <2>5, <2>7, HttpWhole, DueStays DEF Leaves
    <2> QED
      BY <2>1, <2>6, <2>7
  <1> QED
    BY <1>2, <1>3

LEMMA SocketUpKeeps == ASSUME HttpInv, NEW c \in Conns, SocketUp(c) PROVE HttpInv'
  <1>1. PICK t \in Things : Reached(http[c].host, {}, {t}, "tls")
    BY DEF SocketUp
  <1>2. http[c].host \in Hosts /\ UNCHANGED <<setup, sealed, got, http>>
    BY DEF SocketUp, HttpInv, Kept
  <1>3. Telling({t}) = {} /\ Telling({}) = {}
    BY HeldTellsNothing
  <1>4. DOMAIN seen' = Hosts /\ \A g \in Hosts : \A s \in seen'[g] : Due(s, g)'
    BY <1>1, <1>2, <1>3, SeenGrows
  <1> QED
    BY <1>2, <1>4, HttpFlows, GotStays

LEMMA PrepareKeeps == ASSUME HttpInv, Prepare PROVE HttpInv'
  <1>1. /\ sealed = None /\ ~Refused /\ sealed' = Sealable
        /\ UNCHANGED <<setup, seen, got, http>>
    BY DEF Prepare
  <1>2. Chosen'
    BY <1>1 DEF Chosen, Sealable, Refused, HasHosts, Computed, IsSet, Pinned
  <1>3. \A c \in Conns : Kept(http[c])'
    BY <1>1 DEF HttpInv, Kept
  <1>4. \A h \in Hosts : \A s \in seen'[h] : Due(s, h)'
    BY <1>1 DEF HttpInv, Due
  <1> QED
    BY <1>1, <1>2, <1>3, <1>4, GotStays DEF HttpInv

LEMMA HttpStepKeeps == ASSUME HttpInv, NEW c \in Conns, HttpStep(c) PROVE HttpInv'
  <1>1. CASE HttpFails(c) \/ Misdirected(c)
    BY <1>1, LeavesKeeps DEF HttpFails, Misdirected
  <1>2. CASE Connect(c) \/ Plain(c) \/ TunnelUp(c) \/ TunnelDown(c) \/ Request(c) \/ SocketUp(c)
    BY <1>2, ConnectKeeps, PlainKeeps, TunnelKeeps, RequestKeeps, SocketUpKeeps
  <1>3. CASE Interim(c) \/ Answer(c) \/ Upgrade(c) \/ SocketDown(c)
    BY <1>3, AnswerKeeps
  <1> QED
    BY <1>1, <1>2, <1>3 DEF HttpStep

-----------------------------------------------------------------------------
(* The steps of the database proxies.                                      *)

\* A login's step.
LEMMA LoginsReckoned ==
  ASSUME LoginInv, UNCHANGED target, NEW c \in Conns, NEW s,
         login' = [login EXCEPT ![c] = s], Reckoned(s)
  PROVE  LoginInv'
  <1>1. DOMAIN login' = Conns /\ \A d \in Conns : login'[d] \in {login[d], s}
    BY DEF LoginInv
  <1>2. \A d \in Conns : Reckoned(login'[d])
    BY <1>1 DEF LoginInv
  <1>3. \A d \in Conns : Reckoned(login[d])'
    BY <1>2 DEF Reckoned, SpentAsAllowed, Auth, MustEncrypt
  <1> QED
    BY <1>1, <1>3 DEF LoginInv

LEMMA LoginStays == ASSUME LoginInv, UNCHANGED loginVars PROVE LoginInv'
  BY DEF LoginInv, Reckoned, SpentAsAllowed, Auth, MustEncrypt, loginVars

LEMMA NoLoginFields ==
  /\ DOMAIN NoLogin = LoginFields
  /\ NoLogin.at = "none" /\ NoLogin.scram = "none" /\ NoLogin.verified = FALSE
  /\ NoLogin.asked = {} /\ NoLogin.spent = {}
  BY DEF NoLogin, LoginFields

LEMMA NoLoginReckoned == Reckoned(NoLogin)
  BY NoLoginFields DEF Reckoned

LEMMA LoginEnds == ASSUME LoginInv, NEW c \in Conns, Ends(c), UNCHANGED target PROVE LoginInv'
  <1> DEFINE s == [NoLogin EXCEPT !.at = "over"]
  <1>1. /\ DOMAIN s = LoginFields /\ s.at = "over" /\ s.scram = "none" /\ s.verified = FALSE
        /\ s.asked = {} /\ s.spent = {}
    BY DEF NoLogin, LoginFields
  <1>2. login' = [login EXCEPT ![c] = s]
    BY DEF Ends
  <1> HIDE DEF s
  <1>3. Reckoned(s)
    BY <1>1 DEF Reckoned
  <1> QED
    BY <1>2, <1>3, LoginsReckoned

LEMMA LoginBegins == ASSUME LoginInv, NEW c \in Conns, LoginBegin(c), UNCHANGED target PROVE LoginInv'
  <1> DEFINE at == IF target.scheme = "postgres" THEN "startup" ELSE "redis"
             s == [NoLogin EXCEPT !.at = at]
  <1>1. /\ DOMAIN s = LoginFields /\ s.at = at /\ s.scram = "none" /\ s.verified = FALSE
        /\ s.asked = {} /\ s.spent = {}
    BY DEF NoLogin, LoginFields
  <1>2. login' = [login EXCEPT ![c] = s]
    BY DEF LoginBegin
  <1> HIDE DEF s
  <1>3. Reckoned(s)
    BY <1>1 DEF Reckoned
  <1> QED
    BY <1>2, <1>3, LoginsReckoned

\* A role the URL names is the only one sent.
LEMMA UserPinned ==
  ASSUME NEW users
  PROVE  \/ PinUser(users) = <<Nobody>>
         \/ target.user # Nobody => PinUser(users) = <<target.user>>
  BY DEF PinUser

LEMMA StartupKeeps ==
  ASSUME LoginInv, NEW c \in Conns, Startup(c) \/ Cancel(c) \/ Prove(c) \/ LoginFails(c)
  PROVE  LoginInv'
  <1>1. UNCHANGED target /\ Reckoned(login[c]) /\ DOMAIN login[c] = LoginFields /\ DOMAIN login = Conns
    BY DEF Startup, Cancel, Prove, LoginFails, LoginInv, Reckoned
  <1>2. CASE Ends(c)
    BY <1>1, <1>2, LoginEnds
  <1>3. CASE Startup(c) /\ ~Ends(c)
    <2>1. PICK users \in Offered :
            /\ PinUser(users) # <<Nobody>>
            /\ login' = [login EXCEPT ![c].at = "prove", ![c].users = PinUser(users)]
      BY <1>3 DEF Startup
    <2> DEFINE s == [login[c] EXCEPT !.at = "prove", !.users = PinUser(users)]
    <2>2. login' = [login EXCEPT ![c] = s]
      BY <1>1, <2>1
    <2>3. /\ DOMAIN s = LoginFields /\ s.at = "prove" /\ s.users = PinUser(users)
          /\ s.scram = login[c].scram /\ s.verified = login[c].verified /\ s.early = login[c].early
          /\ s.asked = login[c].asked /\ s.spent = login[c].spent
      BY <1>1 DEF LoginFields
    <2>4. login[c].at = "startup"
      BY <1>3 DEF Startup
    <2> HIDE DEF s
    <2>5. Reckoned(s)
      BY <1>1, <2>1, <2>3, <2>4, UserPinned DEF Reckoned
    <2> QED
      BY <1>1, <2>2, <2>5, LoginsReckoned
  <1>4. CASE Prove(c) /\ ~Ends(c)
    <2> DEFINE s == [login[c] EXCEPT !.at = "connect", !.given = TRUE]
    <2>1. login[c].at = "prove" /\ login' = [login EXCEPT ![c] = s]
      BY <1>1, <1>4 DEF Prove
    <2>2. /\ DOMAIN s = LoginFields /\ s.at = "connect" /\ s.given = TRUE
          /\ s.users = login[c].users
          /\ s.scram = login[c].scram /\ s.verified = login[c].verified /\ s.early = login[c].early
          /\ s.asked = login[c].asked /\ s.spent = login[c].spent
      BY <1>1 DEF LoginFields
    <2> HIDE DEF s
    <2>3. Reckoned(s)
      BY <1>1, <2>1, <2>2 DEF Reckoned
    <2> QED
      BY <1>1, <2>1, <2>3, LoginsReckoned
  <1> QED
    BY <1>2, <1>3, <1>4 DEF Cancel, LoginFails

\* Where TLS is asked for it is there, and where a certificate is it was looked at.
LEMMA Connecting ==
  ASSUME Reachable(target.hasTls, target.certified)
  PROVE  /\ MustEncrypt => (target.hasTls /\ target.sslmode # "disable")
         /\ target.sslmode = "verify" => target.certified
  <1>1. CASE target.sslmode = "require"
    BY <1>1 DEF Reachable, MustEncrypt
  <1>2. CASE target.sslmode = "verify"
    BY <1>2 DEF Reachable, MustEncrypt
  <1> QED
    BY <1>1, <1>2 DEF MustEncrypt

LEMMA ConnectDatabaseKeeps == ASSUME LoginInv, NEW c \in Conns, ConnectDatabase(c) PROVE LoginInv'
  <1>1. UNCHANGED target /\ Reckoned(login[c]) /\ DOMAIN login[c] = LoginFields /\ DOMAIN login = Conns
    BY DEF ConnectDatabase, LoginInv, Reckoned
  <1>2. CASE Ends(c)
    BY <1>1, <1>2, LoginEnds
  <1>3. CASE ~Ends(c)
    <2> DEFINE s == [login[c] EXCEPT !.at = "auth",
                       !.secured = target.hasTls /\ target.sslmode # "disable"]
    <2>1. /\ login[c].at = "connect" /\ Reachable(target.hasTls, target.certified)
          /\ login' = [login EXCEPT ![c] = s]
      BY <1>1, <1>3 DEF ConnectDatabase
    <2>2. /\ DOMAIN s = LoginFields /\ s.at = "auth"
          /\ s.users = login[c].users /\ s.given = login[c].given
          /\ s.scram = login[c].scram /\ s.verified = login[c].verified /\ s.early = login[c].early
          /\ s.asked = login[c].asked /\ s.spent = login[c].spent
      BY <1>1 DEF LoginFields
    <2>3. s.secured = (target.hasTls /\ target.sslmode # "disable")
      BY <1>1 DEF LoginFields
    <2> HIDE DEF s
    <2>4. Reckoned(s)
      BY <1>1, <2>1, <2>2, <2>3, Connecting DEF Reckoned
    <2> QED
      BY <1>1, <2>1, <2>4, LoginsReckoned
  <1> QED
    BY <1>2, <1>3

\* An answer that may be given.
LEMMA AnswersReckoned ==
  ASSUME LoginInv, NEW c \in Conns, UNCHANGED target, login[c].at = "auth", NEW form \in Auth,
         NEW session, Answers(c, form, session),
         DOMAIN session = LoginFields, session.at = "auth",
         session.users = login[c].users, session.given = login[c].given,
         session.secured = login[c].secured, session.verified = login[c].verified,
         session.early = login[c].early,
         session.spent = login[c].spent, session.scram \in {"none", "begun", "answered"},
         session.scram # "none" => "scram" \in Auth,
         \A method \in session.asked : method \in Auth,
         login[c].scram # "none" => form = "scram"
  PROVE  LoginInv'
  <1> DEFINE spent == Spent(c, form)
             s == [session EXCEPT !.count = @ + 1, !.spent = @ \cup {spent}]
  <1>1. login' = [login EXCEPT ![c] = s]
    BY DEF Answers
  <1>2. /\ DOMAIN s = LoginFields /\ s.at = session.at /\ s.users = session.users
        /\ s.given = session.given /\ s.secured = session.secured
        /\ s.verified = session.verified /\ s.early = session.early /\ s.scram = session.scram
        /\ s.asked = session.asked /\ s.spent = session.spent \cup {spent}
    BY DEF LoginFields
  <1>3. /\ spent.form = form /\ spent.given = login[c].given /\ spent.secured = login[c].secured
        /\ spent.afterScram = (login[c].scram # "none")
    BY DEF Spent
  <1> HIDE DEF s, spent
  <1>4. Reckoned(login[c])
    BY DEF LoginInv
  <1>5. SpentAsAllowed(spent)
    BY <1>3, <1>4 DEF Reckoned, SpentAsAllowed
  <1>6. Reckoned(s)
    BY <1>2, <1>4, <1>5 DEF Reckoned
  <1> QED
    BY <1>1, <1>6, LoginsReckoned

LEMMA AsksKeeps ==
  ASSUME LoginInv, NEW c \in Conns,
         AskPassword(c) \/ AskSasl(c) \/ SaslContinue(c) \/ SaslFinal(c) \/ LetIn(c)
  PROVE  LoginInv'
  <1>1. /\ UNCHANGED target /\ Reckoned(login[c]) /\ DOMAIN login[c] = LoginFields
        /\ DOMAIN login = Conns /\ login[c].at = "auth"
    BY DEF AskPassword, AskSasl, SaslContinue, SaslFinal, LetIn, Asking, LoginInv, Reckoned
  <1>2. CASE Ends(c)
    BY <1>1, <1>2, LoginEnds
  <1>3. CASE AskPassword(c) /\ ~Ends(c)
    <2>1. PICK method \in {"password", "md5"} :
            /\ ~LeftScram(c) /\ method \in Auth
            /\ Answers(c, method, [login[c] EXCEPT !.asked = @ \cup {method}])
      BY <1>3 DEF AskPassword
    <2> DEFINE s == [login[c] EXCEPT !.asked = @ \cup {method}]
    <2>2. /\ DOMAIN s = LoginFields /\ s.at = "auth"
          /\ s.users = login[c].users /\ s.given = login[c].given
          /\ s.secured = login[c].secured /\ s.verified = login[c].verified /\ s.early = login[c].early
          /\ s.spent = login[c].spent /\ s.scram = login[c].scram
          /\ s.asked = login[c].asked \cup {method}
      BY <1>1 DEF LoginFields
    <2>3. Answers(c, method, s)
      BY <2>1
    <2> HIDE DEF s
    <2>4. s.scram = "none" /\ \A asked \in s.asked : asked \in Auth
      BY <1>1, <2>1, <2>2 DEF LeftScram, Reckoned
    <2> QED
      BY <1>1, <2>1, <2>2, <2>3, <2>4, AnswersReckoned
  <1>4. CASE AskSasl(c) /\ ~Ends(c)
    <2> DEFINE s == [login[c] EXCEPT !.scram = "begun", !.count = @ + 1, !.asked = @ \cup {"scram"}]
    <2>1. "scram" \in Auth /\ login' = [login EXCEPT ![c] = s]
      BY <1>1, <1>4 DEF AskSasl
    <2>2. /\ DOMAIN s = LoginFields /\ s.at = "auth" /\ s.scram = "begun"
          /\ s.users = login[c].users /\ s.given = login[c].given
          /\ s.secured = login[c].secured /\ s.verified = login[c].verified /\ s.early = login[c].early
          /\ s.spent = login[c].spent /\ s.asked = login[c].asked \cup {"scram"}
      BY <1>1 DEF LoginFields
    <2> HIDE DEF s
    <2>3. Reckoned(s)
      BY <1>1, <2>1, <2>2 DEF Reckoned
    <2> QED
      BY <1>1, <2>1, <2>3, LoginsReckoned
  <1>5. CASE SaslContinue(c) /\ ~Ends(c)
    <2> DEFINE s == [login[c] EXCEPT !.scram = "answered"]
    <2>1. login[c].scram # "none" /\ Answers(c, "scram", s)
      BY <1>5 DEF SaslContinue
    <2>2. /\ DOMAIN s = LoginFields /\ s.at = "auth" /\ s.scram = "answered"
          /\ s.users = login[c].users /\ s.given = login[c].given
          /\ s.secured = login[c].secured /\ s.verified = login[c].verified /\ s.early = login[c].early
          /\ s.spent = login[c].spent /\ s.asked = login[c].asked
      BY <1>1 DEF LoginFields
    <2> HIDE DEF s
    <2>3. "scram" \in Auth /\ \A asked \in s.asked : asked \in Auth
      BY <1>1, <2>1, <2>2 DEF Reckoned
    <2> QED
      BY <1>1, <2>1, <2>2, <2>3, AnswersReckoned
  <1>6. CASE SaslFinal(c) /\ ~Ends(c)
    <2> DEFINE early == login[c].early \/ login[c].scram = "begun"
               s == [login[c] EXCEPT !.verified = TRUE, !.count = @ + 1, !.early = early]
    <2>1. /\ login[c].scram # "none" /\ CanSign(c)
          /\ login' = [login EXCEPT ![c] = s]
      BY <1>1, <1>6 DEF SaslFinal
    <2>2. /\ DOMAIN s = LoginFields /\ s.at = "auth"
          /\ s.users = login[c].users /\ s.given = login[c].given
          /\ s.secured = login[c].secured /\ s.scram = login[c].scram
          /\ s.spent = login[c].spent /\ s.asked = login[c].asked
          /\ s.early = early
      BY <1>1 DEF LoginFields
    <2>3. target.genuine \/ early
      BY <1>1, <2>1 DEF CanSign, Reckoned
    <2> HIDE DEF s, early
    <2>4. Reckoned(s)
      BY <1>1, <2>2, <2>3 DEF Reckoned
    <2> QED
      BY <1>1, <2>1, <2>4, LoginsReckoned
  <1>7. CASE LetIn(c) /\ ~Ends(c)
    <2> DEFINE s == [login[c] EXCEPT !.at = "piped"]
    <2>1. Proved(c) /\ login' = [login EXCEPT ![c] = s]
      BY <1>1, <1>7 DEF LetIn, Goes
    <2>2. /\ DOMAIN s = LoginFields /\ s.at = "piped"
          /\ s.users = login[c].users /\ s.given = login[c].given
          /\ s.secured = login[c].secured /\ s.scram = login[c].scram
          /\ s.verified = login[c].verified /\ s.early = login[c].early
          /\ s.spent = login[c].spent /\ s.asked = login[c].asked
      BY <1>1 DEF LoginFields
    <2> HIDE DEF s
    <2>3. Reckoned(s)
      BY <1>1, <2>1, <2>2 DEF Reckoned, Proved
    <2> QED
      BY <1>1, <2>1, <2>3, LoginsReckoned
  <1> QED
    BY <1>2, <1>3, <1>4, <1>5, <1>6, <1>7

\* The least of some numbers.
LEMMA Least == ASSUME NEW S \in SUBSET Nat, S # {} PROVE \E m \in S : \A n \in S : m <= n
  <1>1. PICK m \in S : \A n \in S : ~ (<<n, m>> \in OpToRel(<, Nat))
    BY WFMin, NatLessThanWellFounded
  <1>2. \A n \in S : ~ (n < m)
    BY <1>1 DEF OpToRel
  <1> QED
    BY <1>2

\* A password Redis would keep was put there by a command that misnames.
LEMMA PasswordLogsIn ==
  ASSUME NEW name, NEW args \in Arguments, NEW i \in DOMAIN Encode(name, args),
         Encode(name, args)[i] = "password"
  PROVE  FormOf(name, args, Encode(name, args), i) # "kept"
  <1> DEFINE sent == Encode(name, args)
  <1>1. /\ args \in Seq(STRING) /\ DOMAIN sent = DOMAIN args /\ args[i] # "password"
        /\ \A j \in DOMAIN args : sent[j] =
             IF j \in PasswordArgs(name, args) /\ args[j] = "placeholder" THEN "password" ELSE args[j]
    BY LoginAssumption DEF Encode
  <1>2. i \in PasswordArgs(name, args) /\ args[i] = "placeholder"
    BY <1>1
  <1> HIDE DEF sent
  <1> SUFFICES ASSUME Keeps(name, sent, i) PROVE Misnames(name, args)
    BY DEF FormOf, sent
  <1>3. CASE name = "AUTH"
    <2>1. Len(sent) = 2 /\ i = 1
      BY <1>3 DEF Keeps
    <2>2. Len(args) = 2 /\ args[1] = "placeholder"
      BY <1>2, <2>1 DEF Encode, sent
    <2> QED
      BY <1>3, <2>2 DEF Misnames
  <1>4. CASE name = "HELLO"
    <2> DEFINE auth == {j \in DOMAIN args : args[j] = "AUTH"}
    <2>1. auth # {} /\ i = 2 + CHOOSE j \in auth : \A other \in auth : j <= other
      BY <1>2, <1>4 DEF PasswordArgs
    <2>2. auth \in SUBSET Nat /\ \A j \in auth : j >= 1 /\ args[j] = "AUTH"
      BY <1>1
    <2> HIDE DEF auth
    <2>3. PICK j \in auth : i = 2 + j /\ \A other \in auth : j <= other
      BY <2>1, <2>2, Least
    <2>4. j \in DOMAIN args /\ \A other \in DOMAIN args : args[other] = "AUTH" => j <= other
      BY <2>3 DEF auth
    <2>5. PICK starts \in SUBSET (2..Len(sent)) :
            /\ sent[1] = "3" /\ ReadsOptions(sent, starts)
            /\ \A start \in starts : sent[start] = "AUTH" => i # start + 2
      BY <1>4 DEF Keeps
    <2>6. /\ sent[j] = "AUTH" /\ j \in Nat /\ j > 1
          /\ \A other \in DOMAIN args : sent[other] = "AUTH" => j <= other
      BY <1>1, <2>2, <2>3, <2>4, <2>5
    <2>7. j \notin starts
      BY <2>3, <2>5, <2>6
    <2>8. PICK start \in starts : j \in Option(sent, start)
      BY <1>1, <2>4, <2>5, <2>6 DEF ReadsOptions
    <2>9. start \in Nat /\ start > 1 /\ sent[start] \in {"AUTH", "SETNAME"} /\ start \in DOMAIN args
      <3>1. start \in 2..Len(sent) /\ Len(sent) \in Nat /\ Len(sent) = Len(args)
        BY <1>1, <2>5, <2>8 DEF Encode, sent
      <3> QED
        BY <1>1, <2>5, <2>8, <3>1 DEF ReadsOptions
    <2>10. start < j
      BY <2>6, <2>7, <2>8, <2>9 DEF Option
    <2>11. sent[start] = "SETNAME" /\ j = start + 1
      BY <2>6, <2>8, <2>9, <2>10 DEF Option
    <2>12. args[start] = "SETNAME" /\ start = j - 1
      BY <1>1, <2>9, <2>11
    <2>13. j \in DOMAIN args /\ j > 1 /\ args[j - 1] = "SETNAME" /\ args[j] = "AUTH"
      BY <2>2, <2>3, <2>4, <2>6, <2>12
    <2> QED
      BY <1>4, <2>13 DEF Misnames
  <1>5. CASE name # "AUTH" /\ name # "HELLO"
    BY <1>2, <1>5 DEF PasswordArgs
  <1> QED
    BY <1>3, <1>4, <1>5

LEMMA CommandKeeps == ASSUME LoginInv, NEW c \in Conns, Command(c) PROVE LoginInv'
  <1>1. /\ UNCHANGED target /\ Reckoned(login[c]) /\ DOMAIN login[c] = LoginFields
        /\ DOMAIN login = Conns /\ login[c].at = "redis"
    BY DEF Command, LoginInv, Reckoned
  <1>2. PICK name \in Commands, args \in Arguments :
          LET sent == Encode(name, args) IN
          login' = [login EXCEPT ![c].spent = @ \cup
            {Spent(c, FormOf(name, args, sent, i)) :
               i \in {i \in DOMAIN sent : sent[i] = "password"}}]
    BY DEF Command
  <1> DEFINE sent == Encode(name, args)
             new == {Spent(c, FormOf(name, args, sent, i)) :
                       i \in {i \in DOMAIN sent : sent[i] = "password"}}
             s == [login[c] EXCEPT !.spent = @ \cup new]
  <1>3. login' = [login EXCEPT ![c] = s]
    BY <1>1, <1>2
  <1>4. \A spent \in new : spent.form # "kept"
    BY PasswordLogsIn DEF Spent
  <1> HIDE DEF new
  <1>5. /\ DOMAIN s = LoginFields /\ s.at = "redis"
        /\ s.scram = login[c].scram /\ s.verified = login[c].verified /\ s.early = login[c].early
        /\ s.asked = login[c].asked /\ s.spent = login[c].spent \cup new
    BY <1>1 DEF LoginFields
  <1> HIDE DEF s
  <1>6. Reckoned(s)
    BY <1>1, <1>4, <1>5 DEF Reckoned, SpentAsAllowed
  <1> QED
    BY <1>1, <1>3, <1>6, LoginsReckoned

LEMMA LoginStepKeeps == ASSUME LoginInv, NEW c \in Conns, LoginStep(c) PROVE LoginInv'
  BY StartupKeeps, ConnectDatabaseKeeps, AsksKeeps, CommandKeeps DEF LoginStep

-----------------------------------------------------------------------------
(* The listener.                                                           *)

LEMMA SlotStays == ASSUME SlotInv, UNCHANGED <<used, phase>> PROVE SlotInv'
  BY DEF SlotInv, Served

LEMMA AcceptKeepsSlots == ASSUME SlotInv, NEW c \in Conns, Accept(c) PROVE SlotInv'
  <1>1. /\ phase[c] = "new" /\ c \notin Served
        /\ used = Cardinality(Served) /\ IsFiniteSet(Served) /\ used \in Nat
        /\ DOMAIN phase = Conns /\ used <= MaxConnections
    BY FS_CardinalityType DEF Accept, SlotInv, Served
  <1>2. CASE used < MaxConnections
    <2>1. used' = used + 1 /\ phase' = [phase EXCEPT ![c] = "served"]
      BY <1>2 DEF Accept
    <2>2. Served' = Served \cup {c}
      BY <1>1, <2>1 DEF Served
    <2>3. IsFiniteSet(Served \cup {c}) /\ Cardinality(Served \cup {c}) = used + 1
      BY <1>1, FS_AddElement
    <2> QED
      BY <1>1, <1>2, <2>1, <2>2, <2>3, ServiceAssumption DEF SlotInv
  <1>3. CASE ~(used < MaxConnections)
    <2>1. used' = used /\ phase' = [phase EXCEPT ![c] = "turnedAway"]
      BY <1>3 DEF Accept
    <2>2. Served' = Served
      BY <1>1, <2>1 DEF Served
    <2> QED
      BY <1>1, <2>1, <2>2 DEF SlotInv
  <1> QED
    BY <1>2, <1>3

LEMMA DropKeepsSlots == ASSUME SlotInv, NEW c \in Conns, Drop(c) PROVE SlotInv'
  <1>1. /\ phase[c] = "closed" /\ c \in Served
        /\ used = Cardinality(Served) /\ IsFiniteSet(Served) /\ used \in Nat
        /\ DOMAIN phase = Conns /\ used <= MaxConnections
        /\ used' = used - 1 /\ phase' = [phase EXCEPT ![c] = "dropped"]
    BY FS_CardinalityType DEF Drop, Freed, SlotInv, Served
  <1>2. Served' = Served \ {c}
    BY <1>1 DEF Served
  <1>3. IsFiniteSet(Served \ {c}) /\ Cardinality(Served \ {c}) = used - 1
    BY <1>1, FS_RemoveElement
  <1> QED
    BY <1>1, <1>2, <1>3, ServiceAssumption DEF SlotInv

LEMMA OthersKeepSlots == ASSUME SlotInv, NEW c \in Conns, Returns(c) \/ Again(c) PROVE SlotInv'
  <1>1. used' = used /\ Served' = Served /\ DOMAIN phase' = Conns
    BY DEF Returns, Again, SlotInv, Served
  <1> QED
    BY <1>1 DEF SlotInv

-----------------------------------------------------------------------------
(* Every step.                                                             *)

LEMMA NoSessionKept == Kept(NoSession)
  BY SessionFieldsOf DEF Kept, NoSession

LEMMA Initially == Init => IInv
  <1> SUFFICES ASSUME Init PROVE IInv
    OBVIOUS
  <1>1. /\ \A c \in Conns : http[c] = NoSession /\ login[c] = NoLogin
        /\ DOMAIN http = Conns /\ DOMAIN login = Conns
        /\ seen = [h \in Hosts |-> {}] /\ got = {} /\ sealed = None
    BY ServiceAssumption DEF Init, ProxyInit, LoginInit
  <1>2. HttpInv
    BY <1>1, NoSessionKept DEF HttpInv, Chosen, EchoesComeBackSealed
  <1>3. LoginInv
    BY <1>1, NoLoginReckoned DEF LoginInv
  <1>4. Served = {} /\ used = 0 /\ DOMAIN phase = Conns
    BY DEF Init, Served
  <1>5. SlotInv
    BY <1>4, FS_EmptySet, ServiceAssumption DEF SlotInv
  <1> QED
    BY <1>2, <1>3, <1>5 DEF IInv

\* A session that begins, or a connection that is followed by another.
LEMMA BeginKeeps ==
  ASSUME HttpInv, NEW c \in Conns, NEW s, Becomes(c, s), Kept(s),
         UNCHANGED <<setup, sealed, seen, got>>
  PROVE  HttpInv'
  BY HttpWhole, DueStays, GotStays

LEMMA AcceptKeeps == ASSUME IInv, NEW c \in Conns, Accept(c) PROVE IInv'
  <1>1. SlotInv'
    BY AcceptKeepsSlots DEF IInv
  <1>2. UNCHANGED <<setup, sealed, seen, got, target>>
    BY DEF Accept
  <1>3. CASE UNCHANGED <<http, login>>
    BY <1>1, <1>2, <1>3, HttpStays, LoginStays DEF IInv, proxyVars, loginVars
  <1>4. CASE kind = "http" /\ HttpBegin(c) /\ UNCHANGED login
    <2>1. Kept(Session("first", None))
      BY <1>4, SessionFieldsOf DEF Kept, Accept, Listening
    <2>2. HttpInv'
      BY <1>2, <1>4, <2>1, BeginKeeps DEF HttpBegin, Becomes, IInv
    <2> QED
      BY <1>1, <1>2, <1>4, <2>2, LoginStays DEF IInv, loginVars
  <1>5. CASE LoginBegin(c) /\ UNCHANGED http
    BY <1>1, <1>2, <1>5, LoginBegins, HttpStays DEF IInv, proxyVars
  <1> QED
    BY <1>3, <1>4, <1>5 DEF Accept, Begin

LEMMA AgainKeeps == ASSUME IInv, NEW c \in Conns, Again(c) PROVE IInv'
  <1>1. SlotInv' /\ UNCHANGED <<setup, sealed, seen, got, target>>
    BY OthersKeepSlots DEF IInv, Again
  <1>2. CASE Becomes(c, NoSession) /\ UNCHANGED login
    BY <1>1, <1>2, NoSessionKept, BeginKeeps, LoginStays DEF IInv, loginVars
  <1>3. CASE login' = [login EXCEPT ![c] = NoLogin] /\ UNCHANGED http
    BY <1>1, <1>3, NoLoginReckoned, LoginsReckoned, HttpStays DEF IInv, proxyVars
  <1> QED
    BY <1>2, <1>3 DEF Again, Becomes

LEMMA Steps == IInv /\ [Next]_vars => IInv'
  <1> SUFFICES ASSUME IInv, [Next]_vars PROVE IInv'
    OBVIOUS
  <1>1. CASE Setting
    BY <1>1, PrepareKeeps, LoginStays, SlotStays DEF Setting, IInv, listenerVars
  <1>2. ASSUME NEW c \in Conns, Accept(c) \/ Again(c) PROVE IInv'
    BY <1>2, AcceptKeeps, AgainKeeps
  <1>3. ASSUME NEW c \in Conns, Serve(c) PROVE IInv'
    <2>1. SlotInv'
      BY <1>3, SlotStays DEF Serve, IInv, listenerVars
    <2>2. CASE HttpStep(c) /\ UNCHANGED loginVars
      BY <2>1, <2>2, HttpStepKeeps, LoginStays DEF IInv
    <2>3. CASE LoginStep(c) /\ UNCHANGED proxyVars
      BY <2>1, <2>3, LoginStepKeeps, HttpStays DEF IInv
    <2> QED
      BY <1>3, <2>2, <2>3 DEF Serve
  <1>4. ASSUME NEW c \in Conns, Returns(c) \/ Drop(c) PROVE IInv'
    <2>1. UNCHANGED <<proxyVars, loginVars>>
      BY <1>4 DEF Returns, Drop
    <2>2. SlotInv'
      BY <1>4, DropKeepsSlots, OthersKeepSlots DEF IInv
    <2> QED
      BY <2>1, <2>2, HttpStays, LoginStays DEF IInv
  <1>5. CASE UNCHANGED vars
    BY <1>5, HttpStays, LoginStays, SlotStays DEF IInv, vars, listenerVars
  <1> QED
    BY <1>1, <1>2, <1>3, <1>4, <1>5 DEF Next

LEMMA Invariance == Spec => []IInv
  BY Initially, Steps, PTL DEF Spec

-----------------------------------------------------------------------------
(* What follows.                                                           *)

\* The hosts a sealed key goes to are those its schema, and where they are computed
\* its pin, gives it.
LEMMA SealedGranted ==
  ASSUME Chosen, sealed # None, NEW k \in sealed
  PROVE  Grants(k) = setup[k].names
  <1>1. k \in Keys /\ HasHosts(k) /\ IsSet(k) /\ ~Refused
    BY DEF Chosen, Sealable
  <1>2. CASE setup[k].hosts = "written"
    BY <1>2 DEF Grants
  <1>3. CASE setup[k].hosts = "computed"
    <2>1. Pinned(k)
      BY <1>1, <1>3 DEF Refused, Computed
    <2> QED
      BY <1>3, <2>1 DEF Pinned, Grants
  <1> QED
    BY <1>1, <1>2, <1>3 DEF HasHosts, Computed

\* A value leaves only for its own hosts, in a head, over TLS or to this machine, and
\* no answer hands it to the command (proxy.rs).
THEOREM Sealed == Spec => []ValuesStaySealed
  <1>1. IInv => ValuesStaySealed
    <2> SUFFICES ASSUME HttpInv, NEW h \in Hosts, NEW s \in seen[h]
                 PROVE  /\ s.thing.form \in {"value", "basicValue", "resigned"} =>
                             /\ h \in Grants(s.thing.key)
                             /\ s.place = "head"
                             /\ s.way = "tls" \/ (s.way = "plain" /\ h \in Loopback)
                        /\ s.thing.form \in {"value", "basicValue"} => ~setup[s.thing.key].aws
      BY DEF IInv, HttpInv, ValuesStaySealed, OnlyToItsHosts
    <2>1. Due(s, h) /\ Chosen
      BY DEF HttpInv
    <2>2. h \in Grants(s.thing.key)
      BY <2>1, SealedGranted DEF Due, HostAllowed
    <2> QED
      BY <2>1, <2>2 DEF Due, IsAws
  <1> QED
    BY <1>1, Invariance, PTL

\* A database's password is spent only as the URL allows, and a command is let in only
\* when both sides were who they should be (postgres.rs, redis.rs).
THEOREM LoggedIn == Spec => []LoginHolds
  <1>1. IInv => LoginHolds
    <2> SUFFICES ASSUME LoginInv PROVE LoginHolds
      BY DEF IInv
    <2>1. Clients = Conns /\ \A c \in Clients : Reckoned(login[c])
      BY ServiceAssumption DEF LoginInv
    <2>2. LoginProved
      BY <2>1 DEF LoginProved, Reckoned
    <2>3. PasswordSpentAsAllowed
      BY <2>1 DEF PasswordSpentAsAllowed, Reckoned, SpentAsAllowed
    <2> QED
      BY <2>2, <2>3 DEF LoginHolds
  <1> QED
    BY <1>1, Invariance, PTL

\* A connection is closed unanswered only while as many as the limit are in service
\* (sealed/mod.rs).
THEOREM TurnedAway == Spec => TurnedAwayOnlyWhenFull
  <1>1. IInv /\ [Next]_vars =>
          [\A c \in Conns : phase[c] = "new" /\ phase'[c] = "turnedAway"
             => Cardinality(Served) >= MaxConnections]_vars
    <2> SUFFICES ASSUME SlotInv, Next, NEW c \in Conns, phase[c] = "new", phase'[c] = "turnedAway"
                 PROVE  Cardinality(Served) >= MaxConnections
      BY DEF IInv
    <2>1. PICK d \in Conns : Accept(d) \/ Serve(d) \/ Returns(d) \/ Drop(d) \/ Again(d)
      BY DEF Next, Setting, listenerVars
    <2>2. Accept(d)
      BY <2>1 DEF Serve, listenerVars, Returns, Drop, Again, SlotInv
    <2>3. ~(used < MaxConnections)
      BY <2>2 DEF Accept, SlotInv
    <2> QED
      BY <2>3, FS_CardinalityType, ServiceAssumption DEF SlotInv
  <1> QED
    BY <1>1, Invariance, PTL DEF Spec, TurnedAwayOnlyWhenFull

\* And no more than the limit ever are.
THEOREM Limited == Spec => [](Cardinality(Served) <= MaxConnections)
  <1>1. IInv => Cardinality(Served) <= MaxConnections
    BY DEF IInv, SlotInv
  <1> QED
    BY <1>1, Invariance, PTL

=============================================================================
