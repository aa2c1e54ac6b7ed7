--------------------------- MODULE SealedService ---------------------------
(***************************************************************************)
(* A listener of a sealed run and its connections (serve_each of           *)
(* sealed/mod.rs): each accepted one is served on a thread of its own,     *)
(* at most MaxConnections at once, one more is closed unanswered.          *)
(*                                                                         *)
(* A run starts one listener for its HTTP proxy and one for each sealed    *)
(* database URL; they share nothing, so one is modelled, of either kind.   *)
(***************************************************************************)
EXTENDS SealedProxy, SealedLogin

CONSTANTS
  MaxConnections   \* MAX_CONNECTIONS

VARIABLES
  kind,    \* the protocol the listener speaks
  used,    \* the count of connections in service: Slots
  phase    \* where each connection stands with the listener

listenerVars == <<kind, used, phase>>
vars == <<proxyVars, loginVars, listenerVars>>

ASSUME ServiceAssumption == MaxConnections \in Nat \ {0} /\ Clients = Conns

-----------------------------------------------------------------------------

Init ==
  /\ used = 0
  /\ phase = [c \in Conns |-> "new"]
  /\ \/ kind = "http" /\ ProxyInit
        /\ target = None /\ login = [c \in Conns |-> NoLogin]
     \/ kind = "database" /\ LoginInit
        /\ setup = None /\ sealed = None /\ http = [c \in Conns |-> NoSession]
        /\ seen = [h \in Hosts |-> {}] /\ got = {}

Listening == kind = "http" => sealed # None

Begin(c) ==
  IF kind = "http" THEN HttpBegin(c) /\ UNCHANGED login
                   ELSE LoginBegin(c) /\ UNCHANGED http

\* The slot is taken before the thread starts; without one the stream is dropped.
Accept(c) ==
  /\ phase[c] = "new" /\ Listening
  /\ IF used < MaxConnections
       THEN /\ used' = used + 1
            /\ phase' = [phase EXCEPT ![c] = "served"]
            /\ Begin(c)
       ELSE /\ phase' = [phase EXCEPT ![c] = "turnedAway"]
            /\ UNCHANGED <<used, http, login>>
  /\ UNCHANGED <<kind, setup, sealed, seen, got, target>>

Over(c) == IF kind = "http" THEN HttpOver(c) ELSE LoginOver(c)

\* serve closes the connection as it returns; the slot is given back after it.
Returns(c) ==
  /\ phase[c] = "served" /\ Over(c)
  /\ phase' = [phase EXCEPT ![c] = "closed"]
  /\ UNCHANGED <<proxyVars, loginVars, kind, used>>

\* Slot::drop.
MutantFreed == used
Freed == used - 1

Drop(c) ==
  /\ phase[c] = "closed"
  /\ phase' = [phase EXCEPT ![c] = "dropped"]
  /\ used' = Freed
  /\ UNCHANGED <<proxyVars, loginVars, kind>>

Serve(c) ==
  /\ phase[c] = "served"
  /\ \/ kind = "http" /\ HttpStep(c) /\ UNCHANGED loginVars
     \/ kind = "database" /\ LoginStep(c) /\ UNCHANGED proxyVars
  /\ UNCHANGED listenerVars

\* A connection of the command that the listener is done with is followed by another.
Again(c) ==
  /\ phase[c] \in {"dropped", "turnedAway"}
  /\ phase' = [phase EXCEPT ![c] = "new"]
  /\ IF kind = "http" THEN http' = [http EXCEPT ![c] = NoSession] /\ UNCHANGED login
                      ELSE login' = [login EXCEPT ![c] = NoLogin] /\ UNCHANGED http
  /\ UNCHANGED <<setup, sealed, seen, got, target, kind, used>>

Setting == kind = "http" /\ Prepare /\ UNCHANGED <<loginVars, listenerVars>>

Next ==
  \/ Setting
  \/ \E c \in Conns : Accept(c) \/ Serve(c) \/ Returns(c) \/ Drop(c) \/ Again(c)

Spec == Init /\ [][Next]_vars

-----------------------------------------------------------------------------
(* Properties                                                              *)

Served == {c \in Conns : phase[c] \in {"served", "closed"}}

\* A connection is closed unanswered only while as many as the limit are in service:
\* a slot is given back exactly once, however the session ended (sealed/mod.rs:25-76).
TurnedAwayOnlyWhenFull ==
  [][\A c \in Conns :
       phase[c] = "new" /\ phase'[c] = "turnedAway" => Cardinality(Served) >= MaxConnections]_vars

=============================================================================
