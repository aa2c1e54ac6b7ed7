---------------------------- MODULE SealedLogin ----------------------------
(***************************************************************************)
(* The database proxies of a sealed run.  The command connects to a        *)
(* loopback port with a placeholder as its password; penv logs in to the   *)
(* real Postgres with the real one (sealed/postgres.rs), or swaps it into  *)
(* the commands that log in to Redis (sealed/redis.rs).                    *)
(*                                                                         *)
(* The database is any server that can be at the address: it asks for what *)
(* it likes, in any order, and can sign as one that knows the password     *)
(* only when it is genuine.  Hashes, salts and the bytes of messages are   *)
(* left out; what is sent of a password is the form it takes.              *)
(***************************************************************************)
EXTENDS Integers, Sequences, FiniteSets

CONSTANTS
  Clients,   \* connections of the command to the proxy
  Targets,   \* the URLs a run may have sealed
  Nobody,    \* no role in the URL
  Offered,   \* bound: the user parameters a command sends
  Arguments, \* bound: the arguments of its Redis commands
  MaxAsked   \* bound: messages of the database before it lets a client in

\* A command never holds the password itself.
ASSUME LoginAssumption ==
  /\ Arguments \subseteq Seq(STRING)
  /\ \A args \in Arguments : \A i \in DOMAIN args : args[i] # "password"

VARIABLES
  target,   \* the sealed URL: scheme, sslmode, channel binding, require_auth, role
  login     \* each connection's session

loginVars == <<target, login>>

-----------------------------------------------------------------------------
(* database (sealed/run.rs): the targets a URL gives, or a refusal         *)

Methods == {"password", "md5", "scram", "none"}

\* require_auth: what it lists, or all but what it lists with an exclamation mark.
\* Methods penv never answers with allow nothing.
Mixed(list) == \E m, other \in list : m.not # other.not
AuthOf(list) ==
  LET named == {m.name : m \in list} \cap Methods
  IN  IF list = {} THEN Methods
      ELSE IF \A m \in list : m.not THEN Methods \ named ELSE named

Auth == AuthOf(target.requireAuth)

CannotSeal(t) ==
  \/ ~t.hostNamed
  \/ t.scheme = "other"
  \/ t.scheme = "postgres" /\ t.sslmode = "unknown"
  \/ t.scheme = "postgres" /\ t.channelBinding = "require"
  \/ t.scheme = "postgres" /\ Mixed(t.requireAuth)

MustEncrypt == target.sslmode \in {"require", "verify"}

-----------------------------------------------------------------------------
(* Sessions                                                                *)

\* spent: what the database was sent of the password.  early: a server-final message
\* was taken before any server-first one.
NoLogin ==
  [at |-> "none", users |-> <<>>, given |-> FALSE, secured |-> FALSE,
   scram |-> "none", verified |-> FALSE, early |-> FALSE,
   asked |-> {}, count |-> 0, spent |-> {}]

LoginInit ==
  /\ target \in {t \in Targets : ~CannotSeal(t)}
  /\ login = [c \in Clients |-> NoLogin]

LoginBegin(c) == login' = [login EXCEPT ![c] = [NoLogin EXCEPT !.at =
                   IF target.scheme = "postgres" THEN "startup" ELSE "redis"]]
LoginOver(c) == login[c].at = "over"

Goes(c, at) == login' = [login EXCEPT ![c].at = at]

\* An error response and the end of the connection, or only the end.
Ends(c) == login' = [login EXCEPT ![c] = [NoLogin EXCEPT !.at = "over"]]

Spent(c, form) ==
  [form |-> form, secured |-> login[c].secured, given |-> login[c].given,
   afterScram |-> login[c].scram # "none"]

\* A side that left, sixty seconds of silence, a message out of place or too long.
LoginFails(c) ==
  /\ login[c].at \in {"startup", "prove", "connect", "auth", "piped", "redis"}
  /\ Ends(c)
  /\ UNCHANGED target

-----------------------------------------------------------------------------
(* serve                                                                   *)

\* Every user parameter must be the URL's, and one is sent.
PinUser(users) ==
  IF target.user = Nobody THEN users
  ELSE IF \E i \in DOMAIN users : users[i] # target.user THEN <<Nobody>>
  ELSE <<target.user>>

\* Requests for TLS or GSS are answered no and the startup is read again, which leaves
\* everything as it is.
Startup(c) ==
  /\ login[c].at = "startup"
  /\ \E users \in Offered :
       LET pinned == PinUser(users) IN
       IF pinned = <<Nobody>>
         THEN Ends(c)
         ELSE login' = [login EXCEPT ![c].at = "prove", ![c].users = pinned]
  /\ UNCHANGED target

\* A cancel request is a connection of its own that carries only its packet.
Cancel(c) ==
  /\ login[c].at = "startup"
  /\ Ends(c)
  /\ UNCHANGED target

Prove(c) ==
  /\ login[c].at = "prove"
  /\ \E right \in BOOLEAN :
       IF right THEN login' = [login EXCEPT ![c].at = "connect", ![c].given = TRUE]
                ELSE Ends(c)
  /\ UNCHANGED target

\* The server has TLS or not, and its certificate is in order or not: only verify looks.
Reachable(hasTls, certified) ==
  CASE target.sslmode = "disable" -> TRUE
    [] target.sslmode = "prefer"  -> TRUE
    [] target.sslmode = "require" -> hasTls
    [] target.sslmode = "verify"  -> hasTls /\ certified

ConnectDatabase(c) ==
  /\ login[c].at = "connect"
  /\ IF Reachable(target.hasTls, target.certified)
       THEN login' = [login EXCEPT ![c].at = "auth",
                        ![c].secured = target.hasTls /\ target.sslmode # "disable"]
       ELSE Ends(c)
  /\ UNCHANGED target

-----------------------------------------------------------------------------
(* login: one message of the database at a time                            *)

Asking(c) == login[c].at = "auth" /\ login[c].count < MaxAsked

Answers(c, form, session) ==
  login' = [login EXCEPT ![c] = [session EXCEPT !.count = @ + 1, !.spent = @ \cup {Spent(c, form)}]]

\* Once SCRAM has begun only its own steps and the end may follow.
MutantLeftScram(c) == FALSE
LeftScram(c) == login[c].scram # "none"

\* A password in clear or hashed with a salt.
AskPassword(c) ==
  /\ Asking(c)
  /\ \E method \in {"password", "md5"} :
       IF LeftScram(c) \/ method \notin Auth
         THEN Ends(c)
         ELSE Answers(c, method, [login[c] EXCEPT !.asked = @ \cup {method}])
  /\ UNCHANGED target

\* The server offers SCRAM-SHA-256 or only mechanisms penv does not speak.
AskSasl(c) ==
  /\ Asking(c)
  /\ \E offer \in {"scram", "sasl"} :
       IF LeftScram(c) \/ "scram" \notin Auth \/ offer = "sasl"
         THEN Ends(c)
         ELSE login' = [login EXCEPT ![c].scram = "begun", ![c].count = @ + 1,
                          ![c].asked = @ \cup {"scram"}]
  /\ UNCHANGED target

\* respond: a server-first message whose nonce extends penv's, or an error.
SaslContinue(c) ==
  /\ Asking(c)
  /\ \E readable \in BOOLEAN :
       IF login[c].scram = "none" \/ ~readable
         THEN Ends(c)
         ELSE Answers(c, "scram", [login[c] EXCEPT !.scram = "answered"])
  /\ UNCHANGED target

\* verify: the signature expected once a server-first message was answered is one that
\* only a server that knows the password can make; before that it is the one a session
\* starts with, zeros, which any server can send.
CanSign(c) == login[c].scram = "answered" => target.genuine

SaslFinal(c) ==
  /\ Asking(c)
  /\ \E signed \in BOOLEAN :
       /\ signed => CanSign(c)
       /\ IF login[c].scram = "none" \/ ~signed
            THEN Ends(c)
            ELSE login' = [login EXCEPT ![c].verified = TRUE, ![c].count = @ + 1,
                             ![c].early = @ \/ login[c].scram = "begun"]
  /\ UNCHANGED target

\* AuthenticationOk is believed only after SCRAM, once begun, has been proved, and
\* unasked only when require_auth allows it.
Proved(c) ==
  /\ login[c].scram = "none" \/ login[c].verified
  /\ login[c].asked # {} \/ "none" \in Auth

LetIn(c) ==
  /\ login[c].at = "auth"
  /\ IF Proved(c) THEN Goes(c, "piped") ELSE Ends(c)
  /\ UNCHANGED target

-----------------------------------------------------------------------------
(* Rewriter::encode: a Redis command at a time                             *)

Commands == {"AUTH", "HELLO", "SET"}

\* Where a command's arguments may hold its password.
PasswordArgs(name, args) ==
  CASE name = "AUTH"  -> DOMAIN args
    [] name = "HELLO" -> LET auth == {i \in DOMAIN args : args[i] = "AUTH"} IN
         IF auth = {} THEN {}
         ELSE {2 + CHOOSE i \in auth : \A other \in auth : i <= other} \cap DOMAIN args
    [] OTHER -> {}

Encode(name, args) ==
  [i \in DOMAIN args |->
    IF i \in PasswordArgs(name, args) /\ args[i] = "placeholder" THEN "password" ELSE args[i]]

\* How Redis reads the arguments itself.  AUTH [user] password; HELLO version and its
\* options: AUTH user password, SETNAME name.  starts: where an option stands.
Option(args, i) == IF args[i] = "AUTH" THEN i..i + 2 ELSE i..i + 1

ReadsOptions(args, starts) ==
  /\ \A i \in starts : args[i] \in {"AUTH", "SETNAME"} /\ Option(args, i) \subseteq DOMAIN args
  /\ \A i \in DOMAIN args : i > 1 => \E start \in starts : i \in Option(args, start)
  /\ \A i, other \in starts : i # other => Option(args, i) \cap Option(args, other) = {}

\* An argument Redis reads as another thing than a password: a user it may log, a
\* client's name, any data.  Of what it cannot read it keeps nothing.
Keeps(name, args, i) ==
  CASE name = "AUTH"  -> Len(args) = 2 /\ i = 1
    [] name = "HELLO" -> \E starts \in SUBSET (2..Len(args)) :
                           /\ args[1] = "3" /\ ReadsOptions(args, starts)
                           /\ \A start \in starts : args[start] = "AUTH" => i # start + 2
    [] OTHER          -> TRUE

\* A command that gives its placeholder for its user, or calls itself AUTH.
Misnames(name, args) ==
  \/ name = "AUTH" /\ Len(args) = 2 /\ args[1] = "placeholder"
  \/ name = "HELLO" /\ \E i \in DOMAIN args : i > 1 /\ args[i - 1] = "SETNAME" /\ args[i] = "AUTH"

FormOf(name, args, sent, i) ==
  IF ~Keeps(name, sent, i) THEN "login" ELSE IF Misnames(name, args) THEN "misnamed" ELSE "kept"

Command(c) ==
  /\ login[c].at = "redis"
  /\ \E name \in Commands, args \in Arguments :
       LET sent == Encode(name, args) IN
       login' = [login EXCEPT ![c].spent = @ \cup
         {Spent(c, FormOf(name, args, sent, i)) :
            i \in {i \in DOMAIN sent : sent[i] = "password"}}]
  /\ UNCHANGED target

-----------------------------------------------------------------------------

LoginStep(c) ==
  \/ Startup(c) \/ Cancel(c) \/ Prove(c) \/ ConnectDatabase(c) \/ LoginFails(c)
  \/ AskPassword(c) \/ AskSasl(c) \/ SaslContinue(c) \/ SaslFinal(c) \/ LetIn(c)
  \/ Command(c)

-----------------------------------------------------------------------------
(* Properties                                                              *)

\* The command is told that it is in only when it gave the placeholder, asked for the
\* URL's role, and the server, where it began SCRAM, proved that it knows the password:
\* whatever a server asks in whatever order (postgres.rs:308-311, 205-207).  One order
\* is the exception, and the code's own: a server-final message that comes before any
\* server-first one is held against the zeros a session starts with (scram.rs:46, 98-103,
\* postgres.rs:393-403), which prove nothing.
LoginProved ==
  \A c \in Clients : login[c].at = "piped" =>
    /\ login[c].given
    /\ target.user # Nobody => login[c].users = <<target.user>>
    /\ login[c].scram # "none" => target.genuine \/ login[c].early
    /\ login[c].asked \subseteq Auth
    /\ login[c].asked = {} => "none" \in Auth

\* The password is spent only for a command that gave the placeholder, in a form the
\* URL's require_auth allows, inside TLS where sslmode wants it, never in a weaker form
\* once SCRAM has begun, and in Redis only where Redis reads a password, so that it is
\* neither stored nor echoed as the value (postgres.rs:36-47, 330-335; redis.rs:1-6).
\* Not so for a command that gives its placeholder for its user, or that calls its
\* client AUTH before the option of that name, which penv takes for it (redis.rs:107-113).
PasswordSpentAsAllowed ==
  \A c \in Clients : \A s \in login[c].spent :
    /\ target.scheme = "postgres" =>
         /\ s.given
         /\ s.form \in Auth
         /\ MustEncrypt => s.secured
         /\ s.afterScram => s.form = "scram"
         /\ target.sslmode = "verify" => target.certified
    /\ target.scheme = "redis" => s.form # "kept"

\* Both, in every session.
LoginHolds == LoginProved /\ PasswordSpentAsAllowed

=============================================================================
