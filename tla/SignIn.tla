------------------------------- MODULE SignIn -------------------------------
(***************************************************************************)
(* Proving who this host is.  `penv login` asks for a device code, polls   *)
(* until a person approves it and keeps the credential in the keychain;    *)
(* `penv logout` revokes what the keychain holds and deletes it; `penv     *)
(* reveal` takes the first credential the host has, exchanges it where it  *)
(* is a machine's, and prints a value or asks a person to approve it.      *)
(* Whether the session is an agent's is read from its environment.         *)
(*                                                                         *)
(* A request is answered, or answered by a server error after it was       *)
(* handled, or handled and its answer lost with the connection.            *)
(***************************************************************************)
EXTENDS Naturals, FiniteSets, Sequences

CONSTANTS
  Sessions,      \* the processes
  Codes,         \* device codes, and the credential each is worth
  Keys,
  Approvals,
  Environments,  \* what the sessions may be started with
  Intervals,     \* the seconds a server asks a poll to wait
  Lifetimes,     \* the seconds a device code is good for
  MaxInterval,   \* MAX_INTERVAL
  MaxTries,      \* UNAVAILABLE_RETRIES
  MaxCommands,   \* bounds the commands of a session
  MaxClock,      \* bounds the clock
  None

Faults == {"lost", "refused", "crash", "replaced", "overlapped", "offline"}

ASSUME SignInAssumption ==
  /\ None \notin Codes /\ None \notin Approvals /\ None \notin Faults
  /\ None \notin Nat /\ None \notin Sessions \X Nat
  /\ MaxTries \in Nat \ {0} /\ MaxClock \in Nat /\ MaxCommands \in Nat

VARIABLES
  env,        \* each session's environment
  usable,     \* the host has a keychain
  item,       \* the login the keychain holds
  device,     \* the server: each code
  live,       \* the server: the logins it accepts
  approval,   \* the server: each approval
  accepted,   \* the server: the signed request of each second it took: whose, and of which command
  clock,
  me,         \* each session's command
  ran,        \* how many commands each session has begun
  cause,      \* history: why a live login is held by nobody
  printed,    \* history: the keys whose values each approval printed, in order
  spent       \* history: the keys the commands that redeemed each approval had named

vars == <<env, usable, item, device, live, approval, accepted, clock, me, ran, cause, printed, spent>>
server == <<device, live, approval, accepted>>

Kinds == {"token", "user", "github", "held", "aws", "web", "container"}
Pcs   == {"idle", "start", "wait", "poll", "granted", "revoke", "forget",
          "platform", "exchange", "ask", "look", "spend", "read"}

Fresh == [pc |-> "idle", key |-> None, id |-> None, code |-> None, interval |-> 0, left |-> 0,
          again |-> FALSE, tries |-> 0, opened |-> 0, began |-> 0, last |-> None,
          until |-> 0, clash |-> None]

TypeOK ==
  /\ env \in Environments
  /\ usable \in BOOLEAN
  /\ item \in Codes \cup {None}
  /\ device \in [Codes -> {"free", "pending", "approved", "denied", "expired", "spent"}]
  /\ live \subseteq Codes
  /\ approval \in [Approvals -> [key : Keys \cup {None}, by : Sessions \cup {None},
       state : {"free", "pending", "approved", "denied", "expired", "redeemed"}]]
  /\ accepted \in [0..(MaxClock + MaxTries) -> (Sessions \X Nat) \cup {None}]
  /\ clock \in 0..MaxClock
  /\ \A p \in Sessions :
       /\ me[p].pc \in Pcs /\ DOMAIN me[p] = DOMAIN Fresh
       /\ me[p].code \in Codes \cup {None}
       /\ me[p].key \in Keys \cup {None} /\ me[p].id \in Approvals \cup {None}
  /\ ran \in [Sessions -> 0..MaxCommands]
  /\ cause \in [Codes -> {None} \cup Faults]
  /\ \A r \in Approvals : printed[r] \in Seq(Keys)
  /\ spent \in [Approvals -> SUBSET Keys]

Init ==
  /\ env \in Environments
  /\ usable \in BOOLEAN
  /\ item = None
  /\ device = [c \in Codes |-> "free"]
  /\ live = {}
  /\ approval = [r \in Approvals |-> [key |-> None, by |-> None, state |-> "free"]]
  /\ accepted = [t \in 0..(MaxClock + MaxTries) |-> None]
  /\ clock = 0
  /\ me = [p \in Sessions |-> Fresh]
  /\ ran = [p \in Sessions |-> 0]
  /\ cause = [c \in Codes |-> None]
  /\ printed = [r \in Approvals |-> <<>>]
  /\ spent = [r \in Approvals |-> {}]

-----------------------------------------------------------------------------
(* Who the session is.  A signal is what one marker of the environment     *)
(* says: nothing, an agent, or something that names none (`0`, a name off  *)
(* the list, one that is empty once it is read).                           *)

Ladder == <<"own variable", "AI_AGENT", "AGENT", "devin path", "parent process">>

\* The first marker that names an agent; a marker that names none is passed over.
Detected(e) ==
  LET names == {i \in 1..Len(Ladder) : e.signals[Ladder[i]] = "agent"}
  IN  IF names = {} THEN None ELSE Ladder[CHOOSE i \in names : \A j \in names : i <= j]

IsAgent(e)       == Detected(e) # None \/ e.flag
RevealAllowed(e) == ~IsAgent(e)

(* Which credential.  The places in the order of their ranks; only the      *)
(* keychain's when the server's address is the project's.  One that names   *)
(* the workspace refuses a slug before any request.                         *)

Places == <<"token", "user", "github", "held", "aws", "web", "container">>

Holds(e, kind) ==
  IF kind = "user" THEN item # None ELSE kind \in e.kinds /\ ~e.withheld

Credential(e) ==
  LET there == {i \in 1..Len(Places) : Holds(e, Places[i])}
  IN  IF there = {} THEN None ELSE Places[CHOOSE i \in there : \A j \in there : i <= j]

NamesWorkspace(kind) == kind \in {"github", "aws", "web", "container"}

\* The platform hands the token, or the keys, over its own endpoint.
AsksPlatform(kind) == kind \in {"github", "web", "container"}
Signs(kind)        == kind \in {"aws", "web", "container"}

-----------------------------------------------------------------------------
At(p, pc) == me[p].pc = pc
Set(p, r) == me' = [me EXCEPT ![p] = r]
Ends(p)   == Set(p, [Fresh EXCEPT !.clash = me[p].clash])
Fates     == {"answered", "error", "lost"}

\* `attempt`: a server error is asked once more, a lost answer is the end.
\* Where the answer was lost for good the command ends too.
Again(p) == Set(p, [me[p] EXCEPT !.again = TRUE])
Unanswered(p, fate) ==
  IF fate = "error" /\ ~me[p].again THEN Again(p) ELSE Ends(p)

\* A login that nobody holds any more, with the fault that took it away.
Orphan(c, why) == cause' = [cause EXCEPT ![c] = IF @ = None THEN why ELSE @]

Opens(p, command) ==
  /\ me[p].pc = "idle" /\ command \in env[p].runs
  /\ ran[p] < MaxCommands /\ ran' = [ran EXCEPT ![p] = @ + 1]

\* BUG: the sign-in begins whether or not its credential has somewhere to go.
MutantMaySignIn(e) == ~IsAgent(e)

MaySignIn(e) == ~IsAgent(e) /\ usable

Login(p) ==
  /\ Opens(p, "login")
  /\ IF MaySignIn(env[p]) THEN Set(p, [Fresh EXCEPT !.pc = "start"]) ELSE Ends(p)
  /\ UNCHANGED <<env, usable, item, server, clock, cause, printed, spent>>

\* BUG: the wait is what the server says, however short.
MutantClamp(seconds) == IF seconds > MaxInterval THEN MaxInterval ELSE seconds

Clamp(seconds) ==
  IF seconds > MaxInterval THEN MaxInterval ELSE IF seconds < 1 THEN 1 ELSE seconds

\* Each send makes a code; one whose answer is lost is polled by nobody.
DeviceStart(p) ==
  /\ At(p, "start")
  /\ \E c \in Codes, fate \in Fates :
       /\ device[c] = "free"
       /\ device' = [device EXCEPT ![c] = "pending"]
       /\ IF fate = "answered"
          THEN \E i \in Intervals, l \in Lifetimes :
                 Set(p, [me[p] EXCEPT !.pc = "wait", !.code = c, !.again = FALSE,
                                      !.interval = Clamp(i), !.left = l])
          ELSE Unanswered(p, fate)
  /\ UNCHANGED <<env, usable, item, live, approval, accepted, clock, ran, cause, printed, spent>>

DeviceStartFails(p) ==
  /\ At(p, "start")
  /\ Ends(p)
  /\ UNCHANGED <<env, usable, item, server, clock, ran, cause, printed, spent>>

Sleep(p) ==
  /\ At(p, "wait")
  /\ Set(p, [me[p] EXCEPT !.pc = "poll", !.again = FALSE,
       !.left = IF @ > me[p].interval THEN @ - me[p].interval ELSE 0])
  /\ UNCHANGED <<env, usable, item, server, clock, ran, cause, printed, spent>>

\* Waiting goes on until the code's time is over.
Waits(p, interval) ==
  IF me[p].left = 0 THEN Ends(p)
  ELSE Set(p, [me[p] EXCEPT !.pc = "wait", !.interval = interval])

\* An approved code is granted once; the server makes the login before its
\* answer is on its way.
Poll(p) ==
  /\ At(p, "poll")
  /\ LET c == me[p].code IN \E fate \in Fates :
       IF device[c] = "approved"
       THEN /\ device' = [device EXCEPT ![c] = "spent"]
            /\ live' = live \cup {c}
            /\ IF fate = "answered"
               THEN Set(p, [me[p] EXCEPT !.pc = "granted"]) /\ UNCHANGED cause
               ELSE Unanswered(p, fate) /\ Orphan(c, "lost")
       ELSE /\ UNCHANGED <<device, live, cause>>
            /\ IF fate = "answered"
               THEN IF device[c] = "pending" THEN Waits(p, me[p].interval) ELSE Ends(p)
               ELSE Unanswered(p, fate)
  /\ UNCHANGED <<env, usable, item, approval, accepted, clock, ran, printed, spent>>

\* Any 429, whatever the code's state: the wait becomes what it names.
SlowDown(p) ==
  /\ At(p, "poll")
  /\ \E i \in Intervals : Waits(p, Clamp(i))
  /\ UNCHANGED <<env, usable, item, server, clock, ran, cause, printed, spent>>

\* The login replaces the one before it, which nothing revokes.
Keep(p) ==
  /\ At(p, "granted")
  /\ usable
  /\ item' = me[p].code
  /\ IF item \in live \ {me[p].code} THEN Orphan(item, "replaced") ELSE UNCHANGED cause
  /\ Ends(p)
  /\ UNCHANGED <<env, usable, server, clock, ran, printed, spent>>

\* A keychain that opened refuses this write; one the host never had does too,
\* but that is no fault to excuse a login with.
KeepFails(p) ==
  /\ At(p, "granted")
  /\ IF usable THEN Orphan(me[p].code, "refused") ELSE UNCHANGED cause
  /\ Ends(p)
  /\ UNCHANGED <<env, usable, item, server, clock, ran, printed, spent>>

-----------------------------------------------------------------------------
Logout(p) ==
  /\ Opens(p, "logout")
  /\ IF item = None THEN Set(p, [Fresh EXCEPT !.pc = "forget"])
     ELSE Set(p, [Fresh EXCEPT !.pc = "revoke", !.code = item])
  /\ UNCHANGED <<env, usable, item, server, clock, cause, printed, spent>>

\* A revocation that fails is not tried later: the login is forgotten alive.
Revoke(p) ==
  /\ At(p, "revoke")
  /\ \E fate \in Fates \cup {"offline"} :
       /\ live' = IF fate = "offline" THEN live ELSE live \ {me[p].code}
       /\ IF fate = "offline" /\ me[p].code \in live
          THEN Orphan(me[p].code, "offline") ELSE UNCHANGED cause
       /\ IF fate = "error" /\ ~me[p].again THEN Again(p)
          ELSE Set(p, [me[p] EXCEPT !.pc = "forget"])
  /\ UNCHANGED <<env, usable, item, device, approval, accepted, clock, ran, printed, spent>>

\* What is deleted is whatever the item holds now.
Forget(p) ==
  /\ At(p, "forget")
  /\ item' = None
  /\ IF item \in live \ {me[p].code} THEN Orphan(item, "overlapped") ELSE UNCHANGED cause
  /\ Ends(p)
  /\ UNCHANGED <<env, usable, server, clock, ran, printed, spent>>

ForgetFails(p) ==
  /\ At(p, "forget")
  /\ Ends(p)
  /\ UNCHANGED <<env, usable, item, server, clock, ran, cause, printed, spent>>

-----------------------------------------------------------------------------
\* What the command does once it has its bearer.
Asks(e, id) == IF id # None THEN "look" ELSE IF RevealAllowed(e) THEN "read" ELSE "ask"

\* Any approval's id may be named beside any key, or none.
Reveal(p) ==
  /\ Opens(p, "reveal")
  /\ \E key \in Keys, id \in {None} \cup {r \in Approvals : approval[r].state # "free"} :
       LET kind == Credential(env[p])
           next == [Fresh EXCEPT !.key = key, !.id = id, !.opened = clock]
       IN  IF kind = None \/ (NamesWorkspace(kind) /\ env[p].slug) THEN Ends(p)
           ELSE IF kind \in {"token", "user"}
           THEN Set(p, [next EXCEPT !.pc = Asks(env[p], id)])
           ELSE Set(p, [next EXCEPT !.code = None, !.began = clock,
                  !.pc = IF AsksPlatform(kind) THEN "platform" ELSE "exchange"])
  /\ UNCHANGED <<env, usable, item, server, clock, cause, printed, spent>>

\* The job's token, the role's keys or the container's: fetched over https, or
\* from loopback and the platform's own addresses, or not at all.
Platform(p) ==
  /\ At(p, "platform")
  /\ IF env[p].endpoint THEN Set(p, [me[p] EXCEPT !.pc = "exchange", !.began = clock])
     ELSE Ends(p)
  /\ UNCHANGED <<env, usable, item, server, clock, ran, cause, printed, spent>>

Later(t, n) == IF t + n > MaxClock THEN MaxClock ELSE t + n

\* BUG: the request is signed for the moment the command began.
MutantInstant(m) == m.opened

\* The second a try is signed for: what has gone by since the first one, and
\* never the one before.
Instant(m) ==
  LET elapsed == m.opened + (clock - m.began)
  IN  IF m.last = None \/ elapsed > m.last THEN elapsed ELSE m.last + 1

\* A 503 is tried again with a longer pause, another server error once.
Retries(answer) ==
  IF answer = "unavailable" THEN MaxTries ELSE IF answer = "error" THEN 1 ELSE 0

\* A signed request is taken once.
Exchange(p) ==
  LET m  == me[p]
      at == Instant(m)
      signs == Signs(Credential(env[p]))
      goes  == [m EXCEPT !.pc = Asks(env[p], m.id), !.again = FALSE]
      tried == [m EXCEPT !.last = at, !.tries = @ + 1, !.until = Later(clock, 2 ^ m.tries)]
  IN  /\ At(p, "exchange") /\ clock >= m.until
      /\ \/ /\ signs /\ accepted[at] # None
            /\ Set(p, [Fresh EXCEPT !.clash = accepted[at]])
            /\ UNCHANGED accepted
         \/ /\ signs => accepted[at] = None
            /\ \E answer \in {"granted", "unavailable", "error", "refused"} :
                 /\ accepted' = IF signs THEN [accepted EXCEPT ![at] = <<p, ran[p]>>] ELSE accepted
                 /\ IF answer = "granted" THEN Set(p, goes)
                    ELSE IF m.tries < Retries(answer) THEN Set(p, tried)
                    ELSE Ends(p)
      /\ UNCHANGED <<env, usable, item, device, live, approval, clock, ran, cause, printed, spent>>

\* One open request for a key and a session; asking again is the same one.
Ask(p) ==
  /\ At(p, "ask")
  /\ LET open == {r \in Approvals : approval[r].state = "pending"
                    /\ approval[r].key = me[p].key /\ approval[r].by = p}
     IN  \E fate \in Fates :
           /\ IF open # {} THEN UNCHANGED approval
              ELSE \E r \in Approvals :
                     /\ approval[r].state = "free"
                     /\ approval' = [approval EXCEPT
                          ![r] = [key |-> me[p].key, by |-> p, state |-> "pending"]]
           /\ IF fate = "answered" THEN Ends(p) ELSE Unanswered(p, fate)
  /\ UNCHANGED <<env, usable, item, device, live, accepted, clock, ran, cause, printed, spent>>

\* BUG: the approval is spent whatever key it was asked for.
MutantMaySpend(asked, name) == TRUE

MaySpend(asked, name)    == asked = name
MayPrint(revealed, name) == revealed = name

\* The approval is read before it is spent; one whose key the server does not say
\* is left unspent.
Look(p) ==
  /\ At(p, "look")
  /\ LET r == me[p].id IN
       \/ /\ approval[r].state # "free" /\ MaySpend(approval[r].key, me[p].key)
          /\ Set(p, [me[p] EXCEPT !.pc = "spend", !.again = FALSE])
       \/ Ends(p)
  /\ UNCHANGED <<env, usable, item, server, clock, ran, cause, printed, spent>>

\* The redemption names its key too: nothing holds the server to the one it said
\* before, and a value of another key is not printed.
Redeem(p) ==
  /\ At(p, "spend")
  /\ LET r == me[p].id IN
       IF approval[r].state # "approved" THEN Ends(p) /\ UNCHANGED <<approval, printed, spent>>
       ELSE /\ approval' = [approval EXCEPT ![r].state = "redeemed"]
            /\ spent' = [spent EXCEPT ![r] = @ \cup {me[p].key}]
            /\ \/ \E revealed \in Keys :
                    /\ printed' = IF MayPrint(revealed, me[p].key)
                                  THEN [printed EXCEPT ![r] = Append(@, revealed)] ELSE printed
                    /\ Ends(p)
               \/ \E fate \in {"error", "lost"} : Unanswered(p, fate) /\ UNCHANGED printed
  /\ UNCHANGED <<env, usable, item, device, live, accepted, clock, ran, cause>>

\* A person's own reading: a value, or a redacted key, or none.
Read(p) ==
  /\ At(p, "read")
  /\ Ends(p)
  /\ UNCHANGED <<env, usable, item, server, clock, ran, cause, printed, spent>>

Offline(p) ==
  /\ me[p].pc \in {"poll", "exchange", "platform", "ask", "look", "spend"}
  /\ Ends(p)
  /\ UNCHANGED <<env, usable, item, server, clock, ran, cause, printed, spent>>

-----------------------------------------------------------------------------
\* The process is killed: a login in its hands is lost with it.
Crash(p) ==
  /\ ~At(p, "idle")
  /\ IF At(p, "granted") THEN Orphan(me[p].code, "crash") ELSE UNCHANGED cause
  /\ Ends(p)
  /\ UNCHANGED <<env, usable, item, server, clock, ran, printed, spent>>

\* A person answers in the console, or nobody does in time.
DecideCode ==
  \E c \in Codes, said \in {"approved", "denied", "expired"} :
    /\ device[c] = "pending"
    /\ device' = [device EXCEPT ![c] = said]
    /\ UNCHANGED <<env, usable, item, live, approval, accepted, clock, me, ran, cause, printed, spent>>

DecideApproval ==
  \E r \in Approvals, said \in {"approved", "denied", "expired"} :
    /\ approval[r].state = "pending"
    /\ approval' = [approval EXCEPT ![r].state = said]
    /\ UNCHANGED <<env, usable, item, device, live, accepted, clock, me, ran, cause, printed, spent>>

\* Time passes where a command looks at it.
Tick ==
  /\ clock < MaxClock
  /\ \E p \in Sessions : me[p].pc \in {"exchange", "platform"}
  /\ clock' = clock + 1
  /\ UNCHANGED <<env, usable, item, server, me, ran, cause, printed, spent>>

Proceed(p) ==
  \/ DeviceStart(p) \/ DeviceStartFails(p) \/ Sleep(p) \/ Poll(p) \/ SlowDown(p)
  \/ Keep(p) \/ KeepFails(p)
  \/ Revoke(p) \/ Forget(p) \/ ForgetFails(p)
  \/ Platform(p) \/ Exchange(p) \/ Ask(p) \/ Look(p) \/ Redeem(p) \/ Read(p) \/ Offline(p)

Next ==
  \/ \E p \in Sessions : Login(p) \/ Logout(p) \/ Reveal(p) \/ Proceed(p) \/ Crash(p)
  \/ DecideCode \/ DecideApproval \/ Tick

\* A process that runs takes its steps; nobody else has to.
Spec == Init /\ [][Next]_vars /\ \A p \in Sessions : WF_vars(Proceed(p))

-----------------------------------------------------------------------------
\* A login the server accepts is in this host's keychain or in the hands of
\* the command that was granted it, unless one of the faults the code cannot
\* undo took it away: an answer lost, a keychain that refused, a crash, a
\* second login, a sign-out with no network or in the middle of a sign-in.
LiveLoginIsHeld ==
  \A c \in live :
    \/ item = c
    \/ cause[c] # None
    \/ \E p \in Sessions : me[p].code = c /\ me[p].pc = "granted"

\* An approval prints one value, once, and it is the key a person was asked
\* about, whatever key the server names when it is redeemed; a command that
\* names another key leaves it unspent (reveal.rs 101-104, 175-178).
RevealsWereApproved ==
  \A r \in Approvals :
    /\ Len(printed[r]) <= 1
    /\ \A i \in 1..Len(printed[r]) :
         printed[r][i] = approval[r].key /\ approval[r].state = "redeemed"
    /\ spent[r] \subseteq {approval[r].key}

\* No try of an exchange is refused because an earlier try of the same
\* command had already been taken for the same second.
TriesDiffer == \A p \in Sessions : me[p].clash # <<p, ran[p]>>

\* A sign-in ends, however the server answers its polls.
EveryLoginEnds ==
  \A p \in Sessions : me[p].pc \in {"start", "wait", "poll", "granted"} ~> At(p, "idle")
=============================================================================
