------------------------------ MODULE Keypair ------------------------------
(***************************************************************************)
(* The bound keypair of penv-cloud/src/credential/keypair.rs: an Ed25519   *)
(* key in the host's keychain with a generation counter.  Every exchange   *)
(* signs the stored generation, the server counts it and answers with the  *)
(* next one, and the next one is banked in the keychain before the bearer  *)
(* is used.  Commands on one host queue on a lock file; `penv machine      *)
(* enroll` replaces the keychain item and takes no lock.                   *)
(*                                                                         *)
(* The key, the nonce and the signature are abstracted: only the credential*)
(* id and the generation decide what the server answers.  The server is    *)
(* external, modelled from docs/Cloud-API.md and the calls api.rs makes.   *)
(***************************************************************************)
EXTENDS Naturals, FiniteSets

CONSTANTS
  Commands,    \* penv commands that exchange the keypair, one exchange each
  Enrollers,   \* `penv machine enroll` commands, one enrolment each
  Ids,         \* credential ids the server may file a key under
  NoId,        \* the id of an empty keychain item
  NoCommand,   \* the holder of a free lock
  FirstId,     \* the enrolment the host starts with, when it is enrolled
  FirstGeneration, \* and how far earlier exchanges have counted it
  LockDir,     \* TRUE iff the host has a cache folder to queue in
  Faults       \* which faults happen

FaultKinds == {"crash", "timeout", "server", "keychain"}

ASSUME NamesAssumption ==
  /\ NoId \notin Ids
  /\ NoCommand \notin Commands
  /\ FirstId \in Ids
  /\ FirstGeneration \in Nat \ {0}

ASSUME FaultsAssumption ==
  /\ LockDir \in BOOLEAN
  /\ Faults \subseteq FaultKinds

VARIABLES
  keychain,  \* the KEYPAIR item: an enrolment
  lock,      \* who holds keypair.lock
  pc,        \* where each command is
  held,      \* the enrolment each command works with
  grant,     \* the generation the server granted each command, 0 before it did
  retried,   \* commands that have sent their body a second time
  wire,      \* requests on their way to the server, by command
  epc,       \* where each enroller is
  eid,       \* the id each enroller was answered with
  counter,   \* server: the generation it expects of each id, 0 if not issued
  revoked,   \* server: ids it read as cloned
  unsettled, \* history: ids an exchange was sent for and its outcome never banked
  replaced   \* history: ids overwritten in the keychain by another id

hostVars   == <<keychain, lock, pc, held, grant, retried>>
serverVars == <<counter, revoked>>
enrollVars == <<epc, eid>>
history    == <<unsettled, replaced>>
vars == <<hostVars, wire, enrollVars, serverVars, history>>

Enrolled == [id : Ids, generation : Nat \ {0}]
Nothing  == [id |-> NoId, generation |-> 0]

\* What a command is doing once it owns its turn in the queue.
Inside == {"locked", "read", "sent", "refused", "granted", "banked"}
\* A command past its own end: it holds no lock and sends nothing more.
Ended  == {"used", "failed", "dead"}
States == {"start", "found"} \cup Inside \cup Ended
\* `sent`: the request is out.  `refused` is a 5xx answer, `granted` a 2xx one.
EnrollStates == {"start", "answered", "enrolled", "failed", "dead"}

TypeOK ==
  /\ keychain \in Enrolled \cup {Nothing}
  /\ lock \in Commands \cup {NoCommand}
  /\ pc \in [Commands -> States]
  /\ held \in [Commands -> Enrolled \cup {Nothing}]
  /\ grant \in [Commands -> Nat]
  /\ retried \subseteq Commands
  /\ wire \in [Commands -> Enrolled \cup {Nothing}]
  /\ epc \in [Enrollers -> EnrollStates]
  /\ eid \in [Enrollers -> Ids \cup {NoId}]
  /\ counter \in [Ids -> Nat]
  /\ revoked \subseteq Ids
  /\ unsettled \subseteq Ids
  /\ replaced \subseteq Ids

\* The generation an enrolment starts at, and the default where none is named.
EnrolledGeneration == 1

Init ==
  /\ keychain \in {Nothing, [id |-> FirstId, generation |-> FirstGeneration]}
  /\ lock = NoCommand
  /\ pc = [c \in Commands |-> "start"]
  /\ held = [c \in Commands |-> Nothing]
  /\ grant = [c \in Commands |-> 0]
  /\ retried = {}
  /\ wire = [c \in Commands |-> Nothing]
  /\ epc = [e \in Enrollers |-> "start"]
  /\ eid = [e \in Enrollers |-> NoId]
  /\ counter = [i \in Ids |-> IF i = keychain.id THEN FirstGeneration ELSE 0]
  /\ revoked = {}
  /\ unsettled = {}
  /\ replaced = {}

----------------------------------------------------------------------------
(* The exchange, in the order of BoundKeypair::obtain                      *)

Step(c, from, to) ==
  /\ pc[c] = from
  /\ pc' = [pc EXCEPT ![c] = to]

\* A lock file whose owner has to take it away again.
MutantNeverUnlock(c) == UNCHANGED lock

\* `_queued` is dropped, on every path out of obtain and by the kernel when the
\* process dies.
Unlock(c) == lock' = IF lock = c THEN NoCommand ELSE lock

\* Credential resolution reads the keychain before anything queues.
FromKeychain(c) ==
  /\ keychain # Nothing
  /\ Step(c, "start", "found")
  /\ held' = [held EXCEPT ![c] = keychain]
  /\ UNCHANGED <<keychain, lock, grant, retried, wire, enrollVars, serverVars, history>>

TakeLock(c) ==
  /\ Step(c, "found", "locked")
  /\ IF LockDir
       THEN lock = NoCommand /\ lock' = c
       ELSE UNCHANGED lock
  /\ UNCHANGED <<keychain, held, grant, retried, wire, enrollVars, serverVars, history>>

\* The enrolment resolved before the queue used as it is.
MutantNoReread(c) ==
  /\ Step(c, "locked", "read")
  /\ UNCHANGED <<keychain, lock, held, grant, retried, wire, enrollVars, serverVars, history>>

\* Read again under the lock: a command ahead in the queue moved it on.  An
\* item filed under another id is passed over for the one resolved earlier.
ReadAgain(c) ==
  /\ Step(c, "locked", "read")
  /\ held' = [held EXCEPT ![c] = IF keychain.id = @.id THEN keychain ELSE @]
  /\ UNCHANGED <<keychain, lock, grant, retried, wire, enrollVars, serverVars, history>>

\* keypair_challenge answers with a nonce; the generation held is signed over it
\* and sent.
ChallengeAndSend(c) ==
  /\ Step(c, "read", "sent")
  /\ wire' = [wire EXCEPT ![c] = held[c]]
  /\ UNCHANGED <<keychain, lock, held, grant, retried, enrollVars, serverVars, history>>

\* The server counts a generation once; any other generation is a clone, and it
\* revokes the identity.  The answer reaches a command that still waits for it.
Count(c) ==
  LET request == wire[c] IN
  /\ request # Nothing
  /\ wire' = [wire EXCEPT ![c] = Nothing]
  /\ IF request.id \notin revoked /\ request.generation = counter[request.id]
       THEN /\ counter' = [counter EXCEPT ![request.id] = @ + 1]
            /\ UNCHANGED revoked
            /\ IF pc[c] = "sent"
                 THEN /\ pc' = [pc EXCEPT ![c] = "granted"]
                      /\ grant' = [grant EXCEPT ![c] = request.generation + 1]
                      /\ UNCHANGED lock
                 ELSE UNCHANGED <<pc, grant, lock>>
       ELSE /\ revoked' = revoked \cup {request.id}
            /\ UNCHANGED <<counter, grant>>
            /\ IF pc[c] = "sent"
                 THEN pc' = [pc EXCEPT ![c] = "failed"] /\ Unlock(c)
                 ELSE UNCHANGED <<pc, lock>>
  /\ UNCHANGED <<keychain, held, retried, enrollVars, history>>

\* A 5xx answer, before or after the server counted the request.
ServerError(c) ==
  LET request == wire[c] IN
  /\ "server" \in Faults
  /\ request # Nothing
  /\ pc[c] = "sent"
  /\ wire' = [wire EXCEPT ![c] = Nothing]
  /\ pc' = [pc EXCEPT ![c] = "refused"]
  /\ \/ UNCHANGED <<counter, unsettled>>
     \/ /\ request.id \notin revoked
        /\ request.generation = counter[request.id]
        /\ counter' = [counter EXCEPT ![request.id] = @ + 1]
        /\ unsettled' = unsettled \cup {request.id}
  /\ UNCHANGED <<keychain, lock, held, grant, retried, enrollVars, revoked, replaced>>

\* attempt: one more a second later, with the body it was built with.
Retry(c) ==
  /\ c \notin retried
  /\ Step(c, "refused", "sent")
  /\ retried' = retried \cup {c}
  /\ wire' = [wire EXCEPT ![c] = held[c]]
  /\ UNCHANGED <<keychain, lock, held, grant, enrollVars, serverVars, history>>

RefusedTwice(c) ==
  /\ c \in retried
  /\ Step(c, "refused", "failed")
  /\ Unlock(c)
  /\ UNCHANGED <<keychain, held, grant, retried, wire, enrollVars, serverVars, history>>

\* The generation that was signed banked, not the one that was answered.
MutantBankSigned(c) ==
  /\ Step(c, "granted", "banked")
  /\ keychain' = held[c]
  /\ replaced' = replaced \cup ({keychain.id} \ {held[c].id, NoId})
  /\ UNCHANGED <<lock, held, grant, retried, wire, enrollVars, serverVars, unsettled>>

\* The answer's generation not read, and the default of one never counted banked.
MutantBankDefault(c) ==
  /\ Step(c, "granted", "banked")
  /\ keychain' = [id |-> held[c].id, generation |-> EnrolledGeneration]
  /\ replaced' = replaced \cup ({keychain.id} \ {held[c].id, NoId})
  /\ UNCHANGED <<lock, held, grant, retried, wire, enrollVars, serverVars, unsettled>>

\* remember: the counter goes to the keychain before the bearer is handed back.
Bank(c) ==
  /\ Step(c, "granted", "banked")
  /\ keychain' = [id |-> held[c].id, generation |-> grant[c]]
  /\ replaced' = replaced \cup ({keychain.id} \ {held[c].id, NoId})
  /\ UNCHANGED <<lock, held, grant, retried, wire, enrollVars, serverVars, unsettled>>

Return(c) ==
  /\ Step(c, "banked", "used")
  /\ Unlock(c)
  /\ UNCHANGED <<keychain, held, grant, retried, wire, enrollVars, serverVars, history>>

\* The keychain will not answer: before the exchange nothing is sent, after it
\* the credential is not handed back.
KeychainRefuses(c) ==
  /\ "keychain" \in Faults
  /\ pc[c] \in {"locked", "granted"}
  /\ pc' = [pc EXCEPT ![c] = "failed"]
  /\ Unlock(c)
  /\ unsettled' = IF pc[c] = "granted" THEN unsettled \cup {held[c].id} ELSE unsettled
  /\ UNCHANGED <<keychain, held, grant, retried, wire, enrollVars, serverVars, replaced>>

\* The answer never arrives (offline, or TIMEOUT): obtain fails, and a request
\* already out may still be counted.
GiveUp(c) ==
  /\ "timeout" \in Faults
  /\ pc[c] \in {"read", "sent", "granted"}
  /\ pc' = [pc EXCEPT ![c] = "failed"]
  /\ Unlock(c)
  /\ unsettled' = IF pc[c] = "read" THEN unsettled ELSE unsettled \cup {held[c].id}
  /\ UNCHANGED <<keychain, held, grant, retried, wire, enrollVars, serverVars, replaced>>

\* The process dies anywhere: the kernel drops its lock.
Crash(c) ==
  /\ "crash" \in Faults
  /\ pc[c] \in Inside \cup {"found"}
  /\ pc' = [pc EXCEPT ![c] = "dead"]
  /\ Unlock(c)
  /\ unsettled' = IF pc[c] \in {"sent", "granted"} THEN unsettled \cup {held[c].id} ELSE unsettled
  /\ UNCHANGED <<keychain, held, grant, retried, wire, enrollVars, serverVars, replaced>>

----------------------------------------------------------------------------
(* penv machine enroll                                                     *)

\* The server files the new key under an unused id; the one-time secret is
\* spent.  The answer carries generation 1.
EnrollAnswered(e) ==
  /\ epc[e] = "start"
  /\ \E i \in {j \in Ids : counter[j] = 0} :
       /\ counter' = [counter EXCEPT ![i] = 1]
       /\ eid' = [eid EXCEPT ![e] = i]
       /\ \/ epc' = [epc EXCEPT ![e] = "answered"]
          \/ /\ "timeout" \in Faults
             /\ epc' = [epc EXCEPT ![e] = "failed"]
  /\ UNCHANGED <<hostVars, wire, revoked, history>>

\* remember, with no lock taken: the item another command is about to bank over.
EnrollRemember(e) ==
  /\ epc[e] = "answered"
  /\ \/ /\ epc' = [epc EXCEPT ![e] = "enrolled"]
        /\ keychain' = [id |-> eid[e], generation |-> EnrolledGeneration]
        /\ replaced' = replaced \cup ({keychain.id} \ {NoId})
     \/ /\ "keychain" \in Faults
        /\ epc' = [epc EXCEPT ![e] = "failed"]
        /\ UNCHANGED <<keychain, replaced>>
     \/ /\ "crash" \in Faults
        /\ epc' = [epc EXCEPT ![e] = "dead"]
        /\ UNCHANGED <<keychain, replaced>>
  /\ UNCHANGED <<lock, pc, held, grant, retried, wire, eid, serverVars, unsettled>>

----------------------------------------------------------------------------
Proceed(c) ==
  \/ FromKeychain(c) \/ TakeLock(c) \/ ReadAgain(c) \/ ChallengeAndSend(c)
  \/ Retry(c) \/ RefusedTwice(c) \/ Bank(c) \/ Return(c)

Obtain(c) == Proceed(c) \/ KeychainRefuses(c) \/ GiveUp(c) \/ Crash(c)

Server(c) == Count(c) \/ ServerError(c)

Enroll(e) == EnrollAnswered(e) \/ EnrollRemember(e)

Next ==
  \/ \E c \in Commands : Obtain(c) \/ Server(c)
  \/ \E e \in Enrollers : Enroll(e)

\* A running process keeps running and every request is answered: api.rs bounds
\* the wait with TIMEOUT.  No fault is bound to happen.
Fairness == \A c \in Commands : WF_vars(Proceed(c)) /\ WF_vars(Server(c))

Spec == Init /\ [][Next]_vars

FairSpec == Spec /\ Fairness

----------------------------------------------------------------------------
(* What the keypair promises                                               *)

\* The server reads a clone of a key this host did not copy only after the host
\* lost track of the counter: an exchange was sent and its outcome never banked
\* (a crash, a lost answer, a counted 5xx, a keychain that refused), or another
\* enrolment replaced the item.  Commands racing each other are never a cause:
\* keypair.rs queues them on the lock and re-reads the counter under it.
ClonedOnlyWithCause == revoked \subseteq unsettled \cup replaced

\* A bearer is handed back only once the keychain is past the generation that
\* bought it (docs/Cloud-API.md: "persists the returned generation before using
\* the credential"), so whatever runs next never signs that generation again.
BankedBeforeUse ==
  \A c \in Commands :
    /\ pc[c] = "used"
    /\ held[c].id \notin replaced
    => /\ keychain.id = held[c].id
       /\ keychain.generation > held[c].generation

\* The banked counter of one enrolment never goes back: an exchange that was
\* overtaken in the queue cannot write its older answer over a newer one.
CounterNeverGoesBack ==
  [][keychain'.id = keychain.id => keychain'.generation >= keychain.generation]_vars

\* Every exchange that joins the queue ends, crashes of the commands ahead of it
\* included: the lock file is never left held by nobody.
EveryExchangeEnds ==
  \A c \in Commands : pc[c] = "found" ~> pc[c] \in Ended

\* keypair.rs:74-76, of the lock: "so two penv commands on this host never sign
\* the same generation: the second would be `409 cloned`, and the server revokes
\* the identity for it".  keypair.rs:152-153, of banking: "a crash costs a
\* re-enrolment, never a generation the server will read as a clone".
NeverReadAsClone == revoked = {}

============================================================================
