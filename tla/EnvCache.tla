------------------------------ MODULE EnvCache ------------------------------
(***************************************************************************)
(* One environment read through the encrypted cache of                     *)
(* penv-cloud/src/cache.rs by several penv commands on one host, while     *)
(* others push to the environment, sign out and sign in.                   *)
(*                                                                         *)
(* The cache file is one per server and address; it is sealed with the     *)
(* CACHE_KEY item and bound to the identity of the credential that filled  *)
(* it, so it opens for a reader with the same key and the same identity.   *)
(* Ciphertexts, nonces and paths are abstracted to that.  A body is its    *)
(* version, which is also its ETag.                                        *)
(*                                                                         *)
(* The once-a-day offline warning only decides what is printed and is left *)
(* out.  The server is external.                                           *)
(***************************************************************************)
EXTENDS Naturals, Sequences

CONSTANTS
  Readers,       \* commands that read the environment
  Token,         \* the PENV_TOKEN a command may run with
  FirstLogin,    \* the login the keychain starts with
  NextLogin,     \* the login `penv login` is granted
  NoLogin,       \* an empty USER item
  NoKey,         \* an empty CACHE_KEY item, and the key of a reader without a cache
  NoEntry,       \* no cache file, and no entry read
  NotBegun, Unanswered, Refused,  \* as in EnvPromise
  Ttl,           \* DEV_TTL_SECS
  Faults,        \* which faults happen
  MaxClock,      \* bound: the clock stops here
  MaxEpochs      \* bound: how often the server's state changes

FaultKinds == {"offline", "server", "keychain", "disk"}

ASSUME CacheAssumption ==
  /\ NoKey \notin Readers
  /\ Faults \subseteq FaultKinds
  /\ Ttl \in Nat \ {0}
  /\ MaxClock \in Nat
  /\ MaxEpochs \in Nat \ {0}

Credentials == {Token, FirstLogin, NextLogin}

VARIABLES
  development,  \* TRUE iff the address names development, fixed from the start
  clock,     \* seconds
  epochs,    \* server: its states so far, each [from, version, live]
  user,      \* keychain: USER
  cacheKey,  \* keychain: CACHE_KEY, named by the reader that made it
  file,      \* the sealed cache file
  pc,        \* where each reader is
  began,     \* the `now` each reader took
  who,       \* the credential each reader found
  key,       \* the key each reader's cache is open with
  entry,     \* the entry each reader holds: read from the file, then fetched
  answers,   \* what each reader answered its command with
  signOut,   \* where `penv logout` is
  signIn     \* where `penv login` is

readerVars == <<pc, began, who, key, entry, answers>>
hostVars   == <<user, cacheKey, file>>
vars == <<development, clock, epochs, hostVars, readerVars, signOut, signIn>>

Server == epochs[Len(epochs)]

Epoch  == [from : 0..MaxClock, version : Nat, live : SUBSET Credentials]
Entry  == [version : Nat, to : Credentials, fetchedAt : Nat]
Sealed == [key : Readers, aad : Credentials, entry : Entry]
Answer == [version : Nat, to : Credentials, offline : BOOLEAN]

\* The empty values are none of the others.
ASSUME EmptyAssumption ==
  /\ NoEntry \notin Entry
  /\ NoEntry \notin Sealed
  /\ Unanswered \notin Answer
  /\ Refused \notin Answer
  /\ NoLogin \notin Credentials
  /\ NotBegun \notin Nat

States == {"start", "open", "keying", "read", "head", "get", "write", "ended"}

TypeOK ==
  /\ development \in BOOLEAN
  /\ clock \in 0..MaxClock
  /\ epochs \in Seq(Epoch) \ { <<>> }
  /\ user \in {FirstLogin, NextLogin, NoLogin}
  /\ cacheKey \in Readers \cup {NoKey}
  /\ file \in Sealed \cup {NoEntry}
  /\ pc \in [Readers -> States]
  /\ began \in [Readers -> 0..MaxClock \cup {NotBegun}]
  /\ who \in [Readers -> Credentials \cup {NoLogin}]
  /\ key \in [Readers -> Readers \cup {NoKey}]
  /\ entry \in [Readers -> Entry \cup {NoEntry}]
  /\ answers \in [Readers -> Answer \cup {Unanswered, Refused}]
  /\ signOut \in {"no", "revoked", "forgotten", "user deleted", "out", "failed"}
  /\ signIn \in {"no", "granted", "in"}

Init ==
  /\ development \in BOOLEAN
  /\ clock = 0
  /\ user = FirstLogin
  /\ epochs = << [from |-> 0, version |-> 0, live |-> {Token, FirstLogin}] >>
  /\ cacheKey = NoKey
  /\ file = NoEntry
  /\ pc = [r \in Readers |-> "start"]
  /\ began = [r \in Readers |-> NotBegun]
  /\ who = [r \in Readers |-> NoLogin]
  /\ key = [r \in Readers |-> NoKey]
  /\ entry = [r \in Readers |-> NoEntry]
  /\ answers = [r \in Readers |-> Unanswered]
  /\ signOut = "no"
  /\ signIn = "no"

-----------------------------------------------------------------------------
(* The server and the clock                                                *)

Tick ==
  /\ clock < MaxClock
  /\ clock' = clock + 1
  /\ UNCHANGED <<development, epochs, hostVars, readerVars, signOut, signIn>>

Becomes(version, live) ==
  /\ Len(epochs) < MaxEpochs
  /\ epochs' = Append(epochs, [from |-> clock, version |-> version, live |-> live])

\* Somebody writes a value: the body and its ETag change.
Publish ==
  /\ Becomes(Server.version + 1, Server.live)
  /\ UNCHANGED <<development, clock, hostVars, readerVars, signOut, signIn>>

-----------------------------------------------------------------------------
(* One reader, in the order of Fetcher::keys, Cache::open and revalidate   *)

Goto(r, from, to) ==
  /\ pc[r] = from
  /\ pc' = [pc EXCEPT ![r] = to]

\* A command that has its answer, or fails, forgets its key and its entry.
End(r, from) ==
  /\ Goto(r, from, "ended")
  /\ key' = [key EXCEPT ![r] = NoKey]
  /\ entry' = [entry EXCEPT ![r] = NoEntry]

AnswerWith(r, from, e, offline) ==
  /\ End(r, from)
  /\ answers' = [answers EXCEPT ![r] = [version |-> e.version, to |-> e.to, offline |-> offline]]

Refuse(r, from) ==
  /\ End(r, from)
  /\ answers' = [answers EXCEPT ![r] = Refused]

\* The clock is read, and the first credential in the order is taken: the
\* variable, where it is set, then the login.
Begin(r) ==
  /\ began' = [began EXCEPT ![r] = clock]
  /\ \E found \in {Token, user} :
       /\ who' = [who EXCEPT ![r] = found]
       /\ IF found = NoLogin
            THEN Refuse(r, "start")
            ELSE Goto(r, "start", "open") /\ UNCHANGED <<key, entry, answers>>
  /\ UNCHANGED <<development, clock, epochs, hostVars, signOut, signIn>>

\* cache_key reads the item; an empty one is made next.  A keychain that will not
\* answer leaves this reader without a cache.
OpenCache(r) ==
  /\ \/ /\ cacheKey # NoKey
        /\ Goto(r, "open", "read")
        /\ key' = [key EXCEPT ![r] = cacheKey]
     \/ /\ cacheKey = NoKey
        /\ Goto(r, "open", "keying")
        /\ UNCHANGED key
     \/ /\ "keychain" \in Faults
        /\ Goto(r, "open", "get")
        /\ UNCHANGED key
  /\ UNCHANGED <<development, clock, epochs, hostVars, began, who, entry, answers, signOut, signIn>>

\* The new key is stored over whatever another command stored since.
MakeKey(r) ==
  /\ \/ /\ Goto(r, "keying", "read")
        /\ cacheKey' = r
        /\ key' = [key EXCEPT ![r] = r]
     \/ /\ "keychain" \in Faults
        /\ Goto(r, "keying", "get")
        /\ UNCHANGED <<cacheKey, key>>
  /\ UNCHANGED <<development, clock, epochs, user, file, began, who, entry, answers, signOut, signIn>>

\* Any file that opens is taken, whoever filled it.
MutantOpens(r) == file # NoEntry /\ file.key = key[r]

\* A file sealed with another key or for another identity reads as none.
Opens(r) == file # NoEntry /\ file.key = key[r] /\ file.aad = who[r]

Fresh(e, now) == development /\ now >= e.fetchedAt /\ now - e.fetchedAt < Ttl

ReadCache(r) ==
  /\ \/ /\ Opens(r) /\ Fresh(file.entry, began[r])
        /\ AnswerWith(r, "read", file.entry, FALSE)
     \/ /\ Opens(r) /\ ~Fresh(file.entry, began[r])
        /\ Goto(r, "read", "head")
        /\ entry' = [entry EXCEPT ![r] = file.entry]
        /\ UNCHANGED <<key, answers>>
     \/ /\ ~Opens(r)
        /\ Goto(r, "read", "get")
        /\ UNCHANGED <<key, entry, answers>>
  /\ UNCHANGED <<development, clock, epochs, hostVars, began, who, signOut, signIn>>

\* A credential the server no longer takes, or a server that fails twice.
Denied(r) == who[r] \notin Server.live \/ "server" \in Faults

\* HEAD with the ETag held: 304 keeps the body and restarts its age from `now`.
AskHead(r) ==
  /\ pc[r] = "head"
  /\ \/ /\ Denied(r)
        /\ Refuse(r, "head")
     \/ /\ who[r] \in Server.live
        /\ entry[r].version = Server.version
        /\ Goto(r, "head", "write")
        /\ entry' = [entry EXCEPT ![r].fetchedAt = began[r]]
        /\ UNCHANGED <<key, answers>>
     \/ /\ who[r] \in Server.live
        /\ entry[r].version # Server.version
        /\ Goto(r, "head", "get")
        /\ UNCHANGED <<key, entry, answers>>
  /\ UNCHANGED <<development, clock, epochs, hostVars, began, who, signOut, signIn>>

Caches(r) == key[r] # NoKey

\* GET without an ETag, stamped with the `now` taken before anything was asked.
\* A reader without a cache answers at once.
AskGet(r) ==
  LET body == [version |-> Server.version, to |-> who[r], fetchedAt |-> began[r]] IN
  /\ \/ /\ Denied(r)
        /\ Refuse(r, "get")
     \/ /\ who[r] \in Server.live
        /\ ~Caches(r)
        /\ AnswerWith(r, "get", body, FALSE)
     \/ /\ who[r] \in Server.live
        /\ Caches(r)
        /\ Goto(r, "get", "write")
        /\ entry' = [entry EXCEPT ![r] = body]
        /\ UNCHANGED <<key, answers>>
  /\ UNCHANGED <<development, clock, epochs, hostVars, began, who, signOut, signIn>>

\* A stale entry answers for development alone; everything else fails closed.
OfflineAnswers(r) == development /\ entry[r] # NoEntry

Offline(r) ==
  /\ "offline" \in Faults
  /\ pc[r] \in {"head", "get"}
  /\ IF OfflineAnswers(r)
       THEN AnswerWith(r, pc[r], entry[r], TRUE)
       ELSE Refuse(r, pc[r])
  /\ UNCHANGED <<development, clock, epochs, hostVars, began, who, signOut, signIn>>

\* The age counted from the writing of the file.
MutantStamped(r) == [entry[r] EXCEPT !.fetchedAt = clock]

\* The entry is written as it was stamped.
Stamped(r) == entry[r]

\* The file is swapped in whole, the folder made again where it is gone, before
\* the answer is given; one that cannot be written refuses the answer.
WriteCache(r) ==
  /\ \/ /\ AnswerWith(r, "write", entry[r], FALSE)
        /\ file' = [key |-> key[r], aad |-> who[r], entry |-> Stamped(r)]
     \/ /\ "disk" \in Faults
        /\ Refuse(r, "write")
        /\ UNCHANGED file
  /\ UNCHANGED <<development, clock, epochs, user, cacheKey, began, who, signOut, signIn>>

-----------------------------------------------------------------------------
(* penv logout and penv login                                              *)

\* The stored credential is revoked; a server that cannot be asked does not stop
\* the sign-out.
LogoutRevoke ==
  /\ signOut = "no"
  /\ signOut' = "revoked"
  /\ \/ user = NoLogin /\ UNCHANGED epochs
     \/ user # NoLogin /\ Becomes(Server.version, Server.live \ {user})
     \/ user # NoLogin /\ Faults \cap {"offline", "server"} # {} /\ UNCHANGED epochs
  /\ UNCHANGED <<development, clock, hostVars, readerVars, signIn>>

\* A folder that will not go is left behind without a word.
LogoutForget ==
  /\ signOut = "revoked"
  /\ signOut' = "forgotten"
  /\ \/ file' = NoEntry
     \/ "disk" \in Faults /\ UNCHANGED file
  /\ UNCHANGED <<development, clock, epochs, user, cacheKey, readerVars, signIn>>

LogoutDeleteUser ==
  /\ signOut = "forgotten"
  /\ \/ signOut' = "user deleted" /\ user' = NoLogin
     \/ "keychain" \in Faults /\ signOut' = "failed" /\ UNCHANGED user
  /\ UNCHANGED <<development, clock, epochs, cacheKey, file, readerVars, signIn>>

LogoutDeleteKey ==
  /\ signOut = "user deleted"
  /\ \/ signOut' = "out" /\ cacheKey' = NoKey
     \/ "keychain" \in Faults /\ signOut' = "failed" /\ UNCHANGED cacheKey
  /\ UNCHANGED <<development, clock, epochs, user, file, readerVars, signIn>>

\* The device code is granted, and the credential it carries is stored.
LoginGranted ==
  /\ signIn = "no"
  /\ signIn' = "granted"
  /\ Becomes(Server.version, Server.live \cup {NextLogin})
  /\ UNCHANGED <<development, clock, hostVars, readerVars, signOut>>

LoginRemember ==
  /\ signIn = "granted"
  /\ signIn' = "in"
  /\ user' = NextLogin
  /\ UNCHANGED <<development, clock, epochs, cacheKey, file, readerVars, signOut>>

-----------------------------------------------------------------------------
Read(r) ==
  \/ Begin(r) \/ OpenCache(r) \/ MakeKey(r) \/ ReadCache(r)
  \/ AskHead(r) \/ AskGet(r) \/ Offline(r) \/ WriteCache(r)

Logout == LogoutRevoke \/ LogoutForget \/ LogoutDeleteUser \/ LogoutDeleteKey

Login == LoginGranted \/ LoginRemember

Next ==
  \/ Tick
  \/ Publish
  \/ \E r \in Readers : Read(r)
  \/ Logout
  \/ Login

Spec == Init /\ [][Next]_vars

-----------------------------------------------------------------------------
(* What the cache promises                                                 *)

\* Every answer is one the server would have given inside the window
\* EnvPromise allows: development not older than DEV_TTL_SECS unless the server
\* cannot be reached, every other environment asked for on every read
\* (cache.rs:25, Design.md section 5), whatever raced the file and the key.
Promise == INSTANCE EnvPromise

ImplementsPromise == Promise!Spec

\* A body fetched with one credential never answers a command that proved itself
\* with another, though both share one file: the token's readers and the
\* login's, the old login's and the new one's.
AnsweredToOwner ==
  \A r \in Readers : answers[r] \in Answer => answers[r].to = who[r]

=============================================================================
