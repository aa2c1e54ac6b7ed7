--------------------------- MODULE EnvCacheProofs ---------------------------
(***************************************************************************)
(* AnsweredToOwner and ImplementsPromise for every number of readers,      *)
(* credentials, ages and server changes.  An entry belongs to the          *)
(* credential of the reader that holds it, a file to the identity it is    *)
(* bound to, and Opens is the only way from one to the other.  An entry    *)
(* came from an epoch the server was in no earlier than the entry says, so *)
(* what is young enough to be answered is as young as was promised.        *)
(***************************************************************************)
EXTENDS EnvCache, SequenceTheorems, TLAPS

-----------------------------------------------------------------------------
(* The server and the clock: all that knows of sequences.                  *)

WorldTyped == clock \in 0..MaxClock /\ epochs \in Seq(Epoch) \ { <<>> }

LEMMA ServerTyped ==
  ASSUME WorldTyped
  PROVE  /\ Server.version \in Nat
         /\ Server.live \subseteq Credentials
  <1>1. Len(epochs) \in 1..Len(epochs)
    BY EmptySeq, LenProperties DEF WorldTyped
  <1>2. Server \in Epoch
    BY <1>1, ElementOfSeq DEF WorldTyped, Server
  <1> QED
    BY <1>2 DEF Epoch

LEMMA BecomesTyped ==
  ASSUME WorldTyped, NEW version \in Nat, NEW live \in SUBSET Credentials, Becomes(version, live)
  PROVE  epochs' \in Seq(Epoch) \ { <<>> }
  <1>1. [from |-> clock, version |-> version, live |-> live] \in Epoch
    BY DEF WorldTyped, Epoch
  <1> QED
    BY <1>1 DEF WorldTyped, Becomes

LEMMA WorldInit == Init => WorldTyped
  <1> SUFFICES ASSUME Init PROVE WorldTyped
    OBVIOUS
  <1>1. [from |-> 0, version |-> 0, live |-> {Token, FirstLogin}] \in Epoch
    BY CacheAssumption DEF Epoch, Credentials
  <1> QED
    BY <1>1, CacheAssumption DEF Init, WorldTyped

LEMMA WorldNext ==
  ASSUME WorldTyped, user \in Credentials \cup {NoLogin}, [Next]_vars
  PROVE  WorldTyped'
  <1>1. CASE UNCHANGED <<clock, epochs>>
    BY <1>1 DEF WorldTyped
  <1>2. CASE Tick
    BY <1>2, CacheAssumption DEF Tick, WorldTyped
  <1>3. CASE Publish
    BY <1>3, ServerTyped, BecomesTyped DEF Publish, WorldTyped
  <1>4. CASE LogoutRevoke
    <2>1. CASE Becomes(Server.version, Server.live \ {user})
      BY <1>4, <2>1, ServerTyped, BecomesTyped DEF LogoutRevoke, WorldTyped
    <2> QED
      BY <1>4, <2>1, <1>1 DEF LogoutRevoke
  <1>5. CASE LoginGranted
    BY <1>5, ServerTyped, BecomesTyped DEF LoginGranted, WorldTyped, Credentials
  <1> QED
    BY <1>1, <1>2, <1>3, <1>4, <1>5
    DEF Next, Read, Logout, Login, vars, Begin, OpenCache, MakeKey, ReadCache, AskHead, AskGet, Offline, WriteCache,
        LogoutForget, LogoutDeleteUser, LogoutDeleteKey, LoginRemember

-----------------------------------------------------------------------------
(* The host and its readers.                                               *)

HostTyped ==
  /\ user \in {FirstLogin, NextLogin, NoLogin}
  /\ cacheKey \in Readers \cup {NoKey}
  /\ file \in Sealed \cup {NoEntry}
  /\ pc \in [Readers -> States]
  /\ began \in [Readers -> 0..MaxClock \cup {NotBegun}]
  /\ who \in [Readers -> Credentials \cup {NoLogin}]
  /\ key \in [Readers -> Readers \cup {NoKey}]
  /\ entry \in [Readers -> Entry \cup {NoEntry}]
  /\ answers \in [Readers -> Answer \cup {Unanswered, Refused}]

\* What a reader holds by where it is.
Progress ==
  \A r \in Readers :
    /\ pc[r] = "start" => answers[r] = Unanswered
    /\ pc[r] \in {"head", "write"} => entry[r] # NoEntry
    /\ pc[r] \notin {"start", "ended"} => who[r] \in Credentials /\ began[r] \in 0..MaxClock
    /\ pc[r] \in {"start", "open", "keying", "read"} => entry[r] = NoEntry
    /\ pc[r] \in {"read", "head", "write"} => key[r] # NoKey

\* The records the readers build.
LEMMA Records ==
  /\ \A e \in Entry, offline \in BOOLEAN :
       [version |-> e.version, to |-> e.to, offline |-> offline] \in Answer
  /\ \A e \in Entry, at \in Nat : [e EXCEPT !.fetchedAt = at] \in Entry
  /\ \A version \in Nat, to \in Credentials, at \in Nat :
       [version |-> version, to |-> to, fetchedAt |-> at] \in Entry
  /\ \A k \in Readers, aad \in Credentials, e \in Entry :
       [key |-> k, aad |-> aad, entry |-> e] \in Sealed
  /\ \A f \in Sealed : f.entry \in Entry
  BY DEF Entry, Answer, Sealed

\* A reader that ends keeps every type, whatever it writes on its way.
LEMMA EndTyped ==
  ASSUME HostTyped, Progress, NEW r \in Readers, NEW from \in States \ {"start"},
         End(r, from), NEW answer \in Answer \cup {Refused},
         answers' = [answers EXCEPT ![r] = answer],
         file' \in Sealed \cup {NoEntry},
         UNCHANGED <<user, cacheKey, began, who>>
  PROVE  HostTyped' /\ Progress'
  BY DEF HostTyped, Progress, End, Goto, States

\* A reader that goes on with an entry.
LEMMA MoveTyped ==
  ASSUME HostTyped, Progress, NEW r \in Readers, NEW from \in States \ {"start", "ended"},
         NEW to \in {"head", "write"}, Goto(r, from, to),
         NEW e \in Entry, entry' = [entry EXCEPT ![r] = e], key[r] # NoKey,
         UNCHANGED <<user, cacheKey, file, key, began, who, answers>>
  PROVE  HostTyped' /\ Progress'
  BY EmptyAssumption DEF HostTyped, Progress, Goto, States

TypeInv == WorldTyped /\ HostTyped /\ Progress

LEMMA TypeInit == Init => TypeInv
  BY WorldInit, CacheAssumption, EmptyAssumption DEF Init, TypeInv, HostTyped, Progress, Credentials, States

LEMMA TypeNext == TypeInv /\ [Next]_vars => TypeInv'
  <1> SUFFICES ASSUME TypeInv, [Next]_vars PROVE HostTyped' /\ Progress'
    BY WorldNext DEF TypeInv, HostTyped, Credentials
  <1>s. Server.version \in Nat /\ Server.live \subseteq Credentials /\ clock \in 0..MaxClock /\ 0..MaxClock \subseteq Nat
    BY ServerTyped, CacheAssumption DEF TypeInv, WorldTyped
  <1>h. HostTyped /\ Progress
    BY DEF TypeInv
  <1> USE <1>s, <1>h, CacheAssumption, EmptyAssumption
      DEF HostTyped, Progress, States, readerVars, hostVars
  <1>1. ASSUME NEW r \in Readers, Begin(r) PROVE HostTyped' /\ Progress'
    BY <1>1 DEF Begin, Goto, Refuse, End, Credentials
  <1>2. ASSUME NEW r \in Readers, OpenCache(r) PROVE HostTyped' /\ Progress'
    BY <1>2 DEF OpenCache, Goto
  <1>3. ASSUME NEW r \in Readers, MakeKey(r) PROVE HostTyped' /\ Progress'
    BY <1>3 DEF MakeKey, Goto
  <1>4. ASSUME NEW r \in Readers, ReadCache(r) PROVE HostTyped' /\ Progress'
    <2>1. CASE Opens(r) /\ Fresh(file.entry, began[r])
      BY <1>4, <2>1, Records, EndTyped DEF ReadCache, AnswerWith, Opens
    <2>2. CASE Opens(r) /\ ~Fresh(file.entry, began[r])
      <3>1. file.entry \in Entry /\ key[r] # NoKey
        BY <1>4, <2>2, Records DEF ReadCache, Opens, Goto
      <3>2. Goto(r, "read", "head") /\ entry' = [entry EXCEPT ![r] = file.entry] /\ UNCHANGED <<key, answers>>
        BY <1>4, <2>2 DEF ReadCache
      <3> QED
        BY <1>4, <3>1, <3>2, MoveTyped DEF ReadCache
    <2>3. CASE ~Opens(r)
      BY <1>4, <2>3 DEF ReadCache, Goto
    <2> QED
      BY <2>1, <2>2, <2>3
  <1>5. ASSUME NEW r \in Readers, AskHead(r) PROVE HostTyped' /\ Progress'
    <2>1. CASE Refuse(r, "head")
      BY <1>5, <2>1, EndTyped DEF AskHead, Refuse
    <2>2. CASE Goto(r, "head", "write") /\ entry' = [entry EXCEPT ![r].fetchedAt = began[r]]
      <3>1. began[r] \in Nat /\ entry[r] \in Entry /\ key[r] # NoKey
        BY <2>2 DEF Goto
      <3>2. [entry[r] EXCEPT !.fetchedAt = began[r]] \in Entry
        BY <3>1, Records
      <3>3. /\ entry' = [entry EXCEPT ![r] = [entry[r] EXCEPT !.fetchedAt = began[r]]]
            /\ UNCHANGED <<user, cacheKey, file, key, began, who, answers>>
        BY <1>5, <2>2 DEF AskHead, Goto, Refuse, End
      <3> QED
        BY <1>5, <2>2, <3>1, <3>2, <3>3, MoveTyped DEF AskHead
    <2>3. CASE Goto(r, "head", "get") /\ UNCHANGED <<key, entry, answers>>
      BY <1>5, <2>3 DEF AskHead, Goto
    <2> QED
      BY <1>5, <2>1, <2>2, <2>3 DEF AskHead
  <1>6. ASSUME NEW r \in Readers, AskGet(r) PROVE HostTyped' /\ Progress'
    <2> DEFINE body == [version |-> Server.version, to |-> who[r], fetchedAt |-> began[r]]
    <2>1. body \in Entry
      BY <1>6, Records DEF AskGet, Goto, Refuse, AnswerWith, End
    <2>2. CASE Refuse(r, "get")
      BY <1>6, <2>2, EndTyped DEF AskGet, Refuse
    <2>3. CASE AnswerWith(r, "get", body, FALSE)
      <3>1. [version |-> body.version, to |-> body.to, offline |-> FALSE] \in Answer
        BY <2>1, Records
      <3> HIDE DEF body
      <3> QED
        BY <1>6, <2>3, <3>1, EndTyped DEF AskGet, Caches, AnswerWith
    <2>4. CASE key[r] # NoKey /\ Goto(r, "get", "write") /\ entry' = [entry EXCEPT ![r] = body] /\ UNCHANGED <<key, answers>>
      <3> HIDE DEF body
      <3> QED
        BY <1>6, <2>1, <2>4, MoveTyped DEF AskGet, Caches
    <2> QED
      BY <1>6, <2>2, <2>3, <2>4 DEF AskGet, Caches
  <1>7. ASSUME NEW r \in Readers, Offline(r) PROVE HostTyped' /\ Progress'
    <2>1. CASE OfflineAnswers(r)
      <3>1. [version |-> entry[r].version, to |-> entry[r].to, offline |-> TRUE] \in Answer
        BY <2>1, Records DEF OfflineAnswers
      <3> QED
        BY <1>7, <2>1, <3>1, EndTyped DEF Offline, AnswerWith
    <2>2. CASE ~OfflineAnswers(r)
      BY <1>7, <2>2, EndTyped DEF Offline, Refuse
    <2> QED
      BY <2>1, <2>2
  <1>8. ASSUME NEW r \in Readers, WriteCache(r) PROVE HostTyped' /\ Progress'
    <2>1. pc[r] = "write" /\ entry[r] \in Entry /\ key[r] \in Readers /\ who[r] \in Credentials
      BY <1>8 DEF WriteCache, Goto, AnswerWith, Refuse, End
    <2>2. [version |-> entry[r].version, to |-> entry[r].to, offline |-> FALSE] \in Answer
      BY <2>1, Records
    <2>3. [key |-> key[r], aad |-> who[r], entry |-> entry[r]] \in Sealed
      BY <2>1, Records
    <2>4. CASE AnswerWith(r, "write", entry[r], FALSE)
      BY <1>8, <2>2, <2>3, <2>4, EndTyped DEF WriteCache, AnswerWith, Stamped
    <2>5. CASE Refuse(r, "write")
      BY <1>8, <2>3, <2>5, EndTyped DEF WriteCache, Refuse, Stamped
    <2> QED
      BY <1>8, <2>4, <2>5 DEF WriteCache
  <1>9. CASE Tick \/ Publish \/ Logout \/ Login
    BY <1>9 DEF Tick, Publish, LogoutRevoke, LogoutForget, LogoutDeleteUser, LogoutDeleteKey, LoginGranted, LoginRemember, Logout, Login
  <1>10. CASE UNCHANGED vars
    BY <1>10 DEF vars
  <1> QED
    BY <1>1, <1>2, <1>3, <1>4, <1>5, <1>6, <1>7, <1>8, <1>9, <1>10 DEF Next, Read

\* What no reader touches.
FlowTyped ==
  /\ development \in BOOLEAN
  /\ signOut \in {"no", "revoked", "forgotten", "user deleted", "out", "failed"}
  /\ signIn \in {"no", "granted", "in"}

LEMMA FlowInit == Init => FlowTyped
  BY DEF Init, FlowTyped

LEMMA FlowNext == FlowTyped /\ [Next]_vars => FlowTyped'
  <1> USE DEF FlowTyped, readerVars, hostVars
  <1>1. ASSUME FlowTyped, NEW r \in Readers, Read(r) PROVE FlowTyped'
    BY <1>1 DEF Read, Begin, OpenCache, MakeKey, ReadCache, AskHead, AskGet, Offline, WriteCache
  <1>2. ASSUME FlowTyped, Tick \/ Publish \/ Logout \/ Login PROVE FlowTyped'
    BY <1>2 DEF Tick, Publish, LogoutRevoke, LogoutForget, LogoutDeleteUser, LogoutDeleteKey, LoginGranted, LoginRemember, Logout, Login
  <1> QED
    BY <1>1, <1>2 DEF Next, vars

\* Every variable keeps its type: what a reader finds in the file or is answered is
\* always a whole entry, and no time it counts with is one it has not read.
THEOREM Typing == Spec => []TypeOK
  <1>1. TypeInv /\ FlowTyped => TypeOK
    BY DEF TypeInv, FlowTyped, WorldTyped, HostTyped, TypeOK
  <1> QED
    BY <1>1, TypeInit, TypeNext, FlowInit, FlowNext, PTL DEF Spec

-----------------------------------------------------------------------------
(* Who an entry belongs to.                                                *)

OwnedEntries == \A r \in Readers : entry[r] # NoEntry => entry[r].to = who[r]

OwnedFile == file # NoEntry => file.entry.to = file.aad

OwnerInv == TypeInv /\ OwnedEntries /\ OwnedFile /\ AnsweredToOwner

LEMMA OwnerInit == Init => OwnerInv
  BY TypeInit, EmptyAssumption DEF Init, OwnerInv, OwnedEntries, OwnedFile, AnsweredToOwner

LEMMA OwnerNext == OwnerInv /\ [Next]_vars => OwnerInv'
  <1> SUFFICES ASSUME OwnerInv, [Next]_vars PROVE OwnedEntries' /\ OwnedFile' /\ AnsweredToOwner'
    BY TypeNext DEF OwnerInv
  <1>h. HostTyped /\ Progress /\ OwnedEntries /\ OwnedFile /\ AnsweredToOwner
    BY DEF OwnerInv, TypeInv
  <1> USE <1>h, EmptyAssumption
      DEF OwnedEntries, OwnedFile, AnsweredToOwner, HostTyped, Progress,
          States, Entry, Sealed, readerVars, hostVars
  <1>1. ASSUME NEW r \in Readers, Begin(r) PROVE OwnedEntries' /\ OwnedFile' /\ AnsweredToOwner'
    BY <1>1 DEF Begin, Goto, Refuse, End
  <1>2. ASSUME NEW r \in Readers, OpenCache(r) PROVE OwnedEntries' /\ OwnedFile' /\ AnsweredToOwner'
    BY <1>2 DEF OpenCache, Goto
  <1>3. ASSUME NEW r \in Readers, MakeKey(r) PROVE OwnedEntries' /\ OwnedFile' /\ AnsweredToOwner'
    BY <1>3 DEF MakeKey, Goto
  <1>4. ASSUME NEW r \in Readers, ReadCache(r) PROVE OwnedEntries' /\ OwnedFile' /\ AnsweredToOwner'
    BY <1>4 DEF ReadCache, Goto, AnswerWith, End, Opens
  <1>5. ASSUME NEW r \in Readers, AskHead(r) PROVE OwnedEntries' /\ OwnedFile' /\ AnsweredToOwner'
    BY <1>5 DEF AskHead, Goto, Refuse, End
  <1>6. ASSUME NEW r \in Readers, AskGet(r) PROVE OwnedEntries' /\ OwnedFile' /\ AnsweredToOwner'
    BY <1>6 DEF AskGet, Goto, AnswerWith, Refuse, End
  <1>7. ASSUME NEW r \in Readers, Offline(r) PROVE OwnedEntries' /\ OwnedFile' /\ AnsweredToOwner'
    BY <1>7 DEF Offline, OfflineAnswers, Goto, AnswerWith, Refuse, End
  <1>8. ASSUME NEW r \in Readers, WriteCache(r) PROVE OwnedEntries' /\ OwnedFile' /\ AnsweredToOwner'
    BY <1>8 DEF WriteCache, Goto, AnswerWith, Refuse, End, Stamped
  <1>9. CASE Tick \/ Publish \/ Logout \/ Login
    BY <1>9 DEF Tick, Publish, LogoutRevoke, LogoutForget, LogoutDeleteUser, LogoutDeleteKey, LoginGranted, LoginRemember, Logout, Login
  <1>10. CASE UNCHANGED vars
    BY <1>10 DEF vars
  <1> QED
    BY <1>1, <1>2, <1>3, <1>4, <1>5, <1>6, <1>7, <1>8, <1>9, <1>10 DEF Next, Read

\* No reader, whoever filled the file before it and whatever was signed in or out
\* since, is answered with a body fetched for another credential.
THEOREM Owner == Spec => []AnsweredToOwner
  <1>1. OwnerInv => AnsweredToOwner
    BY DEF OwnerInv
  <1> QED
    BY <1>1, OwnerInit, OwnerNext, PTL DEF Spec

-----------------------------------------------------------------------------
(* The cache keeps the promise.                                            *)

\* The entries the server gave: the body of an epoch, to a credential it took then,
\* stamped no later than that epoch ended.
Genuine ==
  {e \in Entry : \E i \in 1..Len(epochs) :
     /\ e.version = epochs[i].version
     /\ e.to \in epochs[i].live
     /\ Promise!Until(i) >= e.fetchedAt}

\* A version is new only with its epoch, so no version outruns their number.
Bounded ==
  /\ Len(epochs) \in 1..MaxEpochs
  /\ \A i \in 1..Len(epochs) : epochs[i].version < i

\* Nobody began after the present, and whoever has not ended was not answered.
Begun ==
  \A r \in Readers :
    /\ began[r] # NotBegun => began[r] <= clock
    /\ (pc[r] = "start") <=> (began[r] = NotBegun)
    /\ pc[r] # "ended" => answers[r] = Unanswered
    /\ pc[r] = "write" => entry[r].fetchedAt = began[r]

FromTheServer ==
  /\ \A r \in Readers : entry[r] # NoEntry => entry[r] \in Genuine
  /\ file # NoEntry => file.entry \in Genuine

\* An epoch that ends keeps the instant it had reached, and one that runs on gains.
LEMMA EpochsGo ==
  ASSUME WorldTyped, Bounded, NEW version \in Nat, version <= Server.version + 1,
         NEW live \in SUBSET Credentials, Becomes(version, live), clock' = clock
  PROVE  /\ Bounded' /\ Genuine \subseteq Genuine'
         /\ version \in 0..MaxEpochs
  <1> DEFINE epoch == [from |-> clock, version |-> version, live |-> live]
  <1>1. epoch \in Epoch /\ epochs \in Seq(Epoch) /\ Len(epochs) \in Nat \ {0}
    BY EmptySeq, LenProperties DEF WorldTyped, Epoch
  <1>2. epochs' = Append(epochs, epoch)
    BY DEF Becomes
  <1>3. /\ Len(epochs') = Len(epochs) + 1
        /\ \A i \in 1..Len(epochs) : epochs'[i] = epochs[i]
        /\ epochs'[Len(epochs) + 1] = epoch
    BY <1>1, <1>2, AppendProperties
  <1>4. Server.version \in Nat /\ Server.version < Len(epochs)
    BY <1>1, ServerTyped DEF Bounded, Server
  <1>5. Bounded' /\ version \in 0..MaxEpochs
    BY <1>1, <1>3, <1>4, CacheAssumption DEF Bounded, Becomes
  <1>6. \A i \in 1..Len(epochs) : Promise!Until(i)' = Promise!Until(i)
    <2>1. ASSUME NEW i \in 1..Len(epochs) PROVE Promise!Until(i)' = Promise!Until(i)
      <3>1. CASE i = Len(epochs)
        BY <3>1, <1>1, <1>3 DEF Promise!Until
      <3>2. CASE i # Len(epochs)
        <4>1. i + 1 \in 1..Len(epochs) /\ i # Len(epochs')
          BY <3>2, <1>1, <1>3
        <4> QED
          BY <3>2, <4>1, <1>3 DEF Promise!Until
      <3> QED
        BY <3>1, <3>2
    <2> QED
      BY <2>1
  <1>7. Genuine \subseteq Genuine'
    <2>1. \A i \in 1..Len(epochs) : i \in 1..Len(epochs')
      BY <1>1, <1>3
    <2> QED
      BY <2>1, <1>3, <1>6 DEF Genuine
  <1> QED
    BY <1>5, <1>7

\* The server answers out of the epoch that runs.
LEMMA GivenNow ==
  ASSUME WorldTyped, Bounded, NEW e \in Entry,
         e.version = Server.version, e.to \in Server.live, clock >= e.fetchedAt
  PROVE  e \in Genuine
  <1>1. Len(epochs) \in 1..Len(epochs)
    BY DEF Bounded
  <1>2. Promise!Until(Len(epochs)) = clock
    BY DEF Promise!Until
  <1> QED
    BY <1>1, <1>2 DEF Genuine, Server

PromiseInv == OwnerInv /\ FlowTyped /\ Bounded /\ Begun /\ FromTheServer

LEMMA PromiseInit == Init => PromiseInv
  <1> SUFFICES ASSUME Init PROVE Bounded /\ Begun /\ FromTheServer
    BY OwnerInit, FlowInit DEF PromiseInv
  <1>1. Len(epochs) = 1 /\ epochs[1].version = 0
    BY DEF Init
  <1> QED
    BY <1>1, CacheAssumption, EmptyAssumption DEF Init, Bounded, Begun, FromTheServer, States

\* The server and the clock move; the readers stay.
LEMMA PromiseWorld ==
  ASSUME PromiseInv, Tick \/ Publish \/ Logout \/ Login
  PROVE  Bounded' /\ Begun' /\ FromTheServer' /\ [Promise!Next]_(Promise!vars)
  <1>w. WorldTyped /\ HostTyped /\ Bounded /\ Begun /\ FromTheServer
    BY DEF PromiseInv, OwnerInv, TypeInv
  <1>s. Server.version \in Nat /\ Server.live \subseteq Credentials /\ clock \in Nat
    BY <1>w, ServerTyped, CacheAssumption DEF WorldTyped
  <1>1. ASSUME Bounded', Genuine \subseteq Genuine', clock' >= clock, clock' \in Nat,
               file' \in {file, NoEntry}, UNCHANGED readerVars
        PROVE  Bounded' /\ Begun' /\ FromTheServer'
    BY <1>w, <1>s, <1>1, CacheAssumption, EmptyAssumption DEF HostTyped, Begun, FromTheServer, readerVars
  <1>2. CASE UNCHANGED <<development, clock, epochs, readerVars>> /\ file' \in {file, NoEntry}
    <2>1. Bounded' /\ Genuine' = Genuine
      BY <1>2, <1>w DEF Bounded, Genuine, Promise!Until
    <2> QED
      BY <1>1, <1>2, <1>s, <2>1 DEF Promise!vars, readerVars
  <1>3. ASSUME NEW version \in Nat, version <= Server.version + 1, NEW live \in SUBSET Credentials,
               Becomes(version, live), UNCHANGED <<development, clock, hostVars, readerVars>>
        PROVE  Bounded' /\ Begun' /\ FromTheServer' /\ Promise!Next
    <2>1. Bounded' /\ Genuine \subseteq Genuine' /\ version \in 0..MaxEpochs
      BY <1>w, <1>3, EpochsGo
    <2>2. Promise!Change
      BY <1>3, <2>1 DEF Promise!Change, Becomes, readerVars
    <2> QED
      BY <1>1, <1>3, <1>s, <2>1, <2>2 DEF Promise!Next, hostVars
  <1>4. CASE Tick
    <2>1. Bounded'
      BY <1>4, <1>w DEF Tick, Bounded
    <2>2. \A i \in 1..Len(epochs) : Promise!Until(i)' = (IF i = Len(epochs) THEN clock + 1 ELSE Promise!Until(i))
      BY <1>4 DEF Tick, Promise!Until
    <2>3. Genuine \subseteq Genuine'
      <3>1. ASSUME NEW e \in Entry, NEW i \in 1..Len(epochs), Promise!Until(i) >= e.fetchedAt
            PROVE  Promise!Until(i)' >= e.fetchedAt
        <4>1. e.fetchedAt \in Nat
          BY DEF Entry
        <4>2. CASE i = Len(epochs)
          BY <3>1, <4>1, <4>2, <2>2, <1>s DEF Promise!Until
        <4>3. CASE i # Len(epochs)
          BY <3>1, <4>3, <2>2
        <4> QED
          BY <4>2, <4>3
      <3>2. epochs' = epochs
        BY <1>4 DEF Tick
      <3> QED
        BY <3>1, <3>2 DEF Genuine
    <2>4. Promise!Tick
      BY <1>4 DEF Tick, Promise!Tick, readerVars
    <2> QED
      BY <1>1, <1>4, <1>s, <2>1, <2>3, <2>4 DEF Promise!Next, Tick, hostVars
  <1>5. CASE Publish
    BY <1>3, <1>5, <1>s DEF Publish
  <1>6. CASE LogoutRevoke
    <2>1. CASE Becomes(Server.version, Server.live \ {user})
      BY <1>3, <1>6, <2>1, <1>s DEF LogoutRevoke
    <2>2. CASE UNCHANGED epochs
      BY <1>2, <1>6, <2>2 DEF LogoutRevoke, hostVars
    <2> QED
      BY <1>6, <2>1, <2>2 DEF LogoutRevoke
  <1>7. CASE LoginGranted
    <2>1. Server.live \cup {NextLogin} \in SUBSET Credentials
      BY <1>s DEF Credentials
    <2> QED
      BY <1>3, <1>7, <2>1, <1>s DEF LoginGranted
  <1>8. CASE LogoutForget \/ LogoutDeleteUser \/ LogoutDeleteKey \/ LoginRemember
    BY <1>2, <1>8 DEF LogoutForget, LogoutDeleteUser, LogoutDeleteKey, LoginRemember
  <1> QED
    BY <1>4, <1>5, <1>6, <1>7, <1>8 DEF Logout, Login

\* A genuine entry is an answer the promise allows, as far as its age does.
LEMMA AnswerAllowed ==
  ASSUME PromiseInv, NEW r \in Readers, NEW e \in Genuine, NEW offline \in BOOLEAN,
         began[r] \in 0..MaxClock, answers[r] = Unanswered,
         offline => development,
         ~offline => IF development THEN e.fetchedAt + Ttl > began[r] ELSE e.fetchedAt >= began[r],
         answers' = [answers EXCEPT ![r] = [version |-> e.version, to |-> e.to, offline |-> offline]],
         UNCHANGED <<development, clock, epochs, began>>
  PROVE  Promise!Next
  <1> DEFINE answer == [version |-> e.version, to |-> e.to, offline |-> offline]
  <1>c. Ttl \in Nat /\ MaxEpochs \in Nat /\ 0..MaxClock \subseteq Nat
    BY CacheAssumption
  <1>w. WorldTyped /\ Bounded /\ development \in BOOLEAN
    BY DEF PromiseInv, OwnerInv, TypeInv, FlowTyped
  <1>1. PICK i \in 1..Len(epochs) :
          e.version = epochs[i].version /\ e.to \in epochs[i].live /\ Promise!Until(i) >= e.fetchedAt
    BY DEF Genuine
  <1>2. e.version \in Nat /\ e.to \in Credentials /\ e.fetchedAt \in Nat
    BY DEF Genuine, Entry
  <1>3. Len(epochs) \in Nat /\ epochs[i] \in Epoch /\ (i # Len(epochs) => epochs[i + 1] \in Epoch)
    BY <1>w, LenProperties, ElementOfSeq DEF WorldTyped
  <1>4. Promise!Until(i) \in Nat
    BY <1>w, <1>3, CacheAssumption DEF Promise!Until, WorldTyped, Epoch
  <1>5. e.version \in 0..MaxEpochs
    BY <1>1, <1>2, <1>3, <1>w, <1>c DEF Bounded
  <1>6. IF development THEN offline \/ Promise!Until(i) + Ttl > began[r]
                       ELSE ~offline /\ Promise!Until(i) >= began[r]
    BY <1>1, <1>2, <1>4, <1>w, <1>c
  <1>7. Promise!Allowed(r, answer)
    BY <1>1, <1>6 DEF Promise!Allowed
  <1>8. NotBegun # began[r]
    BY <1>c, EmptyAssumption
  <1>9. Promise!Answered(r)
    <2>1. Promise!Allowed(r, answer) /\ answers' = [answers EXCEPT ![r] = answer]
      BY <1>7
    <2>2. \E version \in 0..MaxEpochs, to \in Credentials, off \in BOOLEAN :
            /\ Promise!Allowed(r, [version |-> version, to |-> to, offline |-> off])
            /\ answers' = [answers EXCEPT ![r] = [version |-> version, to |-> to, offline |-> off]]
      BY <1>2, <1>5, <2>1, Zenon
    <2> QED
      BY <2>2, <1>8 DEF Promise!Answered
  <1> QED
    BY <1>9 DEF Promise!Next

LEMMA PromiseReader ==
  ASSUME PromiseInv, NEW r \in Readers, Read(r), OwnerInv'
  PROVE  Bounded' /\ Begun' /\ FromTheServer' /\ [Promise!Next]_(Promise!vars)
  <1>w. /\ WorldTyped /\ HostTyped /\ Progress /\ OwnedEntries /\ Bounded /\ Begun /\ FromTheServer
        /\ clock \in Nat /\ 0..MaxClock \subseteq Nat /\ Ttl \in Nat \ {0}
    BY CacheAssumption DEF PromiseInv, OwnerInv, TypeInv, WorldTyped
  <1>u. /\ UNCHANGED <<development, clock, epochs>>
        /\ Bounded' /\ Genuine' = Genuine
    <2>1. UNCHANGED <<development, clock, epochs>>
      BY DEF Read, Begin, OpenCache, MakeKey, ReadCache, AskHead, AskGet, Offline, WriteCache
    <2> QED
      BY <2>1, <1>w DEF Bounded, Genuine, Promise!Until
  <1>s. Server.version \in Nat /\ Server.live \subseteq Credentials
    BY <1>w, ServerTyped
  <1> DEFINE Kept == Begun' /\ FromTheServer'
             Step == [Promise!Next]_(Promise!vars)
  \* A reader that moves on.
  <1>1. ASSUME NEW from \in States \ {"start", "ended"}, NEW to \in States \ {"start", "ended", "write"},
               Goto(r, from, to), entry' = entry \/ (\E e \in Genuine : entry' = [entry EXCEPT ![r] = e]),
               UNCHANGED <<began, answers, file>>
        PROVE  Kept /\ Step
    BY <1>1, <1>w, <1>u, EmptyAssumption DEF Begun, FromTheServer, HostTyped, Goto, States, Promise!vars
  \* One that holds what it will write.
  <1>2. ASSUME NEW from \in States \ {"start", "ended"}, Goto(r, from, "write"),
               NEW e \in Genuine, entry' = [entry EXCEPT ![r] = e], e.fetchedAt = began[r],
               UNCHANGED <<began, answers, file>>
        PROVE  Kept /\ Step
    BY <1>2, <1>w, <1>u, EmptyAssumption DEF Begun, FromTheServer, HostTyped, Goto, States, Promise!vars
  \* One that ends.
  <1>3. ASSUME NEW from \in States \ {"start", "ended"}, End(r, from), NEW a,
               answers' = [answers EXCEPT ![r] = a], began' = began,
               file' = file \/ file'.entry \in Genuine
        PROVE  Kept
    BY <1>3, <1>w, <1>u, EmptyAssumption DEF Begun, FromTheServer, HostTyped, End, Goto, States
  <1>4. ASSUME NEW from \in States \ {"start", "ended"}, Refuse(r, from), began' = began, file' = file
        PROVE  Kept /\ Step
    <2>1. answers[r] = Unanswered
      BY <1>4, <1>w DEF Begun, Refuse, End, Goto, States
    <2>2. Promise!Refuse(r)
      BY <1>4, <1>u, <2>1 DEF Refuse, Promise!Refuse
    <2> QED
      BY <1>3, <1>4, <2>2 DEF Refuse, Promise!Next
  <1>5. ASSUME NEW from \in States \ {"start", "ended"}, NEW e \in Genuine, NEW offline \in BOOLEAN,
               AnswerWith(r, from, e, offline), began' = began, file' = file \/ file'.entry \in Genuine,
               offline => development,
               ~offline => IF development THEN e.fetchedAt + Ttl > began[r] ELSE e.fetchedAt >= began[r]
        PROVE  Kept /\ Step
    <2>1. answers[r] = Unanswered /\ began[r] \in 0..MaxClock
      BY <1>5, <1>w DEF Begun, Progress, AnswerWith, End, Goto, States
    <2>2. Promise!Next
      BY <1>5, <1>u, <2>1, AnswerAllowed DEF AnswerWith
    <2> QED
      BY <1>3, <1>5, <2>2 DEF AnswerWith
  <1>6. CASE Begin(r)
    <2>1. pc[r] = "start" /\ began[r] = NotBegun /\ answers[r] = Unanswered
      BY <1>6, <1>w DEF Begin, Refuse, End, Goto, Begun, States
    <2>2. answers' \in {answers, [answers EXCEPT ![r] = Refused]}
      BY <1>6 DEF Begin, Refuse
    <2>3. Promise!Begin(r)
      BY <1>6, <2>1, <2>2 DEF Begin, Promise!Begin
    <2>4. Kept
      BY <1>6, <2>1, <1>w, <1>u, EmptyAssumption
      DEF Begin, Refuse, End, Goto, Begun, FromTheServer, HostTyped, States, hostVars
    <2> QED
      BY <2>3, <2>4, <1>u DEF Promise!Next
  <1>7. CASE OpenCache(r)
    BY <1>1, <1>7, <1>u DEF OpenCache, States, hostVars
  <1>8. CASE MakeKey(r)
    BY <1>1, <1>8, <1>u DEF MakeKey, States
  <1>9. CASE ReadCache(r)
    <2>1. CASE Opens(r)
      <3>1. file.entry \in Genuine /\ file.entry \in Entry
        BY <2>1, <1>w DEF Opens, FromTheServer, Genuine
      <3>2. CASE Fresh(file.entry, began[r])
        <4>1. AnswerWith(r, "read", file.entry, FALSE) /\ began' = began /\ file' = file
          BY <1>9, <2>1, <3>2 DEF ReadCache, hostVars
        <4>2. began[r] \in Nat /\ file.entry.fetchedAt \in Nat
          BY <4>1, <3>1, <1>w DEF Progress, AnswerWith, End, Goto, Entry
        <4>3. development /\ file.entry.fetchedAt + Ttl > began[r]
          BY <3>2, <4>2, <1>w DEF Fresh
        <4> QED
          BY <1>5, <1>u, <3>1, <4>1, <4>3 DEF States
      <3>3. CASE ~Fresh(file.entry, began[r])
        BY <1>1, <1>9, <1>u, <2>1, <3>1, <3>3 DEF ReadCache, States, hostVars
      <3> QED
        BY <3>2, <3>3
    <2>2. CASE ~Opens(r)
      BY <1>1, <1>9, <1>u, <2>2 DEF ReadCache, States, hostVars
    <2> QED
      BY <2>1, <2>2
  <1>10. CASE AskHead(r)
    <2>h. pc[r] = "head" /\ UNCHANGED <<began, file>>
      BY <1>10 DEF AskHead, hostVars
    <2>1. CASE Refuse(r, "head")
      BY <1>4, <1>u, <2>h, <2>1 DEF States
    <2>2. CASE /\ who[r] \in Server.live /\ entry[r].version = Server.version
               /\ Goto(r, "head", "write") /\ entry' = [entry EXCEPT ![r].fetchedAt = began[r]]
               /\ UNCHANGED <<key, answers>>
      <3> DEFINE e == [entry[r] EXCEPT !.fetchedAt = began[r]]
      <3>1. entry[r] \in Entry /\ began[r] \in Nat /\ began[r] <= clock /\ entry[r].to = who[r]
        BY <2>h, <1>w, EmptyAssumption DEF HostTyped, Progress, Begun, OwnedEntries
      <3>2. e \in Entry /\ e.version = entry[r].version /\ e.to = entry[r].to /\ e.fetchedAt = began[r]
        BY <3>1 DEF Entry
      <3>3. e \in Genuine
        BY <2>2, <3>1, <3>2, <1>w, GivenNow
      <3>4. entry' = [entry EXCEPT ![r] = e]
        BY <2>2
      <3> QED
        BY <1>2, <1>u, <2>2, <2>h, <3>2, <3>3, <3>4 DEF States
    <2>3. CASE Goto(r, "head", "get") /\ UNCHANGED <<key, entry, answers>>
      BY <1>1, <1>u, <2>h, <2>3 DEF States
    <2> QED
      BY <1>10, <2>1, <2>2, <2>3 DEF AskHead
  <1>11. CASE AskGet(r)
    <2> DEFINE e == [version |-> Server.version, to |-> who[r], fetchedAt |-> began[r]]
    <2>h. pc[r] = "get" /\ UNCHANGED <<began, file>>
      BY <1>11 DEF AskGet, AnswerWith, Refuse, End, Goto, hostVars
    <2>1. began[r] \in Nat /\ began[r] <= clock /\ who[r] \in Credentials
      BY <2>h, <1>w, EmptyAssumption DEF Progress, Begun
    <2>2. ASSUME who[r] \in Server.live PROVE e \in Genuine
      <3>1. e \in Entry
        BY <2>1, <1>s, Records
      <3> QED
        BY <2>1, <2>2, <3>1, <1>w, GivenNow
    <2>3. CASE Refuse(r, "get")
      BY <1>4, <1>u, <2>h, <2>3 DEF States
    <2>4. CASE who[r] \in Server.live /\ AnswerWith(r, "get", e, FALSE)
      <3>1. e.fetchedAt = began[r] /\ began[r] + Ttl > began[r] /\ began[r] >= began[r]
        BY <2>1, <1>w
      <3> HIDE DEF e
      <3> QED
        BY <1>5, <1>u, <2>2, <2>4, <2>h, <3>1 DEF States
    <2>5. CASE /\ who[r] \in Server.live /\ Goto(r, "get", "write")
               /\ entry' = [entry EXCEPT ![r] = e] /\ UNCHANGED <<key, answers>>
      <3>1. e.fetchedAt = began[r]
        OBVIOUS
      <3> HIDE DEF e
      <3> QED
        BY <1>2, <1>u, <2>2, <2>5, <2>h, <3>1 DEF States
    <2> QED
      BY <1>11, <2>3, <2>4, <2>5 DEF AskGet
  <1>12. CASE Offline(r)
    <2>h. pc[r] \in {"head", "get"} /\ UNCHANGED <<began, file>>
      BY <1>12 DEF Offline, hostVars
    <2>1. CASE OfflineAnswers(r)
      <3>1. development /\ entry[r] \in Genuine
        BY <2>1, <1>w DEF OfflineAnswers, FromTheServer
      <3>2. AnswerWith(r, pc[r], entry[r], TRUE)
        BY <1>12, <2>1 DEF Offline
      <3> QED
        BY <1>5, <1>u, <2>h, <3>1, <3>2 DEF States
    <2>2. CASE ~OfflineAnswers(r)
      <3>1. Refuse(r, pc[r])
        BY <1>12, <2>2 DEF Offline
      <3> QED
        BY <1>4, <1>u, <2>h, <3>1 DEF States
    <2> QED
      BY <2>1, <2>2
  <1>13. CASE WriteCache(r)
    <2>h. pc[r] = "write" /\ began' = began
      BY <1>13 DEF WriteCache, AnswerWith, Refuse, End, Goto
    <2>1. entry[r] \in Genuine /\ entry[r].fetchedAt = began[r] /\ began[r] \in Nat
      BY <2>h, <1>w DEF Progress, Begun, FromTheServer
    <2>2. CASE AnswerWith(r, "write", entry[r], FALSE) /\ file' = [key |-> key[r], aad |-> who[r], entry |-> Stamped(r)]
      <3>1. file'.entry \in Genuine
        BY <2>1, <2>2 DEF Stamped
      <3>2. began[r] + Ttl > began[r] /\ began[r] >= began[r]
        BY <2>1, <1>w
      <3> QED
        BY <1>5, <1>u, <2>1, <2>2, <2>h, <3>1, <3>2 DEF States
    <2>3. CASE Refuse(r, "write") /\ file' = file
      BY <1>4, <1>u, <2>3, <2>h DEF States
    <2> QED
      BY <1>13, <2>2, <2>3 DEF WriteCache
  <1> QED
    BY <1>u, <1>6, <1>7, <1>8, <1>9, <1>10, <1>11, <1>12, <1>13 DEF Read

LEMMA PromiseStep ==
  ASSUME PromiseInv, [Next]_vars
  PROVE  PromiseInv' /\ [Promise!Next]_(Promise!vars)
  <1>1. OwnerInv' /\ FlowTyped'
    BY OwnerNext, FlowNext DEF PromiseInv
  <1>2. CASE UNCHANGED vars
    <2>1. Bounded' /\ Genuine' = Genuine
      BY <1>2 DEF PromiseInv, vars, Bounded, Genuine, Promise!Until
    <2> QED
      BY <1>1, <1>2, <2>1 DEF PromiseInv, vars, hostVars, readerVars, Begun, FromTheServer, Promise!vars
  <1> QED
    BY <1>1, <1>2, PromiseWorld, PromiseReader DEF Next, PromiseInv

\* Whatever the number of readers, the age allowed, the faults and what the server, the
\* sign-out and the sign-in do between their steps, each answer is one the server would
\* have given inside the window: the cache implements EnvPromise.
THEOREM Implements == Spec => ImplementsPromise
  <1>1. Init => Promise!Init
    <2>1. SUFFICES ASSUME Init PROVE Promise!Init
      OBVIOUS
    <2>2. {Token, FirstLogin} \in SUBSET Credentials
      BY DEF Credentials
    <2> QED
      BY <2>1, <2>2 DEF Init, Promise!Init
  <1> QED
    BY <1>1, PromiseInit, PromiseStep, PTL DEF Spec, ImplementsPromise, Promise!Spec

=============================================================================
