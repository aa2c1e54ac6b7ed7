------------------------------ MODULE HostProofs ------------------------------
(***************************************************************************)
(* Proofs about what one host keeps: its bound keypair (Keypair), for every*)
(* number of commands, enrolments and ids; and its folders and the files   *)
(* around them (Folder: Upgrade, TargetFile, Layering, EditorServer and    *)
(* Guards), for every value of their constants.                            *)
(*                                                                         *)
(* Of the keypair, Exclusive and SeesKeychain say what the lock gives: one *)
(* command at a time is past the queue, and from its re-read to its        *)
(* banking the keychain item it works with does not move under it.  The    *)
(* rest relates the keychain's counter to the server's for the ids the     *)
(* host has neither lost track of nor replaced.                            *)
(*                                                                         *)
(* Of the folder, each part has an inductive invariant, stated in its own  *)
(* module, that its first states meet, its steps keep and its promise      *)
(* follows from.                                                           *)
(***************************************************************************)
EXTENDS Keypair, Folder, WellFoundedInduction, TLAPS

\* Between the re-read and the banking.
Working == {"read", "sent", "refused", "granted"}

Tracked(i) == i \in Ids /\ i \notin unsettled /\ i \notin replaced

GrantOut(i) == \E c \in Commands : pc[c] = "granted" /\ held[c].id = i

Exclusive == \A c \in Commands : pc[c] \in Inside <=> lock = c

HeldKnown ==
  \A c \in Commands :
    /\ pc[c] # "start" <=> held[c] # Nothing
    /\ held[c].id \in Ids => counter[held[c].id] > 0

StillInKeychain ==
  \A c \in Commands :
    held[c].id \in Ids /\ held[c].id \notin replaced => keychain.id = held[c].id

SeesKeychain ==
  \A c \in Commands :
    /\ pc[c] \in Working /\ keychain.id = held[c].id => keychain = held[c]
    /\ pc[c] = "granted" => grant[c] = held[c].generation + 1

InStep ==
  \A i \in Ids :
    Tracked(i) /\ keychain.id = i =>
      counter[i] = IF GrantOut(i) THEN keychain.generation + 1
                                  ELSE keychain.generation

\* A request out is the one its command holds; once that command has failed, the
\* host has lost track of the id.
WireKnown ==
  \A c \in Commands :
    wire[c] # Nothing =>
      /\ wire[c] = held[c]
      /\ \/ pc[c] = "sent"
         \/ pc[c] \in {"failed", "dead"} /\ held[c].id \in unsettled

Banked ==
  \A c \in Commands :
    pc[c] \in {"banked", "used"} /\ held[c].id \notin replaced =>
      keychain.generation > held[c].generation

\* An id the server has filed and the host has not stored yet: nobody holds it.
Fresh(i) ==
  /\ counter[i] = 1
  /\ keychain.id # i
  /\ i \notin replaced
  /\ \A c \in Commands : held[c].id # i

EnrollingFresh ==
  /\ \A e \in Enrollers : epc[e] = "answered" => eid[e] \in Ids /\ Fresh(eid[e])
  /\ \A e, f \in Enrollers :
       epc[e] = "answered" /\ epc[f] = "answered" /\ e # f => eid[e] # eid[f]

Issued ==
  /\ keychain.id \in Ids => counter[keychain.id] > 0
  /\ \A i \in replaced : counter[i] > 0

-----------------------------------------------------------------------------
(* Types need nothing of the lock.                                         *)

\* A command past the keychain holds an enrolment, a granted one was answered with
\* a generation a key can be at, and an answered enroller with an id.
Answers ==
  /\ \A c \in Commands :
       /\ pc[c] # "start" => held[c] \in Enrolled
       /\ pc[c] = "granted" => grant[c] \in Nat \ {0}
  /\ \A e \in Enrollers : epc[e] = "answered" => eid[e] \in Ids

TypeInv == TypeOK /\ Answers

\* The first state of the keypair has its types.
LEMMA TypeInit == Init => TypeInv
  BY NamesAssumption DEF Init, TypeInv, Answers, TypeOK, Enrolled, Nothing, States, EnrollStates

\* Every step of the keypair keeps them, with what the server may have answered.
LEMMA TypeNext == TypeInv /\ [Next]_vars => TypeInv'
  <1> SUFFICES ASSUME TypeInv, [Next]_vars PROVE TypeInv'
    OBVIOUS
  <1> USE NamesAssumption DEF TypeInv, Answers, TypeOK, Enrolled, Nothing, States, Inside, Ended, EnrollStates,
          Step, Unlock, enrollVars, serverVars, history, hostVars
  <1>1. ASSUME NEW c \in Commands, FromKeychain(c) PROVE TypeInv'
    BY <1>1 DEF FromKeychain
  <1>2. ASSUME NEW c \in Commands, TakeLock(c) PROVE TypeInv'
    BY <1>2 DEF TakeLock
  <1>3. ASSUME NEW c \in Commands, ReadAgain(c) PROVE TypeInv'
    BY <1>3 DEF ReadAgain
  <1>4. ASSUME NEW c \in Commands, ChallengeAndSend(c) PROVE TypeInv'
    BY <1>4 DEF ChallengeAndSend
  <1>5. ASSUME NEW c \in Commands, Retry(c) PROVE TypeInv'
    BY <1>5 DEF Retry
  <1>6. ASSUME NEW c \in Commands, RefusedTwice(c) PROVE TypeInv'
    BY <1>6 DEF RefusedTwice
  <1>7. ASSUME NEW c \in Commands, Bank(c) PROVE TypeInv'
    BY <1>7 DEF Bank
  <1>8. ASSUME NEW c \in Commands, Return(c) PROVE TypeInv'
    BY <1>8 DEF Return
  <1>9. ASSUME NEW c \in Commands, KeychainRefuses(c) PROVE TypeInv'
    BY <1>9 DEF KeychainRefuses
  <1>10. ASSUME NEW c \in Commands, GiveUp(c) PROVE TypeInv'
    BY <1>10 DEF GiveUp
  <1>11. ASSUME NEW c \in Commands, Crash(c) PROVE TypeInv'
    BY <1>11 DEF Crash
  <1>12. ASSUME NEW c \in Commands, Count(c) PROVE TypeInv'
    BY <1>12 DEF Count
  <1>13. ASSUME NEW c \in Commands, ServerError(c) PROVE TypeInv'
    BY <1>13 DEF ServerError
  <1>14. ASSUME NEW e \in Enrollers, EnrollAnswered(e) PROVE TypeInv'
    BY <1>14 DEF EnrollAnswered
  <1>15. ASSUME NEW e \in Enrollers, EnrollRemember(e) PROVE TypeInv'
    BY <1>15 DEF EnrollRemember, EnrolledGeneration
  <1>16. CASE UNCHANGED vars
    BY <1>16 DEF vars
  <1> QED
    BY <1>1, <1>2, <1>3, <1>4, <1>5, <1>6, <1>7, <1>8, <1>9, <1>10, <1>11, <1>12, <1>13, <1>14, <1>15, <1>16 DEF Next, Obtain, Proceed, Server, Enroll

\* Every variable keeps its type.
THEOREM Typing == Spec => []TypeOK
  <1>1. TypeInv => TypeOK
    BY DEF TypeInv
  <1> QED
    BY <1>1, TypeInit, TypeNext, PTL DEF Spec

-----------------------------------------------------------------------------
(* What the lock keeps true.                                               *)

LockInv ==
  /\ TypeInv
  /\ Exclusive
  /\ HeldKnown
  /\ StillInKeychain
  /\ SeesKeychain
  /\ InStep
  /\ WireKnown
  /\ Banked
  /\ EnrollingFresh
  /\ Issued
  /\ ClonedOnlyWithCause

\* The first state meets what the lock gives.
LEMMA LockInit == Init => LockInv
  BY TypeInit, NamesAssumption
  DEF Init, LockInv, TypeInv, Answers, TypeOK, Exclusive, HeldKnown, StillInKeychain, SeesKeychain, InStep, Tracked, GrantOut, WireKnown, Banked, EnrollingFresh, Fresh, Issued, ClonedOnlyWithCause, Working, Inside, Enrolled, Nothing, Ended

\* Where there is a lock, every step keeps what it gives.
LEMMA LockNext == LockDir /\ LockInv /\ [Next]_vars => LockInv'
  <1> SUFFICES ASSUME LockDir, LockInv, [Next]_vars PROVE LockInv'
    OBVIOUS
  <1>t. TypeInv'
    BY TypeNext DEF LockInv
  <1> USE NamesAssumption
      DEF LockInv, TypeInv, Answers, TypeOK, Exclusive, HeldKnown, StillInKeychain,
          SeesKeychain, InStep, Tracked, GrantOut, WireKnown, Banked, EnrollingFresh,
          Fresh, Issued, ClonedOnlyWithCause, Working, Enrolled, Nothing, States,
          Inside, Ended, EnrollStates, Step, Unlock, enrollVars, serverVars, history, hostVars
  <1>1. ASSUME NEW c \in Commands, FromKeychain(c) PROVE LockInv'
    BY <1>1, <1>t DEF FromKeychain
  <1>2. ASSUME NEW c \in Commands, TakeLock(c) PROVE LockInv'
    BY <1>2, <1>t DEF TakeLock
  <1>3. ASSUME NEW c \in Commands, ReadAgain(c) PROVE LockInv'
    BY <1>3, <1>t DEF ReadAgain
  <1>4. ASSUME NEW c \in Commands, ChallengeAndSend(c) PROVE LockInv'
    BY <1>4, <1>t DEF ChallengeAndSend
  <1>5. ASSUME NEW c \in Commands, Retry(c) PROVE LockInv'
    BY <1>5, <1>t DEF Retry
  <1>6. ASSUME NEW c \in Commands, RefusedTwice(c) PROVE LockInv'
    BY <1>6, <1>t DEF RefusedTwice
  <1>7. ASSUME NEW c \in Commands, Bank(c) PROVE LockInv'
    <2>1. Exclusive' /\ HeldKnown' /\ WireKnown' /\ EnrollingFresh' /\ Issued' /\ ClonedOnlyWithCause'
      BY <1>7, <1>t DEF Bank
    \* whoever held another id now holds a replaced one
    <2>2. StillInKeychain'
      BY <1>7, <1>t DEF Bank
    \* no other command is between its re-read and its banking
    <2>3. SeesKeychain'
      BY <1>7, <1>t DEF Bank
    \* the item was still the one held, so the grant is one past it
    <2>4. InStep'
      BY <1>7, <1>t DEF Bank
    \* the item moves one generation up
    <2>5. Banked'
      BY <1>7, <1>t DEF Bank
    <2> QED
      BY <1>t, <2>1, <2>2, <2>3, <2>4, <2>5
  <1>8. ASSUME NEW c \in Commands, Return(c) PROVE LockInv'
    BY <1>8, <1>t DEF Return
  <1>9. ASSUME NEW c \in Commands, KeychainRefuses(c) PROVE LockInv'
    BY <1>9, <1>t DEF KeychainRefuses
  <1>10. ASSUME NEW c \in Commands, GiveUp(c) PROVE LockInv'
    BY <1>10, <1>t DEF GiveUp
  <1>11. ASSUME NEW c \in Commands, Crash(c) PROVE LockInv'
    BY <1>11, <1>t DEF Crash
  <1>12. ASSUME NEW c \in Commands, Count(c) PROVE LockInv'
    <2>1. Exclusive' /\ HeldKnown' /\ StillInKeychain' /\ WireKnown' /\ Banked' /\ EnrollingFresh' /\ Issued'
      BY <1>12, <1>t DEF Count
    \* the request out is the enrolment held
    <2>2. SeesKeychain'
      BY <1>12, <1>t DEF Count
    \* a tracked id moves one up, and its command holds the grant
    <2>3. InStep'
      BY <1>12, <1>t DEF Count
    \* a tracked id is in step, so its generation is the one expected
    <2>4. ClonedOnlyWithCause'
      BY <1>12, <1>t DEF Count
    <2> QED
      BY <1>t, <2>1, <2>2, <2>3, <2>4
  <1>13. ASSUME NEW c \in Commands, ServerError(c) PROVE LockInv'
    BY <1>13, <1>t DEF ServerError
  <1>14. ASSUME NEW e \in Enrollers, EnrollAnswered(e) PROVE LockInv'
    BY <1>14, <1>t DEF EnrollAnswered
  <1>15. ASSUME NEW e \in Enrollers, EnrollRemember(e) PROVE LockInv'
    <2>1. Exclusive' /\ HeldKnown' /\ WireKnown' /\ EnrollingFresh' /\ Issued' /\ ClonedOnlyWithCause'
      BY <1>15, <1>t DEF EnrollRemember, EnrolledGeneration
    \* the item overwritten is a replaced one, and the new id is held by nobody
    <2>2. StillInKeychain' /\ SeesKeychain' /\ Banked'
      BY <1>15, <1>t DEF EnrollRemember, EnrolledGeneration
    \* the new id has counted nothing
    <2>3. InStep'
      BY <1>15, <1>t DEF EnrollRemember, EnrolledGeneration
    <2> QED
      BY <1>t, <2>1, <2>2, <2>3
  <1>16. CASE UNCHANGED vars
    BY <1>16 DEF vars, LockInv, TypeInv, Answers, TypeOK, Exclusive, HeldKnown, StillInKeychain, SeesKeychain, InStep, Tracked, GrantOut, WireKnown, Banked, EnrollingFresh, Fresh, Issued, ClonedOnlyWithCause, Working
  <1> QED
    BY <1>1, <1>2, <1>3, <1>4, <1>5, <1>6, <1>7, <1>8, <1>9, <1>10, <1>11, <1>12, <1>13, <1>14, <1>15, <1>16 DEF Next, Obtain, Proceed, Server, Enroll

\* So it holds throughout.
LEMMA LockInvariant == LockDir /\ Spec => []LockInv
  <1> SUFFICES ASSUME LockDir PROVE Spec => []LockInv
    OBVIOUS
  <1>1. LockInv /\ [Next]_vars => LockInv'
    BY LockNext
  <1> QED
    BY <1>1, LockInit, PTL DEF Spec

\* Behind the lock, whatever the commands race, an id is read as a clone only when
\* the host lost track of it or another enrolment replaced it.
THEOREM Cloned == LockDir => (Spec => []ClonedOnlyWithCause)
  <1>1. LockInv => ClonedOnlyWithCause
    BY DEF LockInv
  <1> QED
    BY <1>1, LockInvariant, PTL

\* Behind the lock, a bearer handed back was banked first, and stays banked.
THEOREM Banking == LockDir => (Spec => []BankedBeforeUse)
  <1>1. LockInv => BankedBeforeUse
    BY NamesAssumption
    DEF LockInv, TypeInv, TypeOK, Answers, StillInKeychain, Banked, BankedBeforeUse, Enrolled, Nothing
  <1> QED
    BY <1>1, LockInvariant, PTL

\* Behind the lock, a step never takes the banked counter of an enrolment back.
THEOREM Counter == LockDir => (Spec => CounterNeverGoesBack)
  <1>1. LockInv /\ [Next]_vars => [keychain'.id = keychain.id => keychain'.generation >= keychain.generation]_vars
    <2> SUFFICES ASSUME LockInv, Next, keychain'.id = keychain.id
                 PROVE keychain'.generation >= keychain.generation
      OBVIOUS
    <2> USE NamesAssumption DEF LockInv, TypeInv, TypeOK, Answers, Enrolled, Nothing, enrollVars, serverVars, history, hostVars
    <2>1. CASE UNCHANGED keychain
      BY <2>1
    <2>2. ASSUME NEW c \in Commands, Bank(c) PROVE keychain'.generation >= keychain.generation
      BY <2>2 DEF Bank, Step, SeesKeychain, Working
    \* An answered enrolment has an id the keychain does not hold.
    <2>3. ASSUME NEW e \in Enrollers, EnrollRemember(e), ~UNCHANGED keychain PROVE FALSE
      BY <2>3 DEF EnrollRemember, EnrollingFresh, Fresh
    <2> QED
      BY <2>1, <2>2, <2>3
      DEF Next, Obtain, Proceed, Server, Enroll, FromKeychain, TakeLock, ReadAgain, ChallengeAndSend, Retry,
          RefusedTwice, Return, KeychainRefuses, GiveUp, Crash, Count, ServerError, EnrollAnswered
  <1> QED
    BY <1>1, LockInvariant, PTL DEF Spec, CounterNeverGoesBack


-----------------------------------------------------------------------------
(* Upgrade.                                                                *)

\* The first state of the upgrades meets their invariant.
LEMMA SwapInit == Swap!Init => Swap!UpgradeInv
  <1> SUFFICES ASSUME Swap!Init PROVE Swap!UpgradeInv
    OBVIOUS
  <1> USE SwapAssumption DEF Swap!UpgradeAssumption
  <1>1. Swap!TypeOK
    BY DEF Swap!Init, Swap!TypeOK, Swap!Names, Swap!Inodes, Swap!Content, Swap!Binary,
         Swap!Process, Swap!Pcs
  <1>2. Swap!Verified /\ Swap!Picked
    BY DEF Swap!Init, Swap!Verified, Swap!Picked, Swap!Inodes
  <1>3. Swap!OneName /\ Swap!Retired /\ Swap!Opened
    BY DEF Swap!Init, Swap!OneName, Swap!Retired, Swap!Opened, Swap!Names
  <1>4. Swap!Undisturbed
    BY DEF Swap!Init, Swap!Undisturbed, Swap!Running, Swap!Inodes, Swap!Names
  <1> QED
    BY <1>1, <1>2, <1>3, <1>4 DEF Swap!UpgradeInv

\* A removal takes the name away or fails and leaves it.
LEMMA RemovesEither ==
  ASSUME NEW n, NEW there
  PROVE  \A x \in Swap!Removes(n, there) : x = there \/ x = [there EXCEPT ![n] = NoFile]
  BY DEF Swap!Removes

\* What a step of an upgrade leaves of the types.
LEMMA SwapTypes ==
  ASSUME Swap!TypeOK, NEW p \in Upgrades, Swap!Step(p) PROVE Swap!TypeOK'
  <1> USE SwapAssumption DEF Swap!UpgradeAssumption, Swap!TypeOK
  <1>0. up[p] \in Swap!Process
    OBVIOUS
  <1> DEFINE Named2 == [Swap!Names -> Swap!Inodes \cup {NoFile}]
  <1>1. \A there \in Named2, n \in Swap!Names : Swap!Removes(n, there) \subseteq Named2
    BY RemovesEither
  <1>2. "penv" \in Swap!Names /\ "penv.new" \in Swap!Names /\ "penv.old" \in Swap!Names
    BY DEF Swap!Names
  <1>3. \A goal \in Swap!Pcs : Swap!Goes(p, goal) => up' \in [Upgrades -> Swap!Process]
    BY <1>0 DEF Swap!Goes, Swap!Process
  <1>4. CASE Swap!Start(p)
    <2>1. name' \in Named2
      BY <1>1, <1>2, <1>4 DEF Swap!Start
    <2>2. up' \in [Upgrades -> Swap!Process]
      BY <1>0, <1>2, <1>4 DEF Swap!Start, Swap!Process, Swap!Pcs
    <2>3. alone' \in BOOLEAN
      BY <1>4 DEF Swap!Start
    <2> QED
      BY <1>4, <2>1, <2>2, <2>3 DEF Swap!Start
  <1>5. CASE Swap!ReadRelease(p)
    <2>1. up' \in [Upgrades -> Swap!Process]
      <3>1. CASE Swap!Goes(p, "refused")
        BY <1>3, <3>1 DEF Swap!Pcs
      <3>2. CASE ~Swap!Goes(p, "refused")
        <4>1. PICK tag \in Versions, goal \in {"fetch", "current"} :
                up' = [up EXCEPT ![p].tag = tag, ![p].pc = goal]
          BY <1>5, <3>2 DEF Swap!ReadRelease
        <4> QED
          BY <1>0, <4>1 DEF Swap!Process, Swap!Pcs
      <3> QED
        BY <3>1, <3>2
    <2> QED
      BY <1>5, <2>1 DEF Swap!ReadRelease
  <1>6. CASE Swap!Download(p)
    <2>1. PICK binary \in Swap!Binary, goal \in {"stage", "refused"} :
            up' = [up EXCEPT ![p].binary = binary, ![p].pc = goal]
      BY <1>6 DEF Swap!Download
    <2>2. up' \in [Upgrades -> Swap!Process]
      BY <1>0, <2>1 DEF Swap!Process, Swap!Pcs
    <2> QED
      BY <1>6, <2>2 DEF Swap!Download
  <1>7. CASE Swap!OpenStaged(p)
    <2>1. CASE UNCHANGED <<name, data>> /\ Swap!Goes(p, "kept")
      <3>1. up' \in [Upgrades -> Swap!Process]
        BY <1>3, <2>1 DEF Swap!Pcs
      <3> QED
        BY <1>7, <2>1, <3>1 DEF Swap!OpenStaged
    <2>2. CASE ~(UNCHANGED <<name, data>> /\ Swap!Goes(p, "kept"))
      <3>1. PICK i \in Swap!Inodes :
              /\ name' = [name EXCEPT !["penv.new"] = i]
              /\ data' = [data EXCEPT ![i] = Torn]
              /\ up' = [up EXCEPT ![p].pc = "writing", ![p].fd = i]
        BY <1>2, <1>7, <2>2 DEF Swap!OpenStaged, Swap!Inodes
      <3>2. up' \in [Upgrades -> Swap!Process]
        BY <1>0, <3>1 DEF Swap!Process, Swap!Pcs
      <3> QED
        BY <1>2, <1>7, <3>1, <3>2 DEF Swap!OpenStaged, Swap!Content
    <2> QED
      BY <2>1, <2>2
  <1>8. CASE Swap!WriteStaged(p)
    <2>1. up' \in [Upgrades -> Swap!Process]
      BY <1>0, <1>8 DEF Swap!WriteStaged, Swap!Process, Swap!Pcs
    <2>2. data' \in [Swap!Inodes -> Swap!Content]
      BY <1>0, <1>8 DEF Swap!WriteStaged, Swap!Process, Swap!Content
    <2> QED
      BY <1>8, <2>1, <2>2 DEF Swap!WriteStaged
  <1>9. CASE Swap!SwapUnix(p)
    <2>1. up' \in [Upgrades -> Swap!Process]
      BY <1>3, <1>9 DEF Swap!SwapUnix, Swap!Pcs
    <2>2. name' \in Named2
      BY <1>1, <1>2, <1>9 DEF Swap!SwapUnix
    <2> QED
      BY <1>9, <2>1, <2>2 DEF Swap!SwapUnix
  <1>10. CASE Swap!Retire(p)
    <2>1. up' \in [Upgrades -> Swap!Process]
      BY <1>3, <1>10 DEF Swap!Retire, Swap!Pcs
    <2>2. name' \in Named2
      BY <1>1, <1>2, <1>10 DEF Swap!Retire
    <2> QED
      BY <1>10, <2>1, <2>2 DEF Swap!Retire
  <1>11. CASE Swap!Land(p)
    <2>1. up' \in [Upgrades -> Swap!Process]
      BY <1>3, <1>11 DEF Swap!Land, Swap!Pcs
    <2>2. name' \in Named2
      BY <1>1, <1>2, <1>11 DEF Swap!Land, Swap!Rename
    <2> QED
      BY <1>11, <2>1, <2>2 DEF Swap!Land
  <1>12. CASE Swap!Restore(p)
    <2>1. up' \in [Upgrades -> Swap!Process]
      BY <1>3, <1>12 DEF Swap!Restore, Swap!Pcs
    <2>2. name' \in Named2
      BY <1>2, <1>12 DEF Swap!Restore, Swap!Rename
    <2> QED
      BY <1>12, <2>1, <2>2 DEF Swap!Restore
  <1>13. CASE Swap!Die(p)
    <2>1. up' \in [Upgrades -> Swap!Process]
      BY <1>0, <1>13 DEF Swap!Die, Swap!Process, Swap!Pcs
    <2> QED
      BY <1>13, <2>1 DEF Swap!Die
  <1> QED
    BY <1>4, <1>5, <1>6, <1>7, <1>8, <1>9, <1>10, <1>11, <1>12, <1>13 DEF Swap!Step

\* A step of one upgrade leaves the others where they are.
LEMMA SwapOthers ==
  ASSUME Swap!TypeOK, NEW p \in Upgrades, Swap!Step(p)
  PROVE  \A q \in Upgrades : q # p => up'[q] = up[q]
  <1> SUFFICES ASSUME NEW q \in Upgrades, q # p PROVE up'[q] = up[q]
    OBVIOUS
  <1> USE DEF Swap!TypeOK, Swap!Goes
  <1>1. CASE Swap!Start(p)
    BY <1>1 DEF Swap!Start
  <1>2. CASE Swap!ReadRelease(p)
    BY <1>2 DEF Swap!ReadRelease
  <1>3. CASE Swap!Download(p)
    BY <1>3 DEF Swap!Download
  <1>4. CASE Swap!OpenStaged(p)
    BY <1>4 DEF Swap!OpenStaged
  <1>5. CASE Swap!WriteStaged(p)
    BY <1>5 DEF Swap!WriteStaged
  <1>6. CASE Swap!SwapUnix(p)
    BY <1>6 DEF Swap!SwapUnix
  <1>7. CASE Swap!Retire(p)
    BY <1>7 DEF Swap!Retire
  <1>8. CASE Swap!Land(p)
    BY <1>8 DEF Swap!Land
  <1>9. CASE Swap!Restore(p)
    BY <1>9 DEF Swap!Restore
  <1>10. CASE Swap!Die(p)
    BY <1>10 DEF Swap!Die
  <1> QED
    BY <1>1, <1>2, <1>3, <1>4, <1>5, <1>6, <1>7, <1>8, <1>9, <1>10 DEF Swap!Step

\* Reading the release leads to one of three places, and picks a tag or keeps the old one.
LEMMA SwapReads ==
  ASSUME Swap!TypeOK, NEW p \in Upgrades, Swap!ReadRelease(p)
  PROVE  /\ up'[p].pc \in {"fetch", "current", "refused"}
         /\ up'[p].exe = up[p].exe /\ up'[p].fd = up[p].fd
  <1>0. up[p] \in Swap!Process /\ p \in DOMAIN up
    BY DEF Swap!TypeOK
  <1>1. CASE Swap!Goes(p, "refused")
    BY <1>0, <1>1 DEF Swap!Goes, Swap!Process
  <1>2. CASE ~Swap!Goes(p, "refused")
    <2>1. PICK tag \in Versions, goal \in {"fetch", "current"} :
            up' = [up EXCEPT ![p].tag = tag, ![p].pc = goal]
      BY <1>2 DEF Swap!ReadRelease
    <2> QED
      BY <1>0, <2>1 DEF Swap!Process
  <1> QED
    BY <1>1, <1>2

\* What is downloaded is the release that was picked, as its signed checksum says.
LEMMA SwapVerified ==
  ASSUME Swap!TypeOK, Swap!Verified, NEW p \in Upgrades, Swap!Step(p) PROVE Swap!Verified'
  <1>0. /\ up[p] \in Swap!Process /\ p \in DOMAIN up
        /\ \A q \in Upgrades : q # p => up'[q] = up[q]
    BY SwapOthers DEF Swap!TypeOK
  <1> SUFFICES up'[p].pc \in {"stage", "writing", "swap", "landing"} => up'[p].binary = up'[p].tag
    BY <1>0 DEF Swap!Verified
  <1> USE <1>0 DEF Swap!Verified, Swap!Goes, Swap!At, Swap!Process
  <1>1. CASE Swap!Start(p)
    BY <1>1 DEF Swap!Start
  <1>2. CASE Swap!ReadRelease(p)
    <2>1. CASE Swap!Goes(p, "refused")
      BY <2>1
    <2>2. CASE ~Swap!Goes(p, "refused")
      <3>1. PICK tag \in Versions, goal \in {"fetch", "current"} :
              up' = [up EXCEPT ![p].tag = tag, ![p].pc = goal]
        BY <1>2, <2>2 DEF Swap!ReadRelease
      <3> QED
        BY <3>1
    <2> QED
      BY <2>1, <2>2
  <1>3. CASE Swap!Download(p)
    <2>1. PICK sums \in Swap!Served, binary \in Swap!Binary :
            up' = [up EXCEPT ![p].binary = binary,
              ![p].pc = IF Swap!Checked(up[p].tag, sums, binary) THEN "stage" ELSE "refused"]
      BY <1>3 DEF Swap!Download
    <2>2. Swap!Checked(up[p].tag, sums, binary) => binary = up[p].tag
      BY DEF Swap!Checked, Swap!Served
    <2> QED
      BY <2>1, <2>2
  <1>4. CASE Swap!OpenStaged(p)
    BY <1>4 DEF Swap!OpenStaged
  <1>5. CASE Swap!WriteStaged(p)
    BY <1>5 DEF Swap!WriteStaged
  <1>6. CASE Swap!SwapUnix(p)
    BY <1>6 DEF Swap!SwapUnix
  <1>7. CASE Swap!Retire(p)
    BY <1>7 DEF Swap!Retire
  <1>8. CASE Swap!Land(p)
    BY <1>8 DEF Swap!Land
  <1>9. CASE Swap!Restore(p)
    BY <1>9 DEF Swap!Restore
  <1>10. CASE Swap!Die(p)
    BY <1>10 DEF Swap!Die
  <1> QED
    BY <1>1, <1>2, <1>3, <1>4, <1>5, <1>6, <1>7, <1>8, <1>9, <1>10 DEF Swap!Step

\* A tag no longer moves once it was picked, so what was written stays picked.
LEMMA SwapPicked ==
  ASSUME Swap!TypeOK, Swap!Verified, Swap!Picked, NEW p \in Upgrades, Swap!Step(p)
  PROVE  Swap!Picked'
  <1>0. /\ up[p] \in Swap!Process /\ p \in DOMAIN up
        /\ \A q \in Upgrades : q # p => up'[q] = up[q]
    BY SwapOthers DEF Swap!TypeOK
  <1> DEFINE Kept == /\ up'[p].pc \notin {"idle", "release"} \/ up[p].pc \in {"idle", "release"}
                     /\ up[p].pc \in {"idle", "release"} \/ up'[p].tag = up[p].tag
  <1>1. CASE data' = data /\ Kept
    BY <1>0, <1>1 DEF Swap!Picked
  <1>2. CASE Swap!Start(p)
    BY <1>0, <1>1, <1>2 DEF Swap!Start, Swap!At, Swap!Process
  <1>3. CASE Swap!ReadRelease(p)
    BY <1>0, <1>1, <1>3 DEF Swap!ReadRelease, Swap!At, Swap!Process
  <1>4. CASE Swap!Download(p)
    BY <1>0, <1>1, <1>4 DEF Swap!Download, Swap!At, Swap!Process
  <1>5. CASE Swap!OpenStaged(p)
    <2>1. Kept
      BY <1>0, <1>5 DEF Swap!OpenStaged, Swap!Process, Swap!Goes, Swap!At
    <2>2. data' = data \/ \E i : data' = [data EXCEPT ![i] = Torn]
      BY <1>5 DEF Swap!OpenStaged
    <2>3. \A q \in Upgrades : data'[q] # Torn => data'[q] = data[q]
      BY <2>2 DEF Swap!TypeOK, Swap!Inodes
    <2> QED
      BY <1>0, <2>1, <2>3 DEF Swap!Picked
  <1>6. CASE Swap!WriteStaged(p)
    <2>1. up[p].binary = up[p].tag /\ Kept /\ up'[p].pc \in {"swap", "kept"} /\ up'[p].tag = up[p].tag
      BY <1>0, <1>6 DEF Swap!WriteStaged, Swap!Process, Swap!At, Swap!Verified
    <2>2. CASE data' = data
      BY <1>1, <2>1, <2>2
    <2>3. CASE \E c \in {up[p].binary, Torn} : data' = [data EXCEPT ![up[p].fd] = c]
      <3>1. \A q \in Upgrades : data'[q] = Torn \/ data'[q] = data[q] \/ data'[q] = up'[p].tag
        BY <2>1, <2>3 DEF Swap!TypeOK, Swap!Inodes
      <3> QED
        BY <1>0, <2>1, <3>1 DEF Swap!Picked
    <2> QED
      BY <1>6, <2>2, <2>3 DEF Swap!WriteStaged
  <1>7. CASE Swap!SwapUnix(p)
    BY <1>0, <1>1, <1>7 DEF Swap!SwapUnix, Swap!At, Swap!Goes, Swap!Process
  <1>8. CASE Swap!Retire(p)
    BY <1>0, <1>1, <1>8 DEF Swap!Retire, Swap!At, Swap!Goes, Swap!Process
  <1>9. CASE Swap!Land(p)
    BY <1>0, <1>1, <1>9 DEF Swap!Land, Swap!At, Swap!Goes, Swap!Process
  <1>10. CASE Swap!Restore(p)
    BY <1>0, <1>1, <1>10 DEF Swap!Restore, Swap!At, Swap!Goes, Swap!Process
  <1>11. CASE Swap!Die(p)
    BY <1>0, <1>1, <1>11 DEF Swap!Die, Swap!Running, Swap!Process
  <1> QED
    BY <1>2, <1>3, <1>4, <1>5, <1>6, <1>7, <1>8, <1>9, <1>10, <1>11 DEF Swap!Step

\* Only a file that is not made yet is named anew, and a rename takes the old name away.
LEMMA SwapOneName ==
  ASSUME Swap!TypeOK, Swap!OneName, NEW p \in Upgrades, Swap!Step(p) PROVE Swap!OneName'
  <1>0. /\ up[p] \in Swap!Process /\ p \in DOMAIN up /\ DOMAIN name = Swap!Names
        /\ p # NoFile /\ p \in Swap!Inodes
        /\ \A q \in Upgrades : q # p => up'[q] = up[q]
    BY SwapOthers, SwapAssumption DEF Swap!TypeOK, Swap!UpgradeAssumption, Swap!Inodes
  <1>1. Swap!Names = {"penv", "penv.new", "penv.old"}
    BY DEF Swap!Names
  <1> DEFINE Early == {"idle", "release", "fetch", "stage"}
  <1> DEFINE Later == up'[p].pc \notin Early \/ up[p].pc \in Early
  \* Names only go, or are passed on.
  <1>2. ASSUME Later, DOMAIN name' = Swap!Names,
               \A n \in Swap!Names : name'[n] = NoFile \/ \E m \in Swap!Names : name'[n] = name[m],
               \A m, n \in Swap!Names : name'[m] = name'[n] /\ name'[m] # NoFile => m = n
        PROVE  Swap!OneName'
    <2>1. ASSUME NEW q \in Upgrades, up'[q].pc \in Early, NEW n \in Swap!Names
          PROVE  name'[n] # q
      <3>1. up[q].pc \in Early
        BY <1>0, <1>2, <2>1
      <3>2. q # NoFile
        BY SwapAssumption DEF Swap!UpgradeAssumption
      <3> QED
        BY <1>2, <2>1, <3>1, <3>2 DEF Swap!OneName
    <2> QED
      BY <1>2, <2>1 DEF Swap!OneName
  <1>3. CASE name' = name /\ Later
    BY <1>0, <1>2, <1>3 DEF Swap!OneName
  <1>4. CASE Swap!Start(p)
    <2>1. Later
      BY <1>0, <1>4 DEF Swap!Start, Swap!At, Swap!Process
    <2>2. name' = name \/ name' = [name EXCEPT !["penv.old"] = NoFile]
      BY <1>4, RemovesEither DEF Swap!Start
    <2> QED
      BY <1>0, <1>1, <1>2, <1>3, <2>1, <2>2 DEF Swap!OneName
  <1>5. CASE Swap!ReadRelease(p)
    BY <1>0, <1>3, <1>5 DEF Swap!ReadRelease, Swap!At, Swap!Process
  <1>6. CASE Swap!Download(p)
    BY <1>0, <1>3, <1>6 DEF Swap!Download, Swap!At, Swap!Process
  <1>7. CASE Swap!OpenStaged(p)
    <2>1. up[p].pc = "stage" /\ up'[p].pc \notin Early
      BY <1>0, <1>7 DEF Swap!OpenStaged, Swap!Goes, Swap!At, Swap!Process
    <2>2. CASE name' = name
      BY <1>3, <2>1, <2>2
    <2>3. CASE name["penv.new"] = NoFile /\ name' = [name EXCEPT !["penv.new"] = p]
      <3>1. \A n \in Swap!Names : name[n] # p
        BY <2>1 DEF Swap!OneName
      <3>2. \A m, n \in Swap!Names : name'[m] = name'[n] /\ name'[m] # NoFile => m = n
        BY <1>0, <1>1, <2>3, <3>1 DEF Swap!OneName
      <3>3. \A q \in Upgrades : up'[q].pc \in Early => \A n \in Swap!Names : name'[n] # q
        BY <1>0, <1>1, <2>1, <2>3 DEF Swap!OneName
      <3> QED
        BY <3>2, <3>3 DEF Swap!OneName
    <2>4. name' = name \/ (name["penv.new"] = NoFile /\ name' = [name EXCEPT !["penv.new"] = p])
      BY <1>0, <1>1, <1>7 DEF Swap!OpenStaged, Swap!TypeOK
    <2> QED
      BY <2>2, <2>3, <2>4
  <1>8. CASE Swap!WriteStaged(p)
    BY <1>0, <1>3, <1>8 DEF Swap!WriteStaged, Swap!At, Swap!Process
  <1>9. CASE Swap!SwapUnix(p)
    <2>1. Later
      BY <1>0, <1>9 DEF Swap!SwapUnix, Swap!At, Swap!Goes, Swap!Process
    <2> DEFINE there == [name EXCEPT !["penv"] = name["penv.new"], !["penv.new"] = NoFile]
    <2>2. \/ name' = there \/ name' = [there EXCEPT !["penv.old"] = NoFile]
          \/ name' = name \/ name' = [name EXCEPT !["penv.new"] = NoFile]
      BY <1>9, RemovesEither DEF Swap!SwapUnix
    <2> QED
      BY <1>0, <1>1, <1>2, <1>3, <2>1, <2>2 DEF Swap!OneName
  <1>10. CASE Swap!Retire(p)
    <2>1. Later
      BY <1>0, <1>10 DEF Swap!Retire, Swap!At, Swap!Goes, Swap!Process
    <2>2. PICK there :
            /\ there = name \/ there = [name EXCEPT !["penv.old"] = NoFile]
            /\ \/ name' = [there EXCEPT !["penv.old"] = there["penv"], !["penv"] = NoFile]
               \/ name' = there \/ name' = [there EXCEPT !["penv.new"] = NoFile]
      BY <1>10, RemovesEither DEF Swap!Retire
    <2> QED
      BY <1>0, <1>1, <1>2, <2>1, <2>2 DEF Swap!OneName
  <1>11. CASE Swap!Land(p)
    <2>1. Later
      BY <1>0, <1>11 DEF Swap!Land, Swap!At, Swap!Goes, Swap!Process
    <2>2. \/ name' = [name EXCEPT !["penv"] = name["penv.new"], !["penv.new"] = NoFile]
          \/ name' = name \/ name' = [name EXCEPT !["penv.new"] = NoFile]
      BY <1>11, RemovesEither DEF Swap!Land, Swap!Rename
    <2> QED
      BY <1>0, <1>1, <1>2, <1>3, <2>1, <2>2 DEF Swap!OneName
  <1>12. CASE Swap!Restore(p)
    <2>1. Later
      BY <1>0, <1>12 DEF Swap!Restore, Swap!At, Swap!Goes, Swap!Process
    <2>2. \/ name' = [name EXCEPT !["penv"] = name["penv.old"], !["penv.old"] = NoFile]
          \/ name' = name
      BY <1>12 DEF Swap!Restore, Swap!Rename
    <2> QED
      BY <1>0, <1>1, <1>2, <1>3, <2>1, <2>2 DEF Swap!OneName
  <1>13. CASE Swap!Die(p)
    BY <1>0, <1>3, <1>13 DEF Swap!Die, Swap!Running, Swap!Process
  <1> QED
    BY <1>4, <1>5, <1>6, <1>7, <1>8, <1>9, <1>10, <1>11, <1>12, <1>13 DEF Swap!Step

\* On unix a rename puts a file where another was.
LEMMA SwapRetired ==
  ASSUME Swap!TypeOK, Swap!Retired, NEW p \in Upgrades, Swap!Step(p) PROVE Swap!Retired'
  <1>0. /\ up[p] \in Swap!Process /\ p \in DOMAIN up /\ DOMAIN name = Swap!Names
        /\ os \in {"unix", "windows"} /\ p # NoFile
        /\ \A q \in Upgrades : q # p => up'[q] = up[q]
    BY SwapOthers, SwapAssumption DEF Swap!TypeOK, Swap!UpgradeAssumption
  <1>1. Swap!Names = {"penv", "penv.new", "penv.old"}
    BY DEF Swap!Names
  <1>2. os' = os
    BY DEF Swap!Step, Swap!Start, Swap!ReadRelease, Swap!Download, Swap!OpenStaged,
         Swap!WriteStaged, Swap!SwapUnix, Swap!Retire, Swap!Land, Swap!Restore, Swap!Die
  <1> DEFINE Moved == {"landing", "restore", "lost"}
  <1>3. CASE os = "windows"
    BY <1>0, <1>2, <1>3 DEF Swap!Retired
  <1>4. CASE os = "unix"
    <2>0. name["penv"] # NoFile /\ up[p].pc \notin Moved
      BY <1>0, <1>4 DEF Swap!Retired
    <2>1. up'[p].pc \notin Moved /\ name'["penv"] # NoFile
      <3> USE <1>0, <1>1, <1>4, <2>0 DEF Swap!At, Swap!Goes, Swap!Process
      <3>1. CASE Swap!Start(p)
        BY <3>1 DEF Swap!Start
      <3>2. CASE Swap!ReadRelease(p)
        <4>1. up'[p].pc \in {"fetch", "current", "refused"}
          BY <3>2, SwapReads
        <4> QED
          BY <3>2, <4>1 DEF Swap!ReadRelease
      <3>3. CASE Swap!Download(p)
        BY <3>3 DEF Swap!Download
      <3>4. CASE Swap!OpenStaged(p)
        BY <3>4 DEF Swap!OpenStaged
      <3>5. CASE Swap!WriteStaged(p)
        BY <3>5 DEF Swap!WriteStaged
      <3>6. CASE Swap!SwapUnix(p)
        <4> DEFINE there == [name EXCEPT !["penv"] = name["penv.new"], !["penv.new"] = NoFile]
        <4>1. \/ /\ name["penv.new"] # NoFile
                 /\ name' = there \/ name' = [there EXCEPT !["penv.old"] = NoFile]
              \/ name' = name \/ name' = [name EXCEPT !["penv.new"] = NoFile]
          BY <3>6, RemovesEither DEF Swap!SwapUnix
        <4>2. name'["penv"] # NoFile
          BY <4>1
        <4>3. up'[p].pc \in {"done", "kept"}
          BY <3>6 DEF Swap!SwapUnix
        <4> QED
          BY <4>2, <4>3
      <3>7. CASE Swap!Retire(p)
        BY <3>7 DEF Swap!Retire
      <3>8. CASE Swap!Land(p)
        BY <3>8 DEF Swap!Land
      <3>9. CASE Swap!Restore(p)
        BY <3>9 DEF Swap!Restore
      <3>10. CASE Swap!Die(p)
        BY <3>10 DEF Swap!Die
      <3> QED
        BY <3>1, <3>2, <3>3, <3>4, <3>5, <3>6, <3>7, <3>8, <3>9, <3>10 DEF Swap!Step
    <2> QED
      BY <1>0, <1>2, <1>4, <2>1 DEF Swap!Retired
  <1> QED
    BY <1>0, <1>3, <1>4

\* A file that was open is closed where the writing ends.
LEMMA SwapOpened ==
  ASSUME Swap!TypeOK, Swap!Opened, NEW p \in Upgrades, Swap!Step(p) PROVE Swap!Opened'
  <1>0. /\ up[p] \in Swap!Process /\ p \in DOMAIN up
        /\ \A q \in Upgrades : q # p => up'[q] = up[q]
    BY SwapOthers DEF Swap!TypeOK
  <1> SUFFICES up'[p].fd # NoFile => up'[p].pc = "writing"
    BY <1>0 DEF Swap!Opened
  <1> USE <1>0 DEF Swap!Opened, Swap!Goes, Swap!At, Swap!Process
  <1>1. CASE Swap!Start(p)
    BY <1>1 DEF Swap!Start
  <1>2. CASE Swap!ReadRelease(p)
    <2>1. up[p].pc = "release"
      BY <1>2 DEF Swap!ReadRelease
    <2> QED
      BY <1>2, <2>1, SwapReads
  <1>3. CASE Swap!Download(p)
    BY <1>3 DEF Swap!Download
  <1>4. CASE Swap!OpenStaged(p)
    BY <1>4 DEF Swap!OpenStaged
  <1>5. CASE Swap!WriteStaged(p)
    BY <1>5 DEF Swap!WriteStaged
  <1>6. CASE Swap!SwapUnix(p)
    BY <1>6 DEF Swap!SwapUnix
  <1>7. CASE Swap!Retire(p)
    BY <1>7 DEF Swap!Retire
  <1>8. CASE Swap!Land(p)
    BY <1>8 DEF Swap!Land
  <1>9. CASE Swap!Restore(p)
    BY <1>9 DEF Swap!Restore
  <1>10. CASE Swap!Die(p)
    BY <1>10 DEF Swap!Die
  <1> QED
    BY <1>1, <1>2, <1>3, <1>4, <1>5, <1>6, <1>7, <1>8, <1>9, <1>10 DEF Swap!Step

\* Where nobody has overlapped yet, only the one that steps runs, before it and after.
LEMMA SwapAlone ==
  ASSUME Swap!UpgradeInv, NEW p \in Upgrades, Swap!Step(p), alone'
  PROVE  /\ alone
         /\ \A q \in Swap!Running : q = p
         /\ Swap!At(p, "idle") => Swap!Running = {}
         /\ ~Swap!At(p, "idle") => p \in Swap!Running /\ Swap!HasFolder(p)
         /\ \A q \in Upgrades : up'[q].pc \notin {"idle"} \cup Swap!Ended => q = p
  <1>0. /\ up[p] \in Swap!Process /\ \A q \in Upgrades : q # p => up'[q] = up[q]
    BY SwapOthers DEF Swap!TypeOK, Swap!UpgradeInv
  <1>1. CASE Swap!Start(p)
    <2>1. alone /\ Swap!Running = {} /\ Swap!At(p, "idle")
      BY <1>1 DEF Swap!Start
    <2> QED
      BY <1>0, <2>1 DEF Swap!Running
  <1>2. CASE ~Swap!Start(p)
    <2>1. alone
      BY <1>2 DEF Swap!Step, Swap!ReadRelease, Swap!Download, Swap!OpenStaged,
           Swap!WriteStaged, Swap!SwapUnix, Swap!Retire, Swap!Land, Swap!Restore, Swap!Die
    <2>2. p \in Swap!Running
      BY <1>2 DEF Swap!Step, Swap!ReadRelease, Swap!Download, Swap!OpenStaged,
           Swap!WriteStaged, Swap!SwapUnix, Swap!Retire, Swap!Land, Swap!Restore, Swap!Die,
           Swap!Running, Swap!At, Swap!Ended
    <2>3. /\ \A q \in Swap!Running : q = p
          /\ Swap!HasFolder(p)
      BY <2>1, <2>2 DEF Swap!UpgradeInv, Swap!Undisturbed
    <2>4. ~Swap!At(p, "idle")
      BY <2>2 DEF Swap!Running, Swap!At
    <2> QED
      BY <1>0, <2>1, <2>2, <2>3, <2>4 DEF Swap!Running
  <1> QED
    BY <1>1, <1>2

\* What a step of an upgrade that nobody joined leaves of the folder.
LEMMA SwapFolder ==
  ASSUME Swap!UpgradeInv, NEW p \in Upgrades, Swap!Step(p), alone'
  PROVE  /\ up'[p].pc \notin {"idle"} \cup Swap!Ended => Swap!HasFolder(p)'
         /\ name'["penv"] # NoFile => data'[name'["penv"]] \in Versions
         /\ name'["penv"] = NoFile => up'[p].pc \in {"landing", "restore", "lost", "died"}
         /\ ~Swap!At(p, "kept") /\ up'[p].pc = "kept" => name'["penv"] = up[p].exe
         /\ ~Swap!At(p, "done") /\ up'[p].pc = "done" => data'[name'["penv"]] = up[p].tag
  <1>0. /\ up[p] \in Swap!Process /\ p \in DOMAIN up /\ DOMAIN name = Swap!Names
        /\ p # NoFile /\ NoFile \notin Swap!Inodes /\ p \in Swap!Inodes
        /\ up[p].exe \in Swap!Inodes /\ up[p].exe # NoFile /\ up[p].tag \in Versions
        /\ DOMAIN data = Swap!Inodes
    BY SwapAssumption DEF Swap!UpgradeInv, Swap!TypeOK, Swap!UpgradeAssumption, Swap!Inodes,
         Swap!Process
  <1>1. Swap!Names = {"penv", "penv.new", "penv.old"}
    BY DEF Swap!Names
  <1>2. /\ alone
        /\ Swap!At(p, "idle") => Swap!Running = {}
        /\ ~Swap!At(p, "idle") => Swap!HasFolder(p)
    BY SwapAlone
  <1>3. \A m, n \in Swap!Names : name[m] = name[n] /\ name[m] # NoFile => m = n
    BY DEF Swap!UpgradeInv, Swap!OneName
  <1>4. name["penv"] # NoFile => data[name["penv"]] \in Versions
    BY <1>2 DEF Swap!UpgradeInv, Swap!Undisturbed
  <1> DEFINE Away == {"landing", "restore", "lost", "died"}
  <1> DEFINE Goal == /\ up'[p].pc \notin {"idle"} \cup Swap!Ended => Swap!HasFolder(p)'
                     /\ name'["penv"] # NoFile => data'[name'["penv"]] \in Versions
                     /\ name'["penv"] = NoFile => up'[p].pc \in Away
                     /\ ~Swap!At(p, "kept") /\ up'[p].pc = "kept" => name'["penv"] = up[p].exe
                     /\ ~Swap!At(p, "done") /\ up'[p].pc = "done" =>
                          data'[name'["penv"]] = up[p].tag
  <1> SUFFICES Goal
    OBVIOUS
  <1>5. CASE Swap!Start(p)
    <2>1. /\ up'[p].pc = "release" /\ up'[p].exe = name["penv"] /\ name["penv"] # NoFile
          /\ data' = data /\ data[name["penv"]] \in Versions
      BY <1>0, <1>5 DEF Swap!Start, Swap!Process
    <2>2. name' = name \/ name' = [name EXCEPT !["penv.old"] = NoFile]
      BY <1>5, RemovesEither DEF Swap!Start
    <2>3. name'["penv"] = name["penv"]
      BY <1>0, <1>1, <2>2
    <2> QED
      BY <1>5, <2>1, <2>3 DEF Swap!HasFolder, Swap!Start, Swap!At
  <1>6. CASE Swap!ReadRelease(p)
    <2>1. /\ Swap!At(p, "release") /\ UNCHANGED <<name, data>>
          /\ up'[p].pc \in {"fetch", "current", "refused"} /\ up'[p].exe = up[p].exe
      BY <1>6, SwapReads DEF Swap!ReadRelease, Swap!UpgradeInv
    <2> QED
      BY <1>0, <1>2, <1>4, <2>1 DEF Swap!HasFolder, Swap!At, Swap!Ended
  <1>7. CASE Swap!Download(p)
    <2>1. /\ Swap!At(p, "fetch") /\ UNCHANGED <<name, data>>
          /\ up'[p].pc \in {"stage", "refused"} /\ up'[p].exe = up[p].exe
      <3>1. PICK sums \in Swap!Served, binary \in Swap!Binary :
              up' = [up EXCEPT ![p].binary = binary,
                ![p].pc = IF Swap!Checked(up[p].tag, sums, binary) THEN "stage" ELSE "refused"]
        BY <1>7 DEF Swap!Download
      <3>2. Swap!At(p, "fetch") /\ UNCHANGED <<name, data>>
        BY <1>7 DEF Swap!Download
      <3>3. up'[p].pc \in {"stage", "refused"} /\ up'[p].exe = up[p].exe
        BY <1>0, <3>1 DEF Swap!Process
      <3> QED
        BY <3>2, <3>3
    <2>2. /\ up[p].pc = "fetch" /\ name["penv"] = up[p].exe /\ data[up[p].exe] \in Versions
      BY <1>2, <2>1 DEF Swap!HasFolder, Swap!At
    <2> QED
      BY <1>0, <2>1, <2>2 DEF Swap!HasFolder, Swap!At, Swap!Ended
  <1>8. CASE Swap!OpenStaged(p)
    <2>1. Swap!At(p, "stage") /\ name["penv"] = up[p].exe /\ data[up[p].exe] \in Versions
      BY <1>2, <1>8 DEF Swap!OpenStaged, Swap!HasFolder, Swap!At
    <2>2. CASE UNCHANGED <<name, data>> /\ Swap!Goes(p, "kept")
      <3>1. up'[p].pc = "kept"
        BY <1>0, <2>2 DEF Swap!Goes, Swap!Process
      <3> QED
        BY <1>0, <2>1, <2>2, <3>1 DEF Swap!Ended, Swap!At
    <2>3. CASE ~(UNCHANGED <<name, data>> /\ Swap!Goes(p, "kept"))
      <3>1. PICK i \in Swap!Inodes :
              /\ i = IF name["penv.new"] = NoFile THEN p ELSE name["penv.new"]
              /\ name' = [name EXCEPT !["penv.new"] = i]
              /\ data' = [data EXCEPT ![i] = Torn]
              /\ up' = [up EXCEPT ![p].pc = "writing", ![p].fd = i]
        BY <1>0, <1>1, <1>8, <2>3 DEF Swap!OpenStaged, Swap!UpgradeInv, Swap!TypeOK
      <3>2. i # name["penv"] /\ i # NoFile
        BY <1>0, <1>1, <1>3, <2>1, <3>1 DEF Swap!UpgradeInv, Swap!OneName, Swap!At
      <3>3. /\ up'[p].pc = "writing" /\ up'[p].fd = i /\ up'[p].exe = up[p].exe
            /\ name'["penv"] = name["penv"] /\ name'["penv.new"] = i
            /\ data'[name["penv"]] = data[name["penv"]]
        BY <1>0, <1>1, <2>1, <3>1, <3>2 DEF Swap!Process
      <3> QED
        BY <1>0, <2>1, <3>2, <3>3 DEF Swap!HasFolder, Swap!Ended, Swap!At
    <2> QED
      BY <2>2, <2>3
  <1>9. CASE Swap!WriteStaged(p)
    <2>1. /\ Swap!At(p, "writing") /\ name["penv"] = up[p].exe /\ data[up[p].exe] \in Versions
          /\ name["penv.new"] = up[p].fd /\ up[p].fd # NoFile /\ up[p].fd \in Swap!Inodes
      BY <1>0, <1>2, <1>9 DEF Swap!WriteStaged, Swap!HasFolder, Swap!At, Swap!Process
    <2>2. \A q \in Upgrades \ {p} : up[q].fd # up[p].fd
      <3> SUFFICES ASSUME NEW q \in Upgrades, q # p, up[q].fd = up[p].fd PROVE FALSE
        OBVIOUS
      <3>1. up[q].pc = "writing"
        BY <2>1 DEF Swap!UpgradeInv, Swap!Opened
      <3>2. q \in Swap!Running
        BY <3>1 DEF Swap!Running, Swap!Ended
      <3> QED
        BY <3>2, SwapAlone
    <2>3. up[p].fd # name["penv"] /\ up[p].binary = up[p].tag
      BY <1>1, <1>3, <2>1 DEF Swap!UpgradeInv, Swap!Verified, Swap!At
    <2>4. name' = name /\ up'[p].exe = up[p].exe /\ up'[p].tag = up[p].tag
      BY <1>0, <1>9 DEF Swap!WriteStaged, Swap!Process
    <2>5. \/ data' = [data EXCEPT ![up[p].fd] = up[p].tag] /\ up'[p].pc = "swap"
          \/ data' = data /\ up'[p].pc = "kept"
      BY <1>0, <1>9, <2>2, <2>3 DEF Swap!WriteStaged, Swap!Process
    <2>6. data'[name["penv"]] = data[name["penv"]]
      BY <1>0, <2>1, <2>3, <2>5
    <2>7. up'[p].pc = "swap" => data'[name["penv.new"]] = up[p].tag
      BY <1>0, <2>1, <2>5
    <2> QED
      BY <1>0, <2>1, <2>4, <2>5, <2>6, <2>7 DEF Swap!HasFolder, Swap!Ended, Swap!At
  <1>10. CASE Swap!SwapUnix(p)
    <2>1. /\ Swap!At(p, "swap") /\ name["penv"] = up[p].exe /\ data[up[p].exe] \in Versions
          /\ name["penv.new"] # NoFile => data[name["penv.new"]] = up[p].tag
          /\ data' = data
      BY <1>2, <1>10 DEF Swap!SwapUnix, Swap!HasFolder, Swap!At
    <2> DEFINE there == [name EXCEPT !["penv"] = name["penv.new"], !["penv.new"] = NoFile]
    <2>2. \/ /\ name["penv.new"] # NoFile /\ Swap!Goes(p, "done")
             /\ name' = there \/ name' = [there EXCEPT !["penv.old"] = NoFile]
          \/ /\ Swap!Goes(p, "kept")
             /\ name' = name \/ name' = [name EXCEPT !["penv.new"] = NoFile]
      BY <1>10, RemovesEither DEF Swap!SwapUnix
    <2>3. CASE /\ name["penv.new"] # NoFile /\ Swap!Goes(p, "done")
               /\ name' = there \/ name' = [there EXCEPT !["penv.old"] = NoFile]
      <3>1. name'["penv"] = name["penv.new"] /\ up'[p].pc = "done"
        BY <1>0, <1>1, <2>3 DEF Swap!Goes, Swap!Process
      <3> QED
        BY <1>0, <2>1, <2>3, <3>1 DEF Swap!Ended, Swap!At
    <2>4. CASE /\ Swap!Goes(p, "kept")
               /\ name' = name \/ name' = [name EXCEPT !["penv.new"] = NoFile]
      <3>1. name'["penv"] = name["penv"] /\ up'[p].pc = "kept"
        BY <1>0, <1>1, <2>4 DEF Swap!Goes, Swap!Process
      <3> QED
        BY <1>0, <2>1, <3>1 DEF Swap!Ended, Swap!At
    <2> QED
      BY <2>2, <2>3, <2>4
  <1>11. CASE Swap!Retire(p)
    <2>1. /\ Swap!At(p, "swap") /\ name["penv"] = up[p].exe /\ data[up[p].exe] \in Versions
          /\ name["penv.new"] # NoFile => data[name["penv.new"]] = up[p].tag
          /\ data' = data
      BY <1>2, <1>11 DEF Swap!Retire, Swap!HasFolder, Swap!At
    <2>2. PICK there :
            /\ there = name \/ there = [name EXCEPT !["penv.old"] = NoFile]
            /\ \/ /\ name' = [there EXCEPT !["penv.old"] = there["penv"], !["penv"] = NoFile]
                  /\ Swap!Goes(p, "landing")
               \/ /\ name' = there \/ name' = [there EXCEPT !["penv.new"] = NoFile]
                  /\ Swap!Goes(p, "kept")
      BY <1>11, RemovesEither DEF Swap!Retire
    <2>3. there["penv"] = up[p].exe /\ there["penv.new"] = name["penv.new"] /\ DOMAIN there = Swap!Names
      BY <1>0, <1>1, <2>1, <2>2
    <2>4. CASE /\ name' = [there EXCEPT !["penv.old"] = there["penv"], !["penv"] = NoFile]
               /\ Swap!Goes(p, "landing")
      <3>1. /\ name'["penv"] = NoFile /\ name'["penv.old"] = up[p].exe
            /\ name'["penv.new"] = name["penv.new"] /\ up'[p].pc = "landing"
            /\ up'[p].exe = up[p].exe /\ up'[p].tag = up[p].tag
        BY <1>0, <1>1, <2>3, <2>4 DEF Swap!Goes, Swap!Process
      <3> QED
        BY <1>0, <2>1, <3>1 DEF Swap!HasFolder, Swap!At
    <2>5. CASE /\ name' = there \/ name' = [there EXCEPT !["penv.new"] = NoFile]
               /\ Swap!Goes(p, "kept")
      <3>1. name'["penv"] = name["penv"] /\ up'[p].pc = "kept"
        BY <1>0, <1>1, <2>1, <2>3, <2>5 DEF Swap!Goes, Swap!Process
      <3> QED
        BY <1>0, <2>1, <3>1 DEF Swap!Ended, Swap!At
    <2> QED
      BY <2>2, <2>4, <2>5
  <1>12. CASE Swap!Land(p)
    <2>1. /\ Swap!At(p, "landing") /\ name["penv"] = NoFile /\ name["penv.old"] = up[p].exe
          /\ data[up[p].exe] \in Versions /\ data' = data
          /\ name["penv.new"] # NoFile => data[name["penv.new"]] = up[p].tag
      BY <1>2, <1>12 DEF Swap!Land, Swap!HasFolder, Swap!At
    <2>2. \/ /\ name["penv.new"] # NoFile /\ Swap!Goes(p, "done")
             /\ name' = [name EXCEPT !["penv"] = name["penv.new"], !["penv.new"] = NoFile]
          \/ /\ Swap!Goes(p, "restore")
             /\ name' = name \/ name' = [name EXCEPT !["penv.new"] = NoFile]
      BY <1>12, RemovesEither DEF Swap!Land, Swap!Rename
    <2>3. CASE /\ name["penv.new"] # NoFile /\ Swap!Goes(p, "done")
               /\ name' = [name EXCEPT !["penv"] = name["penv.new"], !["penv.new"] = NoFile]
      <3>1. name'["penv"] = name["penv.new"] /\ up'[p].pc = "done"
        BY <1>0, <1>1, <2>3 DEF Swap!Goes, Swap!Process
      <3> QED
        BY <1>0, <2>1, <2>3, <3>1 DEF Swap!Ended, Swap!At
    <2>4. CASE /\ Swap!Goes(p, "restore")
               /\ name' = name \/ name' = [name EXCEPT !["penv.new"] = NoFile]
      <3>1. /\ name'["penv"] = NoFile /\ name'["penv.old"] = up[p].exe
            /\ up'[p].pc = "restore" /\ up'[p].exe = up[p].exe
        BY <1>0, <1>1, <2>1, <2>4 DEF Swap!Goes, Swap!Process
      <3> QED
        BY <1>0, <2>1, <3>1 DEF Swap!HasFolder, Swap!At
    <2> QED
      BY <2>2, <2>3, <2>4
  <1>13. CASE Swap!Restore(p)
    <2>1. /\ Swap!At(p, "restore") /\ name["penv"] = NoFile /\ name["penv.old"] = up[p].exe
          /\ data[up[p].exe] \in Versions /\ data' = data
      BY <1>2, <1>13 DEF Swap!Restore, Swap!HasFolder, Swap!At
    <2>2. \/ /\ Swap!Goes(p, "kept")
             /\ name' = [name EXCEPT !["penv"] = name["penv.old"], !["penv.old"] = NoFile]
          \/ Swap!Goes(p, "lost") /\ name' = name
      BY <1>13 DEF Swap!Restore, Swap!Rename
    <2>3. \/ up'[p].pc = "kept" /\ name'["penv"] = up[p].exe
          \/ up'[p].pc = "lost" /\ name'["penv"] = NoFile
      BY <1>0, <1>1, <2>1, <2>2 DEF Swap!Goes, Swap!Process
    <2> QED
      BY <1>0, <2>1, <2>3 DEF Swap!Ended, Swap!At
  <1>14. CASE Swap!Die(p)
    <2>1. up'[p].pc = "died" /\ UNCHANGED <<name, data>>
      BY <1>0, <1>14 DEF Swap!Die, Swap!Process
    <2> QED
      BY <1>4, <2>1 DEF Swap!Ended
  <1> HIDE DEF Goal
  <1> QED
    BY <1>5, <1>6, <1>7, <1>8, <1>9, <1>10, <1>11, <1>12, <1>13, <1>14 DEF Swap!Step

\* Every step of an upgrade keeps the invariant, and a version kept is kept.
LEMMA SwapNext ==
  ASSUME Swap!UpgradeInv, [Swap!Next]_swapVars
  PROVE  Swap!UpgradeInv' /\ Swap!KeptStep
  <1>1. CASE UNCHANGED swapVars
    <2>1. Swap!UpgradeInv'
      BY <1>1 DEF swapVars, Swap!UpgradeInv, Swap!TypeOK, Swap!Verified, Swap!Picked,
           Swap!OneName, Swap!Opened, Swap!Retired, Swap!Undisturbed, Swap!Running,
           Swap!HasFolder
    <2>2. Swap!KeptStep
      BY <1>1 DEF swapVars, Swap!KeptStep, Swap!At
    <2> QED
      BY <2>1, <2>2
  <1>2. CASE Swap!Next
    <2>1. PICK p \in Upgrades : Swap!Step(p)
      BY <1>2 DEF Swap!Next
    <2>0. Swap!TypeOK /\ \A q \in Upgrades : q # p => up'[q] = up[q]
      BY <2>1, SwapOthers DEF Swap!UpgradeInv
    <2>2. /\ Swap!TypeOK' /\ Swap!Verified' /\ Swap!Picked' /\ Swap!OneName'
          /\ Swap!Opened' /\ Swap!Retired'
      BY <2>1, SwapTypes, SwapVerified, SwapPicked, SwapOneName, SwapOpened, SwapRetired
         DEF Swap!UpgradeInv
    <2>3. Swap!Undisturbed'
      <3> SUFFICES ASSUME alone' PROVE Swap!Undisturbed'
        BY DEF Swap!Undisturbed
      <3>1. \A q \in Swap!Running' : q = p
        BY <2>1, SwapAlone DEF Swap!Running
      <3>2. \A q \in Swap!Running' : Swap!HasFolder(q)'
        BY <2>1, <3>1, SwapFolder DEF Swap!Running, Swap!Ended
      <3> QED
        BY <2>1, <3>1, <3>2, SwapFolder DEF Swap!Undisturbed
    <2>4. Swap!KeptStep
      BY <2>0, <2>1, SwapFolder DEF Swap!KeptStep, Swap!At
    <2> QED
      BY <2>2, <2>3, <2>4 DEF Swap!UpgradeInv
  <1> QED
    BY <1>1, <1>2

\* The invariant is more than what the upgrades promise.
LEMMA SwapHolds == Swap!UpgradeInv => Swap!SignedAndPicked /\ Swap!PenvStays
  <1> SUFFICES ASSUME Swap!UpgradeInv PROVE Swap!SignedAndPicked /\ Swap!PenvStays
    OBVIOUS
  <1>1. Swap!SignedAndPicked
    BY DEF Swap!UpgradeInv, Swap!Picked, Swap!SignedAndPicked
  <1>2. Swap!PenvStays
    BY DEF Swap!UpgradeInv, Swap!TypeOK, Swap!Retired, Swap!Undisturbed, Swap!PenvStays,
         Swap!Installed
  <1> QED
    BY <1>1, <1>2

-----------------------------------------------------------------------------
(* TargetFile.                                                             *)

\* Numbers, where there are any, have a least.
LEMMA Least == ASSUME NEW S \in SUBSET Nat, S # {} PROVE \E m \in S : \A n \in S : m <= n
  <1>1. PICK m \in S : \A n \in S : ~ (<<n, m>> \in OpToRel(<, Nat))
    BY WFMin, NatLessThanWellFounded
  <1>2. \A n \in S : ~ (n < m)
    BY <1>1 DEF OpToRel
  <1> QED
    BY <1>2

\* A path is walked name by name.
LEMMA Walked ==
  ASSUME NEW path, Len(path) \in Nat
  PROVE  /\ Target!Walk(path)[0] = [ok |-> TRUE, path |-> <<>>]
         /\ \A i \in 1 .. Len(path) :
              Target!Walk(path)[i] = Target!Enter(Target!Walk(path)[i - 1], path[i])
  <1> DEFINE Start == [ok |-> TRUE, path |-> <<>>]
             IsWalk(w, n) == w = [i \in 0 .. n |-> IF i = 0 THEN Start
                                                   ELSE Target!Enter(w[i - 1], path[i])]
             Bad == {n \in Nat : \A w : ~IsWalk(w, n)}
  <1>1. CASE Bad = {}
    <2>1. \E w : IsWalk(w, Len(path))
      BY <1>1
    <2>2. IsWalk(CHOOSE w : IsWalk(w, Len(path)), Len(path))
      BY <2>1
    <2>3. Target!Walk(path) = CHOOSE w : IsWalk(w, Len(path))
      BY DEF Target!Walk
    <2>4. IsWalk(Target!Walk(path), Len(path))
      BY <2>2, <2>3
    <2> DEFINE walk == Target!Walk(path)
    <2>5. walk = [i \in 0 .. Len(path) |-> IF i = 0 THEN Start
                                           ELSE Target!Enter(walk[i - 1], path[i])]
      BY <2>4
    <2> HIDE DEF walk
    <2>6. /\ walk[0] = Start
          /\ \A i \in 1 .. Len(path) : walk[i] = Target!Enter(walk[i - 1], path[i])
      <3>1. 0 \in 0 .. Len(path)
        OBVIOUS
      <3>2. walk[0] = Start
        BY <2>5, <3>1
      <3>3. ASSUME NEW i \in 1 .. Len(path)
            PROVE  walk[i] = Target!Enter(walk[i - 1], path[i])
        <4>1. i \in 0 .. Len(path) /\ i # 0
          OBVIOUS
        <4> HIDE DEF Start
        <4> QED
          BY <2>5, <4>1
      <3> QED
        BY <3>2, <3>3
    <2> QED
      BY <2>6 DEF walk
  <1>2. CASE Bad # {}
    <2>1. PICK n \in Bad : \A m \in Bad : n <= m
      BY <1>2, Least
    <2>2. n # 0
      <3>1. IsWalk([i \in 0 .. 0 |-> Start], 0)
        OBVIOUS
      <3> QED
        BY <2>1, <3>1
    <2>3. PICK w : IsWalk(w, n - 1)
      BY <2>1, <2>2
    <2> DEFINE v == [i \in 0 .. n |-> IF i = n THEN Target!Enter(w[n - 1], path[n]) ELSE w[i]]
               u == [i \in 0 .. n |-> IF i = 0 THEN Start ELSE Target!Enter(v[i - 1], path[i])]
    <2>4. ASSUME NEW i \in 0 .. n PROVE v[i] = u[i]
      <3>1. CASE i = 0
        BY <2>1, <2>2, <2>3, <3>1
      <3>2. CASE i = n
        BY <2>1, <2>2, <3>2
      <3>3. CASE i # 0 /\ i # n
        <4>1. i \in 0 .. (n - 1) /\ i - 1 \in 0 .. n /\ i - 1 # n
          BY <2>1, <2>2, <3>3
        <4>2. v[i] = w[i] /\ v[i - 1] = w[i - 1]
          BY <3>3, <4>1
        <4> QED
          BY <2>3, <3>3, <4>1, <4>2
      <3> QED
        BY <3>1, <3>2, <3>3
    <2>5. v = u
      BY <2>4
    <2> HIDE DEF v
    <2>6. IsWalk(v, n)
      BY <2>5
    <2> QED
      BY <2>1, <2>6
  <1> QED
    BY <1>1, <1>2

\* Wherever a path is walked from inside, no `.` and no `..` is kept.
LEMMA WalkedPlain ==
  ASSUME NEW S, NEW path \in Seq(S)
  PROVE  \A i \in 0 .. Len(path) :
           /\ Target!Walk(path)[i] \in [ok : BOOLEAN, path : Seq(S \ {".", ".."})]
  <1> DEFINE walk == Target!Walk(path)
             T == [ok : BOOLEAN, path : Seq(S \ {".", ".."})]
             Bad == {i \in 0 .. Len(path) : walk[i] \notin T}
  <1>1. /\ walk[0] = [ok |-> TRUE, path |-> <<>>]
        /\ \A i \in 1 .. Len(path) : walk[i] = Target!Enter(walk[i - 1], path[i])
    BY Walked
  <1> HIDE DEF walk
  <1>2. walk[0] \in T
    BY <1>1
  <1>3. ASSUME Bad # {} PROVE FALSE
    <2>0. Bad \in SUBSET Nat
      OBVIOUS
    <2>1. PICK n \in Bad : \A m \in Bad : n <= m
      <3> HIDE DEF Bad
      <3> QED
        BY <1>3, <2>0, Least
    <2>2. n \in 1 .. Len(path) /\ n - 1 \in 0 .. Len(path)
      BY <1>2, <2>1
    <2>3. walk[n - 1] \in T
      BY <2>1, <2>2
    <2> DEFINE here == walk[n - 1]
    <2>4. path[n] \in S /\ here \in T
      BY <2>2, <2>3
    <2> HIDE DEF here
    <2>5. Target!Enter(here, path[n]) \in T
      <3>1. CASE path[n] = "." \/ ~here.ok
        BY <2>4, <3>1 DEF Target!Enter
      <3>2. CASE ~(path[n] = "." \/ ~here.ok) /\ path[n] # ".."
        <4>1. Append(here.path, path[n]) \in Seq(S \ {".", ".."})
          BY <2>4, <3>2
        <4> QED
          BY <2>4, <3>2, <4>1 DEF Target!Enter
      <3>3. CASE ~(path[n] = "." \/ ~here.ok) /\ path[n] = ".." /\ here.path = <<>>
        BY <2>4, <3>3 DEF Target!Enter
      <3>4. CASE ~(path[n] = "." \/ ~here.ok) /\ path[n] = ".." /\ here.path # <<>>
        <4>1. Target!Front(here.path) \in Seq(S \ {".", ".."})
          BY <2>4, <3>4 DEF Target!Front
        <4> QED
          BY <2>4, <3>4, <4>1 DEF Target!Enter
      <3> QED
        BY <3>1, <3>2, <3>3, <3>4
    <2> QED
      BY <1>1, <2>1, <2>2, <2>5 DEF here
  <1> QED
    BY <1>3 DEF walk

\* What is left of a path inside the folder has no dots in it.
LEMMA InsidePlain ==
  ASSUME NEW S, NEW path \in Seq(S) PROVE Target!Inside(path) \in Seq(S \ {".", ".."})
  <1>1. Target!Walk(path)[Len(path)] \in [ok : BOOLEAN, path : Seq(S \ {".", ".."})]
    <2>1. Len(path) \in 0 .. Len(path)
      OBVIOUS
    <2> QED
      BY <2>1, WalkedPlain
  <1>2. <<>> \in Seq(S \ {".", ".."})
    OBVIOUS
  <1> DEFINE end == Target!Walk(path)[Len(path)]
  <1>3. end.path \in Seq(S \ {".", ".."})
    BY <1>1
  <1> QED
    BY <1>2, <1>3 DEF Target!Inside

\* A path in which there is none stays as it is.
LEMMA PlainStays ==
  ASSUME NEW S, NEW path \in Seq(S \ {".", ".."}) PROVE Target!Inside(path) = path
  <1> DEFINE walk == Target!Walk(path)
             Right(i) == walk[i] = [ok |-> TRUE, path |-> SubSeq(path, 1, i)]
             Bad == {i \in 0 .. Len(path) : ~Right(i)}
  <1>1. /\ walk[0] = [ok |-> TRUE, path |-> <<>>]
        /\ \A i \in 1 .. Len(path) : walk[i] = Target!Enter(walk[i - 1], path[i])
    BY Walked
  <1> HIDE DEF walk
  <1>2. Right(0)
    <2>1. SubSeq(path, 1, 0) = <<>>
      OBVIOUS
    <2> QED
      BY <1>1, <2>1
  <1>3. ASSUME Bad # {} PROVE FALSE
    <2>0. Bad \in SUBSET Nat
      OBVIOUS
    <2>1. PICK n \in Bad : \A m \in Bad : n <= m
      <3> HIDE DEF Bad
      <3> QED
        BY <1>3, <2>0, Least
    <2>2. n \in 1 .. Len(path) /\ n - 1 \in 0 .. Len(path)
      <3>1. n \in 0 .. Len(path) /\ ~Right(n)
        BY <2>1
      <3> HIDE DEF Right
      <3> QED
        BY <1>2, <3>1
    <2>3. Right(n - 1)
      BY <2>1, <2>2
    <2>4. path[n] # "." /\ path[n] # ".."
      BY <2>2
    <2>5. Append(SubSeq(path, 1, n - 1), path[n]) = SubSeq(path, 1, n)
      BY <2>2
    <2>6. Right(n)
      <3>1. walk[n] = Target!Enter([ok |-> TRUE, path |-> SubSeq(path, 1, n - 1)], path[n])
        BY <1>1, <2>2, <2>3
      <3> QED
        BY <2>4, <2>5, <3>1 DEF Target!Enter
    <2> QED
      BY <2>1, <2>6
  <1>4. Right(Len(path))
    <2>1. \A i \in 0 .. Len(path) : Right(i)
      BY <1>3
    <2>2. Len(path) \in 0 .. Len(path)
      OBVIOUS
    <2> HIDE DEF Right
    <2> QED
      BY <2>1, <2>2
  <1>5. SubSeq(path, 1, Len(path)) = path
    OBVIOUS
  <1> QED
    BY <1>4, <1>5 DEF Target!Inside, walk

\* Keeping a path inside the folder a second time changes nothing.
LEMMA InsideStays ==
  ASSUME NEW S, NEW path \in Seq(S)
  PROVE  Target!Inside(path) \in Seq(S) /\ Target!Inside(Target!Inside(path)) = Target!Inside(path)
  <1>1. Target!Inside(path) \in Seq(S \ {".", ".."})
    BY InsidePlain
  <1>2. Target!Inside(path) \in Seq(S)
    BY <1>1
  <1> QED
    BY <1>1, <1>2, PlainStays

-----------------------------------------------------------------------------
\* One layer laid over another is a layer.
LEMMA OverIs ==
  ASSUME NEW a \in Target!LayerIs,
         NEW b \in Target!LayerIs
  PROVE  Target!Over(a, b) \in
           Target!LayerIs
  BY DEF Target!Over, Target!LayerIs

\* A layer that says nothing leaves what is below it.
LEMMA NoLayerIs ==
  /\ ~Target!NoLayer.there /\ Target!NoLayer.output = <<>>
  /\ Target!NoLayer.option = Target!None /\ Target!NoLayer.other = Target!None
  /\ Target!NoLayer \in Target!LayerSays
  <1>1. Target!None \in Target!Words /\ <<>> \in Seq(Target!Words)
    BY DEF Target!Words
  <1>2. Target!Empty =
          [there |-> TRUE, output |-> <<>>, option |-> Target!None, other |-> Target!None]
    BY DEF Target!Empty, Target!Layer
  <1>3. Target!Empty \in Target!LayerIs
    BY <1>1, <1>2 DEF Target!LayerIs
  <1>4. Target!NoLayer = [Target!Empty EXCEPT !.there = FALSE]
    BY DEF Target!NoLayer
  <1>5. Target!NoLayer \in Target!LayerIs
    BY <1>3, <1>4 DEF Target!LayerIs
  <1>6. /\ ~Target!NoLayer.there /\ Target!NoLayer.output = <<>>
        /\ Target!NoLayer.option = Target!None /\ Target!NoLayer.other = Target!None
    BY <1>2, <1>3, <1>4 DEF Target!LayerIs
  <1> QED
    BY <1>5, <1>6 DEF Target!LayerSays

\* The repository's layer is a layer, with the fields that are not moved.
LEMMA RepoLayerIs ==
  ASSUME NEW f \in Target!FolderHolds
  PROVE  /\ Target!RepoLayer(f) \in
              Target!LayerIs
         /\ Target!RepoLayer(f).other = Target!Over(f.fields, f.old).other
  <1> DEFINE Says == Target!LayerIs
             over == [f.fields EXCEPT !.there = TRUE]
  <1> USE DEF Target!LayerIs
  <1>1. f.fields \in Says /\ f.old \in Says /\ over \in Says
    BY DEF Target!FolderHolds, Target!LayerSays
  <1>2. CASE f.fields.there \/ f.template # Target!None
    <2>1. Target!RepoLayer(f) = Target!Over(over, f.old)
      BY <1>2 DEF Target!RepoLayer
    <2>2. Target!Over(over, f.old).other = Target!Over(f.fields, f.old).other
      BY <1>1 DEF Target!Over
    <2> QED
      BY <1>1, <2>1, <2>2, OverIs
  <1>3. CASE ~(f.fields.there \/ f.template # Target!None)
    <2>1. Target!RepoLayer(f) = f.old
      BY <1>3 DEF Target!RepoLayer
    <2>2. f.fields = Target!NoLayer
      BY <1>3 DEF Target!FolderHolds, Target!LayerSays
    <2>3. Target!Over(f.fields, f.old).other = f.old.other
      BY <2>2, NoLayerIs DEF Target!Over
    <2> QED
      BY <1>1, <2>1, <2>3
  <1> QED
    BY <1>2, <1>3

\* What is loaded is a target, and its option is one of the values a rule may give.
LEMMA LoadIs ==
  ASSUME NEW w, Target!Around(w), NEW f \in Target!FolderHolds
  PROVE  /\ Target!Load(w, f) \in Target!TargetIs
         /\ Target!Load(w, f).ok => Target!Load(w, f).option \in TargetValues \cup {Target!None}
         /\ Target!Load(w, f).ok /\ Target!Load(w, f).from = "repo" =>
              Target!RepoLayer(f).output # <<>>
  <1> DEFINE Says == Target!LayerIs
             repo == Target!RepoLayer(f)
             all == Target!Over(repo, Target!Over(w.home, w.builtIn))
  <1> USE DEF Target!LayerIs
  <1>1. repo \in Says /\ w.home \in Says /\ w.builtIn \in Says
    BY RepoLayerIs DEF Target!Around, Target!LayerSays
  <1>2. all \in Says
    BY <1>1, OverIs
  <1>3. Target!Template(w, f) \in Target!Words
    BY DEF Target!Template, Target!RepoTemplate, Target!Around, Target!FolderHolds
  <1>4. Target!NoTarget \in Target!TargetIs /\ ~Target!NoTarget.ok
    <2>1. Target!None \in Target!Words /\ <<>> \in Seq(Target!Words)
      BY DEF Target!Words
    <2> QED
      BY <2>1 DEF Target!NoTarget, Target!TargetIs
  <1> DEFINE loaded == [ok |-> TRUE, output |-> all.output,
                        from |-> IF repo.output # <<>> THEN "repo" ELSE "elsewhere",
                        option |-> all.option, other |-> all.other,
                        template |-> Target!Template(w, f)]
  <1>5. \/ Target!Load(w, f) = Target!NoTarget
        \/ Target!Load(w, f) = loaded /\ all.option \in TargetValues \cup {Target!None}
    BY DEF Target!Load
  <1>6. loaded \in Target!TargetIs
    <2>1. "repo" \in Target!Words /\ "elsewhere" \in Target!Words
      BY DEF Target!Words
    <2>2. (IF repo.output # <<>> THEN "repo" ELSE "elsewhere") \in Target!Words
      BY <2>1
    <2> HIDE DEF all, repo
    <2> QED
      BY <1>2, <1>3, <2>2 DEF Target!TargetIs
  <1>7. loaded.ok /\ loaded.option = all.option /\ (loaded.from = "repo" => repo.output # <<>>)
    OBVIOUS
  <1> HIDE DEF loaded, all, repo
  <1>8. CASE Target!Load(w, f) = Target!NoTarget
    BY <1>4, <1>8
  <1>9. CASE Target!Load(w, f) = loaded /\ all.option \in TargetValues \cup {Target!None}
    BY <1>6, <1>7, <1>9 DEF repo
  <1> QED
    BY <1>5, <1>8, <1>9

\* Where a section says where the file goes and which value its knob has, the target loads.
LEMMA SavedLoads ==
  ASSUME NEW w, Target!Around(w), NEW f \in Target!FolderHolds, Target!Load(w, f).ok,
         NEW path \in Seq(Target!Words), path # <<>>, NEW v \in TargetValues,
         NEW g \in Target!FolderHolds,
         g = [f EXCEPT !.fields = Target!Answer(f, path, v)]
  PROVE  Target!Load(w, g) =
           [ok |-> TRUE, output |-> path, from |-> "repo", option |-> v,
            other |-> Target!Load(w, f).other, template |-> Target!Load(w, f).template]
  <1> DEFINE Says == Target!LayerIs
             below == Target!Over(w.home, w.builtIn)
             repo == Target!RepoLayer(f)
             saved == Target!RepoLayer(g)
  <1> USE DEF Target!LayerIs
  <1>0. v \in Target!Words /\ v # Target!None
    BY TargetAssumption DEF Target!TargetAssumption
  <1>1. f.fields \in Says /\ f.old \in Says /\ w.home \in Says /\ w.builtIn \in Says
    BY DEF Target!Around, Target!FolderHolds, Target!LayerSays
  <1>2. Target!Over(f.fields, f.old) \in Says /\ below \in Says
    BY <1>1, OverIs
  <1> DEFINE fields == Target!Answer(f, path, v)
  <1>3. /\ g.fields = fields /\ g.old = f.old /\ g.template = f.template
        /\ g.oldTemplate = f.oldTemplate
        /\ fields.there /\ fields.output = path /\ fields.option = v
        /\ fields.other = Target!Over(f.fields, f.old).other
        /\ fields \in Says
    BY <1>0, <1>2 DEF Target!FolderHolds, Target!Answer
  <1> HIDE DEF fields
  <1>4. repo \in Says /\ repo.other = Target!Over(f.fields, f.old).other
    BY RepoLayerIs
  <1>5. /\ saved.there /\ saved.output = path /\ saved.option = v
        /\ saved.other = Target!Over(fields, f.old).other
    <2> DEFINE over == [fields EXCEPT !.there = TRUE]
    <2>1. saved = Target!Over(over, f.old)
      BY <1>3 DEF Target!RepoLayer
    <2>2. over.there /\ over.output = path /\ over.option = v /\ over.other = fields.other
      BY <1>3
    <2> HIDE DEF over
    <2> QED
      BY <1>0, <1>3, <2>1, <2>2 DEF Target!Over
  <1>6. Target!Over(fields, f.old).other = Target!Over(f.fields, f.old).other
    BY <1>1, <1>3 DEF Target!Over
  <1>7. Target!Template(w, g) = Target!Template(w, f) /\ Target!RepoTemplate(g) = Target!RepoTemplate(f)
    BY <1>3 DEF Target!Template, Target!RepoTemplate
  <1> HIDE DEF below, repo, saved
  <1>8. /\ Target!Over(saved, below).there /\ Target!Over(saved, below).output = path
        /\ Target!Over(saved, below).option = v
        /\ Target!Over(saved, below).other = Target!Over(repo, below).other
    BY <1>0, <1>4, <1>5, <1>6 DEF Target!Over
  <1>9. /\ Target!Template(w, f) # Target!None
        /\ ~(~w.home.there /\ w.homeTemplate # Target!None)
        /\ Target!Load(w, f).other = Target!Over(repo, below).other
        /\ Target!Load(w, f).template = Target!Template(w, f)
    BY DEF Target!Load, Target!NoTarget, repo, below
  <1> DEFINE full == Target!Over(saved, below)
  <1>11. Target!Load(w, g) =
           IF \/ (~saved.there /\ Target!RepoTemplate(g) # Target!None)
                 \/ (~w.home.there /\ w.homeTemplate # Target!None)
              \/ ~full.there \/ Target!Template(w, g) = Target!None \/ full.output = <<>>
              \/ full.option \notin TargetValues \cup {Target!None}
           THEN Target!NoTarget
           ELSE [ok |-> TRUE, output |-> full.output,
                 from |-> IF saved.output # <<>> THEN "repo" ELSE "elsewhere",
                 option |-> full.option, other |-> full.other, template |-> Target!Template(w, g)]
    BY DEF Target!Load, saved, below
  <1> HIDE DEF full
  <1>12. full.there /\ full.output = path /\ full.option = v /\ full.other = Target!Over(repo, below).other
    BY <1>8 DEF full
  <1> QED
    BY <1>5, <1>7, <1>9, <1>11, <1>12

\* The target loads the same where its repository's layer and template are the same.
LEMMA SameLoads ==
  ASSUME NEW w, NEW u, NEW f, NEW g, u.home = w.home, u.builtIn = w.builtIn,
         u.homeTemplate = w.homeTemplate, u.builtTemplate = w.builtTemplate,
         Target!RepoLayer(g) = Target!RepoLayer(f), Target!RepoTemplate(g) = Target!RepoTemplate(f)
  PROVE  Target!Load(u, g) = Target!Load(w, f)
  BY DEF Target!Load, Target!Template

-----------------------------------------------------------------------------
\* What a knob is settled to is what it was, or a value of a rule.
LEMMA SettledIn ==
  ASSUME NEW w, NEW target, target.option \in TargetValues \cup {Target!None},
         NEW path, NEW asks \in BOOLEAN, NEW v \in Target!Settled(w, target, path, asks)
  PROVE  v \in TargetValues \cup {Target!None}
  <1> DEFINE package == Target!PackageOf(w, path)
             found == Target!Suggested(w, package, asks)
  <1>1. \A i \in DOMAIN TargetRules : i \in Nat /\ TargetRules[i].value \in TargetValues
    <2> DEFINE Rule == [fact : Target!Words, contains : BOOLEAN, value : TargetValues]
    <2>1. TargetRules \in Seq(Rule)
      BY TargetAssumption DEF Target!TargetAssumption
    <2>2. \A i \in DOMAIN TargetRules : i \in Nat /\ TargetRules[i] \in Rule
      <3> HIDE DEF Rule
      <3> QED
        BY <2>1
    <2> QED
      BY <2>2
  <1>2. found = Target!None \/ found \in TargetValues
    <2> DEFINE hits == {i \in DOMAIN TargetRules :
                          /\ package \in DOMAIN w.dirs /\ TargetRules[i].fact \in w.dirs[package]
                          /\ TargetRules[i].contains => asks}
               least == CHOOSE i \in hits : \A j \in hits : i <= j
    <2>1. found = IF hits = {} THEN Target!None ELSE TargetRules[least].value
      BY DEF Target!Suggested
    <2>2. hits \in SUBSET Nat /\ hits \subseteq DOMAIN TargetRules
      BY <1>1
    <2> HIDE DEF hits
    <2>3. hits # {} => least \in hits
      BY <2>2, Least
    <2> QED
      BY <1>1, <2>1, <2>2, <2>3
  <1> HIDE DEF found
  <1>3. \/ v \in {target.option} \cup {TargetRules[i].value : i \in DOMAIN TargetRules}
        \/ v = found /\ found # Target!None
    BY DEF Target!Settled, found, package
  <1> QED
    BY <1>1, <1>2, <1>3

\* The paths that are offered and given are paths.
LEMMA OfferedPaths ==
  ASSUME NEW w, Target!Around(w), NEW target \in Target!TargetIs,
         NEW path \in Target!Suggestions(w, target) \cup TargetGiven
  PROVE  path \in Seq(Target!Words)
  <1>1. target.output \in Seq(Target!Words)
    BY DEF Target!TargetIs
  <1>2. TargetGiven \subseteq Seq(Target!Words)
    BY TargetAssumption DEF Target!TargetAssumption
  <1>3. ASSUME NEW d \in Target!Candidates(w)
        PROVE  Target!OutputIn(w, target, d) \in Seq(Target!Words)
    <2>1. d \in Seq(Target!Words) /\ w.shaped[d] \in Target!Words
      BY <1>3 DEF Target!Candidates, Target!Around
    <2>2. <<w.shaped[d], "env">> \in Seq(Target!Words)
      BY <2>1 DEF Target!Words
    <2>3. \A a, b \in Seq(Target!Words) : a \o b \in Seq(Target!Words)
      OBVIOUS
    <2>4. Target!OutputIn(w, target, d) \in
            {d \o target.output, d \o <<w.shaped[d], "env">>}
      BY DEF Target!OutputIn
    <2> QED
      BY <1>1, <2>1, <2>2, <2>3, <2>4
  <1> QED
    BY <1>1, <1>2, <1>3 DEF Target!Suggestions

\* The first state of a target meets its invariant.
LEMMA TargetInit == Target!Init => Target!TargetInv
  <1> SUFFICES ASSUME Target!Init PROVE Target!TargetInv
    OBVIOUS
  <1>1. Target!NoTarget \in Target!TargetIs /\ ~Target!NoTarget.ok /\ <<>> \in Seq(Target!Words)
    BY DEF Target!NoTarget, Target!TargetIs, Target!Words
  <1>2. /\ Target!Around(around) /\ folder \in Target!FolderHolds
        /\ generating = [pc |-> "idle", path |-> <<>>, target |-> Target!NoTarget]
        /\ kept = Target!NoTarget /\ ~fresh
    BY TargetAssumption DEF Target!Init, Target!Idle, Target!TargetAssumption
  <1>3. Target!TypeOK
    BY <1>1, <1>2 DEF Target!TypeOK, Target!RunIs
  <1> QED
    BY <1>1, <1>2, <1>3 DEF Target!TargetInv, Target!Remembering, Target!Moving,
         Target!FreshIsKept, Target!AnswerStands

\* A file that was written is what was written.
LEMMA WroteIs ==
  ASSUME NEW before, NEW path, NEW text, NEW after,
         after = [p \in DOMAIN before \cup {path} |-> IF p = path THEN text ELSE before[p]]
  PROVE  path \in DOMAIN after /\ after[path] = text
  OBVIOUS

\* What an answer writes is the target as it loads, but for the knob it settled.
LEMMA TargetPut ==
  ASSUME Target!TargetInv, generating.pc = "idle",
         NEW target \in Target!TargetIs, target.ok, Target!Load(around, folder).ok,
         target.other = Target!Load(around, folder).other,
         target.template = Target!Load(around, folder).template,
         target.option \in TargetValues \cup {Target!None},
         NEW path \in Seq(Target!Words), path # <<>>, Target!Inside(path) = path,
         Target!Put(target, path)
  PROVE  Target!TargetInv' /\ Target!FieldsStep
  <1>0. /\ Target!TypeOK /\ Target!AnswerStands
        /\ said' = Target!None /\ fresh' = FALSE
        /\ around' = around /\ folder' = folder /\ kept' = kept
    BY DEF Target!Put, Target!TargetInv
  <1>1. \/ /\ generating' = [pc |-> "remember", path |-> path, target |-> target]
           /\ path \in DOMAIN files' /\ files'[path] = Target!Render(target)
        \/ generating' = generating
    <2>1. ASSUME NEW text, Target!Generated(path, text)
          PROVE  path \in DOMAIN files' /\ files'[path] = text
      <3>1. files' = [p \in DOMAIN files \cup {path} |-> IF p = path THEN text ELSE files[p]]
        BY <2>1 DEF Target!Generated
      <3> QED
        BY <3>1, WroteIs
    <2>2. \/ /\ Target!Generated(path, Target!Render(target))
             /\ generating' = [pc |-> "remember", path |-> path, target |-> target]
          \/ generating' = generating
      BY Zenon DEF Target!Put
    <2> QED
      BY <2>1, <2>2
  <1>2. Target!TypeOK'
    <2>1. [pc |-> "remember", path |-> path, target |-> target] \in Target!RunIs
      BY Zenon DEF Target!RunIs
    <2>2. generating' \in Target!RunIs
      BY <1>0, <1>1, <2>1 DEF Target!TypeOK
    <2> QED
      BY <1>0, <2>2 DEF Target!TypeOK
  <1>3. Target!Remembering'
    BY <1>0, <1>1 DEF Target!Remembering, Target!Render
  <1>4. Target!Moving' /\ Target!FreshIsKept'
    <2>1. generating'.pc = "remember" \/ generating'.pc = "idle"
      BY <1>1
    <2>2. generating'.pc \notin {"template", "drop template", "drop fields"}
      BY <2>1, Zenon
    <2> QED
      BY <1>0, <2>2, Zenon DEF Target!Moving, Target!FreshIsKept
  <1>5. Target!AnswerStands'
    BY <1>0 DEF Target!AnswerStands
  <1>6. Target!FieldsStep
    BY <1>0 DEF Target!FieldsStep
  <1> QED
    BY <1>2, <1>3, <1>4, <1>5, <1>6 DEF Target!TargetInv

\* A run that only says something leaves all the rest.
LEMMA TargetSays ==
  ASSUME Target!TargetInv, generating.pc = "idle", NEW what, Target!Says(what),
         fresh /\ what \in {"stale", "missing"} =>
           files[kept.output] = Target!Render([kept EXCEPT !.option = Target!None])
  PROVE  Target!TargetInv' /\ Target!FieldsStep
  <1>0. /\ said' = what /\ UNCHANGED <<around, folder, files, generating, kept, fresh>>
    BY DEF Target!Says
  <1>1. Target!TypeOK' /\ Target!Remembering' /\ Target!Moving' /\ Target!FreshIsKept'
    BY <1>0 DEF Target!TargetInv, Target!TypeOK, Target!Remembering, Target!Moving,
         Target!FreshIsKept
  <1>2. Target!AnswerStands'
    BY <1>0 DEF Target!TargetInv, Target!AnswerStands
  <1>3. Target!FieldsStep
    BY <1>0 DEF Target!FieldsStep
  <1> QED
    BY <1>1, <1>2, <1>3 DEF Target!TargetInv

\* A run of `gen` begins, or ends where it begins.
LEMMA TargetGen ==
  ASSUME Target!TargetInv, Target!Gen PROVE Target!TargetInv' /\ Target!FieldsStep
  <1> DEFINE target == Target!Load(around, folder)
  <1>0. generating.pc = "idle" /\ Target!Around(around) /\ folder \in Target!FolderHolds
    BY DEF Target!Gen, Target!TargetInv, Target!TypeOK
  <1>1. target \in Target!TargetIs /\ (target.ok => target.option \in TargetValues \cup {Target!None})
    BY <1>0, LoadIs
  <1>2. ASSUME NEW what \in {"refused", "skipped"}, Target!Says(what)
        PROVE  Target!TargetInv' /\ Target!FieldsStep
    BY <1>0, <1>2, TargetSays
  <1>3. ASSUME target.ok, NEW path \in Target!Suggestions(around, target) \cup TargetGiven,
               NEW asks \in BOOLEAN, Target!Answered(path, asks)
        PROVE  Target!TargetInv' /\ Target!FieldsStep
    <2> DEFINE to == Target!Inside(path)
    <2>1. path \in Seq(Target!Words)
      BY <1>0, <1>1, <1>3, OfferedPaths
    <2>2. to \in Seq(Target!Words) /\ Target!Inside(to) = to
      BY <2>1, InsideStays
    <2>3. CASE to = <<>>
      <3>1. Target!Says("refused")
        BY <1>3, <2>3 DEF Target!Answered
      <3> QED
        BY <1>2, <3>1
    <2>4. CASE to # <<>>
      <3>1. PICK v \in Target!Settled(around, target, to, asks) :
              Target!Put([target EXCEPT !.option = v], to)
        BY <1>3, <2>4 DEF Target!Answered
      <3>2. v \in TargetValues \cup {Target!None}
        BY <1>1, <1>3, SettledIn
      <3>3. v \in Target!Words
        BY <3>2, TargetAssumption DEF Target!TargetAssumption, Target!Words
      <3> DEFINE answered == [target EXCEPT !.option = v]
      <3> HIDE DEF target, to
      <3>4. /\ answered \in Target!TargetIs /\ answered.ok /\ answered.option = v
            /\ answered.other = target.other /\ answered.template = target.template
        BY <1>1, <1>3, <3>3 DEF Target!TargetIs
      <3> HIDE DEF answered
      <3>5. Target!Put(answered, to)
        BY <3>1 DEF answered
      <3> QED
        BY <1>0, <1>3, <2>2, <2>4, <3>2, <3>4, <3>5, TargetPut DEF target
    <2> QED
      BY <2>3, <2>4
  <1>4. CASE target.ok /\ target.from = "repo" /\
             IF Target!Inside(target.output) = <<>> THEN Target!Says("refused")
             ELSE Target!Put(target, Target!Inside(target.output))
    <2>1. target.output \in Seq(Target!Words)
      BY <1>1 DEF Target!TargetIs
    <2> DEFINE to == Target!Inside(target.output)
    <2>2. to \in Seq(Target!Words) /\ Target!Inside(to) = to
      BY <2>1, InsideStays
    <2>3. CASE to = <<>>
      <3>1. Target!Says("refused")
        BY <1>4, <2>3
      <3> QED
        BY <1>2, <3>1
    <2>4. CASE to # <<>>
      <3>1. Target!Put(target, to)
        BY <1>4, <2>4
      <3> HIDE DEF to
      <3> QED
        BY <1>0, <1>1, <1>4, <2>2, <2>4, <3>1, TargetPut
    <2> QED
      BY <2>3, <2>4
  <1>5. \/ Target!Says("refused") \/ Target!Says("skipped")
        \/ \E path \in TargetGiven, asks \in BOOLEAN : target.ok /\ Target!Answered(path, asks)
        \/ target.ok /\ target.from = "repo" /\
             IF Target!Inside(target.output) = <<>> THEN Target!Says("refused")
             ELSE Target!Put(target, Target!Inside(target.output))
        \/ target.ok /\ \E path \in Target!Suggestions(around, target) \cup TargetGiven :
             Target!Answered(path, TRUE)
    BY DEF Target!Gen
  <1> HIDE DEF target
  <1> QED
    BY <1>2, <1>3, <1>4, <1>5

\* A check writes nothing.
LEMMA TargetCheck ==
  ASSUME Target!TargetInv, Target!Check PROVE Target!TargetInv' /\ Target!FieldsStep
  <1> DEFINE target == Target!Load(around, folder)
             path == Target!Inside(target.output)
  <1>0. generating.pc = "idle"
    BY DEF Target!Check
  <1>1. PICK what : /\ Target!Says(what)
                    /\ what = CASE path \notin DOMAIN files -> "missing"
                                [] path \in DOMAIN files ->
                                     IF files[path] = Target!Render(target) THEN "current"
                                     ELSE "stale"
    BY DEF Target!Check
  <1>2. ASSUME fresh, what \in {"stale", "missing"}
        PROVE  files[kept.output] = Target!Render([kept EXCEPT !.option = Target!None])
    <2>1. target = kept /\ path = kept.output
      BY <1>2 DEF Target!TargetInv, Target!FreshIsKept, Target!AnswerStands
    <2>2. path \in DOMAIN files
      BY <1>2, <2>1 DEF Target!TargetInv, Target!AnswerStands
    <2> HIDE DEF path, target
    <2>3. files[path] # Target!Render(target)
      BY <1>1, <1>2, <2>2
    <2> QED
      BY <1>2, <2>1, <2>3 DEF Target!TargetInv, Target!AnswerStands
  <1> HIDE DEF path, target
  <1> QED
    BY <1>0, <1>1, <1>2, TargetSays

\* No run is a run.
LEMMA IdleIs == Target!Idle \in Target!RunIs /\ Target!Idle.pc = "idle"
  <1>1. <<>> \in Seq(Target!Words) /\ Target!NoTarget \in Target!TargetIs
    BY DEF Target!NoTarget, Target!TargetIs, Target!Words
  <1> QED
    BY <1>1 DEF Target!Idle, Target!RunIs

\* Where a run goes next keeps what it remembers, or forgets all.
LEMMA TargetGoes ==
  ASSUME Target!TypeOK, NEW goal \in {"template", "drop template", "drop fields", "idle"},
         Target!Goes(goal)
  PROVE  generating' \in Target!RunIs /\ generating'.pc = goal
  <1>1. CASE goal = "idle"
    BY <1>1, IdleIs DEF Target!Goes
  <1>2. CASE goal # "idle"
    <2>1. generating \in Target!RunIs /\ generating' = [generating EXCEPT !.pc = goal]
      BY <1>2 DEF Target!Goes, Target!TypeOK
    <2> QED
      BY <2>1 DEF Target!RunIs
  <1> QED
    BY <1>1, <1>2

\* Saved, the target loads as it was rendered.
LEMMA TargetSave ==
  ASSUME Target!TargetInv, Target!SaveSection PROVE Target!TargetInv' /\ Target!FieldsStep
  <1> DEFINE w == around
             target == Target!Load(w, folder)
             v == Target!Effective(generating.target)
             fields == Target!Answer(folder, generating.path, v)
             answer == [ok |-> TRUE, output |-> generating.path, from |-> "repo", option |-> v,
                        other |-> target.other, template |-> target.template]
  <1>0. /\ Target!TypeOK /\ generating.pc = "remember" /\ Target!Around(w)
        /\ folder \in Target!FolderHolds /\ generating.target \in Target!TargetIs
        /\ target.ok /\ generating.target.ok
        /\ generating.target.other = target.other /\ generating.target.template = target.template
        /\ generating.target.option \in TargetValues \cup {Target!None}
        /\ generating.path \in Seq(Target!Words)
        /\ generating.path # <<>> /\ Target!Inside(generating.path) = generating.path
        /\ generating.path \in DOMAIN files
        /\ files[generating.path] = Target!Render(generating.target) /\ said = Target!None
    BY DEF Target!SaveSection, Target!TargetInv, Target!TypeOK, Target!RunIs, Target!Remembering
  <1>1. v \in TargetValues /\ v \in Target!Words /\ v # Target!None
    BY <1>0, TargetAssumption DEF Target!TargetAssumption, Target!Effective, Target!Words
  <1>2. /\ folder' = [folder EXCEPT !.fields = fields] /\ around' = around /\ files' = files
        /\ kept' = [generating.target EXCEPT !.output = generating.path, !.from = "repo",
                                             !.option = v]
        /\ fresh' = TRUE /\ said' \in {said, "written"}
        /\ \E goal \in {"template", "idle"} : Target!Goes(goal)
    BY DEF Target!SaveSection, Target!Remembered
  <1>3. folder.fields \in Target!LayerIs /\ folder.old \in Target!LayerIs
    BY <1>0 DEF Target!FolderHolds, Target!LayerSays
  <1>4. Target!Over(folder.fields, folder.old) \in Target!LayerIs
    BY <1>3, OverIs
  <1>5. /\ fields \in Target!LayerIs /\ fields.there /\ fields.output = generating.path
        /\ fields.option = v
        /\ fields.other = Target!Over(folder.fields, folder.old).other
    BY <1>0, <1>1, <1>4 DEF Target!LayerIs, Target!Answer
  <1>6. fields.other = Target!None => folder.old.other = Target!None
    BY <1>5 DEF Target!Over
  <1> HIDE DEF fields, v
  <1>7. folder' \in Target!FolderHolds /\ folder'.fields = fields /\ folder'.old = folder.old
    BY <1>0, <1>2, <1>5 DEF Target!FolderHolds, Target!LayerSays
  <1>8. Target!Load(w, folder') = answer
    <2>1. ASSUME NEW g \in Target!FolderHolds, NEW path \in Seq(Target!Words), path # <<>>,
                 NEW u \in TargetValues,
                 g = [folder EXCEPT !.fields = Target!Answer(folder, path, u)]
          PROVE  Target!Load(w, g) = [ok |-> TRUE, output |-> path, from |-> "repo", option |-> u,
                                      other |-> target.other, template |-> target.template]
      BY <1>0, <2>1, SavedLoads, ZenonT(60)
    <2>2. folder' = [folder EXCEPT !.fields = Target!Answer(folder, generating.path, v)]
      BY <1>2 DEF fields
    <2> HIDE DEF w, target
    <2> QED
      BY <1>0, <1>1, <1>7, <2>1, <2>2
  <1>9. "repo" \in Target!Words
    BY DEF Target!Words
  <1>10. kept' \in Target!TargetIs /\ kept' = answer
    BY <1>0, <1>1, <1>2, <1>9 DEF Target!TargetIs
  <1>11. Target!Load(around', folder') = kept'
    BY <1>2, <1>8, <1>10
  <1>12. PICK goal \in {"template", "idle"} : Target!Goes(goal)
    BY <1>2
  <1>13. generating' \in Target!RunIs /\ generating'.pc = goal
    BY <1>0, <1>12, TargetGoes
  <1>14. Target!TypeOK'
    BY <1>0, <1>2, <1>7, <1>10, <1>13 DEF Target!TypeOK
  <1>15. Target!Remembering'
    BY <1>13 DEF Target!Remembering
  <1>16. Target!Moving'
    BY <1>0, <1>1, <1>5, <1>6, <1>7, <1>13 DEF Target!Moving
  <1>17. Target!FreshIsKept'
    BY <1>0, <1>10 DEF Target!FreshIsKept
  <1>18. Target!AnswerStands'
    <2>1. /\ kept'.output = generating.path /\ kept'.template = target.template
          /\ kept'.other = target.other /\ kept'.option = v
      BY <1>10
    <2>2. kept'.output \in DOMAIN files'
      BY <1>0, <1>2, <2>1
    <2>3. \/ files'[kept'.output] = Target!Render(kept')
          \/ files'[kept'.output] = Target!Render([kept' EXCEPT !.option = Target!None])
      <3>1. files'[kept'.output] =
              <<target.template, generating.target.option, target.other>>
        BY <1>0, <1>2, <2>1 DEF Target!Render
      <3>2. CASE generating.target.option = Target!None
        <4> DEFINE bare == [kept' EXCEPT !.option = Target!None]
        <4>1. bare.option = Target!None /\ bare.template = target.template /\ bare.other = target.other
          BY <1>10, <2>1 DEF Target!TargetIs
        <4> HIDE DEF bare
        <4>2. files'[kept'.output] = Target!Render(bare)
          BY <3>1, <3>2, <4>1 DEF Target!Render
        <4> QED
          BY <4>2 DEF bare
      <3>3. CASE generating.target.option # Target!None
        BY <2>1, <3>1, <3>3 DEF Target!Render, Target!Effective, v
      <3> QED
        BY <3>2, <3>3
    <2>4. said' \notin {"stale", "missing"}
      BY <1>0, <1>2 DEF Target!None
    <2> QED
      BY <1>11, <2>2, <2>3, <2>4 DEF Target!AnswerStands
  <1>19. Target!FieldsStep
    <2>1. kept'.other = target.other /\ kept'.template = target.template
      BY <1>10
    <2> QED
      BY <1>11, <2>1 DEF Target!FieldsStep
  <1> QED
    BY <1>14, <1>15, <1>16, <1>17, <1>18, <1>19 DEF Target!TargetInv

\* A step after which the target loads as before, and that writes no file, leaves what stood.
LEMMA TargetLeaves ==
  ASSUME Target!TargetInv, UNCHANGED <<files, kept, fresh>>, said' \in {said, Target!None, "written"},
         Target!Load(around', folder') = Target!Load(around, folder)
  PROVE  Target!FreshIsKept' /\ Target!AnswerStands' /\ Target!FieldsStep
  BY DEF Target!TargetInv, Target!FreshIsKept, Target!AnswerStands, Target!FieldsStep, Target!None

\* A run that moves the target's files on.
LEMMA TargetMoves ==
  ASSUME Target!TargetInv, Target!MoveTemplate \/ Target!DropTemplate \/ Target!DropFields
  PROVE  Target!TargetInv' /\ Target!FieldsStep
  <1>0. /\ Target!TypeOK /\ Target!Around(around) /\ folder \in Target!FolderHolds
        /\ UNCHANGED <<around, files, kept, fresh>>
        /\ generating.pc \in {"template", "drop template", "drop fields"}
        /\ folder.fields.there /\ folder.fields.output # <<>>
        /\ folder.fields.option # Target!None
        /\ folder.fields.other = Target!None => folder.old.other = Target!None
    BY DEF Target!TargetInv, Target!TypeOK, Target!Moving, Target!MoveTemplate,
         Target!DropTemplate, Target!DropFields
  <1>1. /\ folder.fields \in Target!LayerIs /\ folder.old \in Target!LayerIs
        /\ Target!NoLayer \in Target!LayerSays /\ Target!None \in Target!Words
    BY <1>0, NoLayerIs DEF Target!FolderHolds, Target!LayerSays, Target!Words
  <1>2. ASSUME NEW goal \in {"drop template", "drop fields", "idle"}, Target!Goes(goal),
               folder' \in Target!FolderHolds, said' \in {said, "written"},
               folder'.fields = folder.fields,
               folder'.old = folder.old \/ folder'.old = Target!NoLayer,
               Target!RepoTemplate(folder') = Target!RepoTemplate(folder),
               goal \in {"drop template", "drop fields"} =>
                 folder'.template # Target!None \/ folder'.oldTemplate = Target!None,
               goal = "drop fields" => folder'.oldTemplate = Target!None
        PROVE  Target!TargetInv' /\ Target!FieldsStep
    <2>1. Target!RepoLayer(folder') = Target!RepoLayer(folder)
      <3> DEFINE over == [folder.fields EXCEPT !.there = TRUE]
      <3>1. /\ Target!RepoLayer(folder) = Target!Over(over, folder.old)
            /\ Target!RepoLayer(folder') = Target!Over(over, folder'.old)
        BY <1>0, <1>2 DEF Target!RepoLayer
      <3>2. /\ over.there /\ over.output # <<>> /\ over.option # Target!None
            /\ over.other = Target!None => folder.old.other = Target!None
        BY <1>0, <1>1 DEF Target!LayerIs
      <3> HIDE DEF over
      <3> QED
        BY <1>2, <3>1, <3>2, NoLayerIs DEF Target!Over
    <2>2. Target!Load(around', folder') = Target!Load(around, folder)
      <3>1. \A g : Target!RepoLayer(g) = Target!RepoLayer(folder)
                   /\ Target!RepoTemplate(g) = Target!RepoTemplate(folder)
                   => Target!Load(around, g) = Target!Load(around, folder)
        BY DEF Target!Load, Target!Template
      <3>2. Target!RepoTemplate(folder') = Target!RepoTemplate(folder)
        BY <1>2
      <3>4. Target!Load(around, folder') = Target!Load(around, folder)
        BY <2>1, <3>1, <3>2, Zenon
      <3>3. around' = around
        BY <1>0
      <3> QED
        BY <3>3, <3>4
    <2>3. Target!FreshIsKept' /\ Target!AnswerStands' /\ Target!FieldsStep
      BY <1>0, <1>2, <2>2, TargetLeaves
    <2>4. generating' \in Target!RunIs
      BY <1>0, <1>2, TargetGoes
    <2>5. generating'.pc = goal
      BY <1>0, <1>2, TargetGoes
    <2>6. Target!TypeOK'
      BY <1>0, <1>2, <2>4 DEF Target!TypeOK
    <2>7. Target!Remembering'
      BY <2>5 DEF Target!Remembering
    <2>8. folder'.fields.other = Target!None => folder'.old.other = Target!None
      BY <1>0, <1>2, NoLayerIs
    <2>9. Target!Moving'
      BY <1>0, <1>2, <2>5, <2>8 DEF Target!Moving
    <2> QED
      BY <2>3, <2>6, <2>7, <2>9 DEF Target!TargetInv
  <1>3. CASE Target!MoveTemplate
    <2>1. /\ Target!Goes("drop template") /\ said' = said
          /\ folder' = [folder EXCEPT !.template = IF folder.template = Target!None
                                                   THEN folder.oldTemplate ELSE folder.template]
      BY <1>3 DEF Target!MoveTemplate
    <2>2. /\ folder' \in Target!FolderHolds /\ folder'.fields = folder.fields
          /\ folder'.old = folder.old /\ folder'.oldTemplate = folder.oldTemplate
          /\ folder'.template = IF folder.template = Target!None
                                THEN folder.oldTemplate ELSE folder.template
      BY <1>0, <2>1 DEF Target!FolderHolds
    <2>3. Target!RepoTemplate(folder') = Target!RepoTemplate(folder)
      BY <2>2 DEF Target!RepoTemplate
    <2> QED
      BY <1>2, <2>1, <2>2, <2>3
  <1>4. CASE Target!DropTemplate
    <2>1. /\ Target!Goes("drop fields") /\ said' = said
          /\ folder' = [folder EXCEPT !.oldTemplate = Target!None]
          /\ folder.template # Target!None \/ folder.oldTemplate = Target!None
      BY <1>4 DEF Target!DropTemplate, Target!TargetInv, Target!Moving
    <2>2. /\ folder' \in Target!FolderHolds /\ folder'.fields = folder.fields
          /\ folder'.old = folder.old /\ folder'.oldTemplate = Target!None
          /\ folder'.template = folder.template
      BY <1>0, <1>1, <2>1 DEF Target!FolderHolds
    <2>3. Target!RepoTemplate(folder') = Target!RepoTemplate(folder)
      BY <2>1, <2>2 DEF Target!RepoTemplate
    <2> QED
      BY <1>2, <2>1, <2>2, <2>3
  <1>5. CASE Target!DropFields
    <2>1. /\ Target!Goes("idle") /\ said' = "written"
          /\ folder' = [folder EXCEPT !.old = Target!NoLayer]
      BY <1>5 DEF Target!DropFields
    <2>2. /\ folder' \in Target!FolderHolds /\ folder'.fields = folder.fields
          /\ folder'.old = Target!NoLayer /\ folder'.oldTemplate = folder.oldTemplate
          /\ folder'.template = folder.template
      BY <1>0, <1>1, <2>1 DEF Target!FolderHolds
    <2>3. Target!RepoTemplate(folder') = Target!RepoTemplate(folder)
      BY <2>2 DEF Target!RepoTemplate
    <2> QED
      BY <1>2, <2>1, <2>2, <2>3
  <1> QED
    BY <1>3, <1>4, <1>5

\* A run that dies leaves what is on disk.
LEMMA TargetCrash ==
  ASSUME Target!TargetInv, Target!Crash PROVE Target!TargetInv' /\ Target!FieldsStep
  <1>0. /\ Target!TypeOK /\ UNCHANGED <<around, folder, files, kept, fresh>>
        /\ generating' = Target!Idle /\ said' = Target!None
    BY DEF Target!Crash, Target!TargetInv
  <1>1. Target!FreshIsKept' /\ Target!AnswerStands' /\ Target!FieldsStep
    BY <1>0, TargetLeaves
  <1>2. generating' \in Target!RunIs /\ generating'.pc = "idle"
    BY <1>0, IdleIs
  <1>3. Target!TypeOK' /\ Target!Remembering' /\ Target!Moving'
    BY <1>0, <1>2 DEF Target!TypeOK, Target!Remembering, Target!Moving
  <1> QED
    BY <1>1, <1>3 DEF Target!TargetInv

\* A write cut short leaves part of a section, or a template in part, and no answer.
LEMMA TargetCut ==
  ASSUME Target!TargetInv, Target!CutShort PROVE Target!TargetInv' /\ Target!FieldsStep
  <1>0. /\ Target!TypeOK /\ folder \in Target!FolderHolds /\ generating \in Target!RunIs
        /\ around' = around /\ generating' = Target!Idle /\ kept' = Target!NoTarget /\ fresh' = FALSE
    BY DEF Target!CutShort, Target!TargetInv, Target!TypeOK
  <1>1. Target!NoTarget \in Target!TargetIs /\ ~Target!NoTarget.ok
    BY DEF Target!NoTarget, Target!TargetIs, Target!Words
  <1>2. folder' \in Target!FolderHolds
    <2>1. CASE \E left \in Target!Remains(Target!Remembered) :
                 folder' = [folder EXCEPT !.fields = left] /\ generating.pc = "remember"
      <3>1. PICK left \in Target!Remains(Target!Remembered) :
              folder' = [folder EXCEPT !.fields = left]
        BY <2>1
      <3>2. /\ generating.path \in Seq(Target!Words)
            /\ Target!Effective(generating.target) \in Target!Words
        <4>1. Target!Remembering
          BY DEF Target!TargetInv
        <4>2. generating.target.option \in TargetValues \cup {Target!None}
          BY <2>1, <4>1 DEF Target!Remembering
        <4> QED
          BY <1>0, <4>2, TargetAssumption
             DEF Target!RunIs, Target!TargetAssumption, Target!Effective, Target!Words
      <3>3. folder.fields \in Target!LayerIs /\ folder.old \in Target!LayerIs
        BY <1>0 DEF Target!FolderHolds, Target!LayerSays
      <3>4. Target!Over(folder.fields, folder.old) \in Target!LayerIs
        BY <3>3, OverIs
      <3>5. Target!Remembered \in Target!LayerIs
        BY <3>2, <3>4 DEF Target!Remembered, Target!Answer, Target!LayerIs
      <3>6. <<>> \in Seq(Target!Words) /\ Target!None \in Target!Words /\ "wrong" \in Target!Words
        BY DEF Target!Words
      <3> DEFINE l == Target!Remembered
      <3>7. l.output \in Seq(Target!Words) /\ l.option \in Target!Words /\ l.other \in Target!Words
        BY <3>5 DEF Target!LayerIs
      <3> HIDE DEF l
      <3>8. left \in Target!Remains(l)
        BY <3>1 DEF l
      <3>9. left \in Target!LayerSays
        <4>1. CASE left = Target!NoLayer
          BY <4>1, NoLayerIs DEF Target!LayerSays
        <4>2. CASE left # Target!NoLayer
          <5>1. PICK o \in {<<>>, l.output}, v \in {Target!None, "wrong", l.option},
                     x \in {Target!None, l.other} :
                  left = [there |-> TRUE, output |-> o, option |-> v, other |-> x]
            BY <3>8, <4>2 DEF Target!Remains
          <5>2. o \in Seq(Target!Words) /\ v \in Target!Words /\ x \in Target!Words
            BY <3>6, <3>7
          <5>3. left \in Target!LayerIs /\ left.there = TRUE
            BY <5>1, <5>2 DEF Target!LayerIs
          <5> QED
            BY <5>3 DEF Target!LayerSays
        <4> QED
          BY <4>1, <4>2
      <3> QED
        BY <1>0, <3>1, <3>9 DEF Target!FolderHolds
    <2>2. CASE folder' = [folder EXCEPT !.template = "cut"]
      <3>1. "cut" \in Target!Words
        BY DEF Target!Words
      <3> QED
        BY <1>0, <2>2, <3>1 DEF Target!FolderHolds
    <2> QED
      BY <2>1, <2>2 DEF Target!CutShort
  <1>3. generating' \in Target!RunIs /\ generating'.pc = "idle"
    BY <1>0, IdleIs
  <1>4. Target!TypeOK'
    BY <1>0, <1>1, <1>2, <1>3 DEF Target!TypeOK
  <1>5. Target!Remembering' /\ Target!Moving' /\ Target!FreshIsKept'
    BY <1>0, <1>3 DEF Target!Remembering, Target!Moving, Target!FreshIsKept
  <1>6. Target!AnswerStands'
    BY <1>0, <1>1 DEF Target!AnswerStands
  <1>7. Target!FieldsStep
    BY DEF Target!FieldsStep
  <1> QED
    BY <1>4, <1>5, <1>6, <1>7 DEF Target!TargetInv

\* A person's edit of the target's files.
LEMMA TargetEdit ==
  ASSUME Target!TargetInv, Target!Edit PROVE Target!TargetInv' /\ Target!FieldsStep
  <1>0. /\ Target!TypeOK /\ UNCHANGED <<around, generating>> /\ generating.pc = "idle"
        /\ said' = Target!None /\ fresh' = FALSE /\ folder \in Target!FolderHolds
    BY DEF Target!Edit, Target!TargetInv, Target!TypeOK
  <1>1. Target!NoTarget \in Target!TargetIs /\ ~Target!NoTarget.ok
    BY DEF Target!NoTarget, Target!TargetIs, Target!Words
  <1>2. /\ folder' \in Target!FolderHolds /\ kept' \in Target!TargetIs
        /\ \/ ~kept'.ok
           \/ kept' = kept /\ folder' = folder
    <2>1. CASE /\ folder.fields.there /\ kept' = Target!NoTarget
               /\ \E v \in TargetValues \cup {"wrong"} :
                    folder' = [folder EXCEPT !.fields.option = v]
      <3>1. PICK v \in TargetValues \cup {"wrong"} : folder' = [folder EXCEPT !.fields.option = v]
        BY <2>1
      <3>2. v \in Target!Words
        BY TargetAssumption DEF Target!TargetAssumption, Target!Words
      <3> DEFINE fields == [folder.fields EXCEPT !.option = v]
      <3>3. folder.fields \in Target!LayerIs
        BY <1>0 DEF Target!FolderHolds, Target!LayerSays
      <3>4. fields \in Target!LayerIs /\ fields.there
        BY <2>1, <3>2, <3>3 DEF Target!LayerIs
      <3>5. folder' = [folder EXCEPT !.fields = fields]
        BY <3>1
      <3> HIDE DEF fields
      <3>6. folder' \in Target!FolderHolds
        BY <1>0, <3>4, <3>5 DEF Target!FolderHolds, Target!LayerSays
      <3> QED
        BY <1>1, <2>1, <3>6
    <2>2. CASE folder' = folder /\ kept' = kept
      BY <1>0, <2>2 DEF Target!TypeOK
    <2> QED
      BY <2>1, <2>2 DEF Target!Edit
  <1>3. Target!TypeOK' /\ Target!Remembering' /\ Target!Moving' /\ Target!FreshIsKept'
    BY <1>0, <1>2 DEF Target!TypeOK, Target!Remembering, Target!Moving, Target!FreshIsKept
  <1>4. Target!AnswerStands'
    BY <1>0, <1>2 DEF Target!TargetInv, Target!AnswerStands
  <1>5. Target!FieldsStep
    BY <1>0 DEF Target!FieldsStep
  <1> QED
    BY <1>3, <1>4, <1>5 DEF Target!TargetInv

\* What a package gains moves no layer.
LEMMA TargetGrow ==
  ASSUME Target!TargetInv, Target!Grow PROVE Target!TargetInv' /\ Target!FieldsStep
  <1>0. /\ Target!TypeOK /\ UNCHANGED <<folder, files, generating, said, kept, fresh>>
        /\ generating.pc = "idle" /\ Target!Around(around)
    BY DEF Target!Grow, Target!TargetInv, Target!TypeOK
  <1>1. PICK d \in DOMAIN around.dirs, i \in DOMAIN TargetRules :
          around' = [around EXCEPT !.dirs[d] = @ \cup {TargetRules[i].fact}]
    BY DEF Target!Grow
  <1>2. /\ DOMAIN around' = DOMAIN around /\ around'.home = around.home
        /\ around'.builtIn = around.builtIn /\ around'.shaped = around.shaped
        /\ around'.homeTemplate = around.homeTemplate
        /\ around'.builtTemplate = around.builtTemplate
        /\ DOMAIN around'.dirs = DOMAIN around.dirs
    BY <1>0, <1>1 DEF Target!Around
  <1>3. Target!Around(around')
    BY <1>0, <1>2 DEF Target!Around
  <1>4. Target!Load(around', folder') = Target!Load(around, folder)
    BY <1>0, <1>2, SameLoads
  <1>5. Target!FreshIsKept' /\ Target!AnswerStands' /\ Target!FieldsStep
    BY <1>0, <1>4, TargetLeaves
  <1>6. Target!TypeOK' /\ Target!Remembering' /\ Target!Moving'
    BY <1>0, <1>3 DEF Target!TypeOK, Target!Remembering, Target!Moving
  <1> QED
    BY <1>5, <1>6 DEF Target!TargetInv

\* Every step of a target keeps the invariant, and its other fields.
LEMMA TargetNext ==
  ASSUME Target!TargetInv, [Target!Next]_targetVars
  PROVE  Target!TargetInv' /\ Target!FieldsStep
  <1>1. CASE UNCHANGED targetVars
    <2>1. Target!TypeOK' /\ Target!Remembering' /\ Target!Moving' /\ Target!FreshIsKept'
      BY <1>1 DEF targetVars, Target!TargetInv, Target!TypeOK, Target!Remembering,
           Target!Moving, Target!FreshIsKept
    <2>2. Target!AnswerStands' /\ Target!FieldsStep
      BY <1>1 DEF targetVars, Target!TargetInv, Target!AnswerStands, Target!FieldsStep
    <2> QED
      BY <2>1, <2>2 DEF Target!TargetInv
  <1> QED
    BY <1>1, TargetGen, TargetCheck, TargetSave, TargetMoves, TargetCut, TargetCrash,
       TargetEdit, TargetGrow DEF Target!Next

-----------------------------------------------------------------------------
(* Where a value comes from.                                               *)

\* A file read after the others stands where it holds the key, and its marker where it
\* holds no value.
LEMMA LayersRead ==
  ASSUME NEW n \in Nat
  PROVE  /\ Layers!ValueIn(n + 1) =
              IF Layers!Value(n + 1) = Layers!None THEN Layers!ValueIn(n) ELSE Layers!Value(n + 1)
         /\ Layers!FileIn(n + 1) =
              IF Layers!Value(n + 1) = Layers!None THEN Layers!FileIn(n) ELSE Cascade[n + 1]
         /\ Layers!StandsIn(n + 1) <=>
              /\ Layers!Value(n + 1) \in {Layers!None, ""}
              /\ Layers!Marked(n + 1) \/ Layers!StandsIn(n)
  <1>3. Layers!StandsIn(n + 1) <=>
              /\ Layers!Value(n + 1) \in {Layers!None, ""}
              /\ Layers!Marked(n + 1) \/ Layers!StandsIn(n)
    <2> DEFINE Bare(i) == Layers!Value(i) \in {Layers!None, ""}
    <2>1. \A i \in 1 .. n : (\A j \in i .. (n + 1) : Bare(j)) <=> (\A j \in i .. n : Bare(j)) /\ Bare(n + 1)
      <3> HIDE DEF Bare
      <3> QED
        OBVIOUS
    <2>2. (\A j \in (n + 1) .. (n + 1) : Bare(j)) <=> Bare(n + 1)
      <3> HIDE DEF Bare
      <3> QED
        OBVIOUS
    <2>3. Layers!StandsIn(n + 1) <=> \E i \in 1 .. (n + 1) : Layers!Marked(i) /\ \A j \in i .. (n + 1) : Bare(j)
      BY DEF Layers!StandsIn
    <2>4. Layers!StandsIn(n) <=> \E i \in 1 .. n : Layers!Marked(i) /\ \A j \in i .. n : Bare(j)
      BY DEF Layers!StandsIn
    <2>5. 1 .. (n + 1) = 1 .. n \cup {n + 1}
      OBVIOUS
    <2> QED
      <3>1. Layers!StandsIn(n + 1) <=> Bare(n + 1) /\ (Layers!Marked(n + 1) \/ Layers!StandsIn(n))
        <4> HIDE DEF Bare
        <4> QED
          BY <2>1, <2>2, <2>3, <2>4, <2>5
      <3> QED
        BY <3>1
  <1>1. CASE Layers!Value(n + 1) = Layers!None
    <2>1. Layers!Holding(n + 1) = Layers!Holding(n)
      BY <1>1 DEF Layers!Holding
    <2>2. Layers!LastOf(n + 1) = Layers!LastOf(n)
      BY <2>1 DEF Layers!LastOf
    <2>3. /\ Layers!ValueIn(n + 1) = Layers!ValueIn(n)
          /\ Layers!FileIn(n + 1) = Layers!FileIn(n)
      BY <2>1, <2>2 DEF Layers!ValueIn, Layers!FileIn
    <2> QED
      BY <1>1, <2>3, <1>3
  <1>2. CASE Layers!Value(n + 1) # Layers!None
    <2>1. n + 1 \in Layers!Holding(n + 1) /\ \A j \in Layers!Holding(n + 1) : j \in Nat /\ j <= n + 1
      BY <1>2 DEF Layers!Holding
    <2>2. Layers!LastOf(n + 1) = n + 1
      <3> DEFINE Last(i) == i \in Layers!Holding(n + 1) /\ \A j \in Layers!Holding(n + 1) : j <= i
      <3>1. Last(n + 1) /\ \A i \in Layers!Holding(n + 1) : Last(i) => i = n + 1
        BY <2>1
      <3> QED
        BY <3>1 DEF Layers!LastOf
    <2> QED
      BY <1>2, <1>3, <2>1, <2>2 DEF Layers!ValueIn, Layers!FileIn
  <1> QED
    BY <1>1, <1>2

\* No file read, nothing is held.
LEMMA LayersNone ==
  /\ Layers!ValueIn(0) = Layers!None /\ Layers!FileIn(0) = Layers!None /\ ~Layers!StandsIn(0)
  <1>1. Layers!Holding(0) = {}
    BY DEF Layers!Holding
  <1> QED
    BY <1>1 DEF Layers!ValueIn, Layers!FileIn, Layers!StandsIn

\* The files of the cascade, named apart from the process and from nothing.
LEMMA CascadeIs ==
  /\ Len(Cascade) \in Nat
  /\ \A i \in 1 .. Len(Cascade) : /\ Cascade[i] \notin {Layers!None, "", "process"}
                                  /\ Cascade[i] \in Layers!Range(Cascade)
  <1>1. Cascade \in Seq(STRING) /\ DOMAIN Cascade = 1 .. Len(Cascade) /\ Len(Cascade) \in Nat
    <2>1. Cascade \in Seq(STRING)
      BY LayerAssumption DEF Layers!LayerAssumption
    <2> QED
      BY <2>1
  <1> QED
    BY <1>1, LayerAssumption DEF Layers!LayerAssumption, Layers!Range

\* What the files come to is named for the file it was read in.
LEMMA LayersNamed ==
  ASSUME Layers!NamesLayers(world), NEW n \in 0 .. Len(Cascade)
  PROVE  /\ Layers!ValueIn(n) = Layers!None <=> Layers!FileIn(n) = Layers!None
         /\ Layers!ValueIn(n) \in {Layers!None, ""} \cup Layers!Range(Cascade)
         /\ Layers!FileIn(n) # "process" /\ Layers!ValueIn(n) # "process"
  <1>1. CASE Layers!Holding(n) = {}
    BY <1>1 DEF Layers!ValueIn, Layers!FileIn, Layers!None
  <1>2. CASE Layers!Holding(n) # {}
    <2> DEFINE last == Layers!LastOf(n)
    <2>1. last \in Layers!Holding(n)
      <3>1. Layers!Holding(n) \in SUBSET (0 .. n) /\ n \in Nat
        <4>0. Len(Cascade) \in Nat /\ n \in 0 .. Len(Cascade)
          BY CascadeIs
        <4>1. n \in Nat /\ n <= Len(Cascade)
          BY <4>0
        <4> QED
          BY <4>1 DEF Layers!Holding
      <3>2. \E i \in Layers!Holding(n) : \A j \in Layers!Holding(n) : j <= i
        <4> DEFINE H == Layers!Holding(n)
                   Back == {n - i : i \in H}
        <4>1. Back \in SUBSET Nat /\ Back # {}
          BY <1>2, <3>1
        <4>2. PICK m \in Back : \A k \in Back : m <= k
          <5> HIDE DEF Back
          <5> QED
            BY <4>1, Least
        <4>3. PICK i \in H : m = n - i
          BY <4>2
        <4>4. \A j \in H : n - i <= n - j
          BY <4>2, <4>3
        <4>5. \A j \in H : j <= i
          <5> HIDE DEF H
          <5> QED
            BY <3>1, <4>3, <4>4 DEF H
        <4> QED
          BY <4>3, <4>5
      <3> QED
        BY <3>2 DEF Layers!LastOf
    <2>2. last \in 1 .. Len(Cascade) /\ Layers!Value(last) # Layers!None
      <3>1. last \in 1 .. n /\ Layers!Value(last) # Layers!None
        BY <2>1 DEF Layers!Holding
      <3>2. Len(Cascade) \in Nat /\ n \in 0 .. Len(Cascade)
        BY CascadeIs
      <3> HIDE DEF last
      <3>3. last \in 1 .. Len(Cascade)
        BY <3>1, <3>2
      <3> QED
        BY <3>1, <3>3
    <2>3. Layers!Value(last) \in {Layers!None, "", Cascade[last]}
      BY <2>2 DEF Layers!NamesLayers, Layers!Value
    <2>4. Layers!ValueIn(n) = Layers!Value(last) /\ Layers!FileIn(n) = Cascade[last]
      BY <1>2 DEF Layers!ValueIn, Layers!FileIn
    <2> HIDE DEF last
    <2> QED
      BY <2>2, <2>3, <2>4, CascadeIs
  <1> QED
    BY <1>1, <1>2
\* A run starts with nothing read.
LEMMA LayersInit == Layers!Init => Layers!LayersInv
  <1> SUFFICES ASSUME Layers!Init PROVE Layers!LayersInv
    OBVIOUS
  <1>1. /\ at = 0 /\ raw = Layers!None /\ origin = Layers!None /\ redacted = Layers!None
        /\ overridden = Layers!None /\ from = "files" /\ stage = "files" /\ outcome = "no"
        /\ Layers!NamesLayers(world)
    BY LayerAssumption DEF Layers!Init, Layers!LayerAssumption
  <1>2. 0 \in 0 .. Len(Cascade)
    <2>1. Len(Cascade) \in Nat
      BY CascadeIs
    <2> QED
      BY <2>1
  <1> QED
    BY <1>1, <1>2, LayersNone
       DEF Layers!LayersInv, Layers!Reading, Layers!Read, Layers!Overlaid, Layers!Decided

\* What the operators over the world alone come to does not move with it still.
LEMMA LayersStill ==
  ASSUME world' = world
  PROVE  /\ \A n : /\ Layers!ValueIn(n)' = Layers!ValueIn(n)
                   /\ Layers!FileIn(n)' = Layers!FileIn(n)
                   /\ Layers!StandsIn(n)' <=> Layers!StandsIn(n)
         /\ Layers!LocalValue' = Layers!LocalValue /\ Layers!LocalFile' = Layers!LocalFile
         /\ Layers!LocalMarker' <=> Layers!LocalMarker
         /\ Layers!CloudHeld' = Layers!CloudHeld /\ (Layers!Speaks' <=> Layers!Speaks)
         /\ from' = from => /\ Layers!Below' = Layers!Below /\ Layers!Laid' = Layers!Laid
                            /\ Layers!LaidIn' = Layers!LaidIn /\ Layers!Spoken' = Layers!Spoken
                            /\ Layers!SpokenIn' = Layers!SpokenIn
                            /\ (Layers!Refused' <=> Layers!Refused)
  <1>1. \A n : Layers!Value(n)' = Layers!Value(n) /\ Layers!Marked(n)' = Layers!Marked(n)
    BY DEF Layers!Value, Layers!Marked
  <1>2. \A n : Layers!Holding(n)' = Layers!Holding(n)
    BY <1>1 DEF Layers!Holding
  <1>3. \A n : Layers!LastOf(n)' = Layers!LastOf(n)
    BY <1>2 DEF Layers!LastOf
  <1>4. \A n : /\ Layers!ValueIn(n)' = Layers!ValueIn(n)
               /\ Layers!FileIn(n)' = Layers!FileIn(n)
    BY <1>1, <1>2, <1>3 DEF Layers!ValueIn, Layers!FileIn
  <1>5. \A n : Layers!StandsIn(n)' <=> Layers!StandsIn(n)
    BY <1>1 DEF Layers!StandsIn
  <1>6. /\ Layers!LocalValue' = Layers!LocalValue /\ Layers!LocalFile' = Layers!LocalFile
        /\ Layers!LocalMarker' <=> Layers!LocalMarker
    BY <1>4, <1>5 DEF Layers!LocalValue, Layers!LocalFile, Layers!LocalMarker
  <1>7. Layers!CloudHeld' = Layers!CloudHeld /\ (Layers!Speaks' <=> Layers!Speaks)
    BY DEF Layers!CloudHeld, Layers!Speaks
  <1>8. ASSUME from' = from
        PROVE  /\ Layers!Below' = Layers!Below /\ Layers!Laid' = Layers!Laid
               /\ Layers!LaidIn' = Layers!LaidIn /\ Layers!Spoken' = Layers!Spoken
               /\ Layers!SpokenIn' = Layers!SpokenIn
               /\ Layers!Refused' <=> Layers!Refused
    <2>1. Layers!Below' = Layers!Below
      BY <1>7, <1>8 DEF Layers!Below
    <2>2. Layers!Laid' = Layers!Laid
      BY <1>6, <2>1 DEF Layers!Laid
    <2>3. Layers!LaidIn' = Layers!LaidIn
      BY <1>6, <1>8, <2>1 DEF Layers!LaidIn
    <2>4. Layers!Spoken' = Layers!Spoken /\ Layers!SpokenIn' = Layers!SpokenIn
      BY <1>7, <2>2, <2>3 DEF Layers!Spoken, Layers!SpokenIn
    <2>5. Layers!Refused' <=> Layers!Refused
      BY <1>6, <1>8, <2>4 DEF Layers!Refused
    <2> QED
      BY <2>1, <2>2, <2>3, <2>4, <2>5
  <1> QED
    BY <1>4, <1>5, <1>6, <1>7, <1>8

\* Nor does what they come to of the first files.
LEMMA LayersStillAt ==
  ASSUME world' = world, NEW n, at' = n
  PROVE  /\ Layers!ValueIn(at)' = Layers!ValueIn(n) /\ Layers!FileIn(at)' = Layers!FileIn(n)
         /\ Layers!StandsIn(at)' <=> Layers!StandsIn(n)
  <1>1. \A i : Layers!Value(i)' = Layers!Value(i) /\ Layers!Marked(i)' = Layers!Marked(i)
    BY DEF Layers!Value, Layers!Marked
  <1>2. Layers!Holding(at)' = Layers!Holding(n)
    BY <1>1 DEF Layers!Holding
  <1>3. Layers!LastOf(at)' = Layers!LastOf(n)
    BY <1>2 DEF Layers!LastOf
  <1>4. Layers!ValueIn(at)' = Layers!ValueIn(n) /\ Layers!FileIn(at)' = Layers!FileIn(n)
    BY <1>1, <1>2, <1>3 DEF Layers!ValueIn, Layers!FileIn
  <1>5. Layers!StandsIn(at)' <=> Layers!StandsIn(n)
    BY <1>1 DEF Layers!StandsIn
  <1> QED
    BY <1>4, <1>5

\* One more file of the cascade.
LEMMA LayersReadFile ==
  ASSUME Layers!LayersInv, Layers!ReadFile PROVE Layers!LayersInv'
  <1>0. /\ stage = "files" /\ at < Len(Cascade) /\ at' = at + 1 /\ at \in 0 .. Len(Cascade)
        /\ UNCHANGED <<world, overridden, from, stage, outcome>>
        /\ raw = Layers!ValueIn(at) /\ origin = Layers!FileIn(at)
        /\ redacted # Layers!None <=> Layers!StandsIn(at)
        /\ from = "files" /\ overridden = Layers!None /\ outcome = "no"
    BY DEF Layers!ReadFile, Layers!LayersInv, Layers!Reading
  <1>1. at \in Nat /\ at' \in 0 .. Len(Cascade) /\ at' \in 1 .. Len(Cascade) /\ at' = at + 1
    <2>1. Len(Cascade) \in Nat
      BY CascadeIs
    <2> QED
      BY <1>0, <2>1
  <1>2. Cascade[at'] # Layers!None
    BY <1>1, CascadeIs
  <1> DEFINE file == Cascade[at + 1]
             entry == world.files[file]
  <1>3. /\ raw' = IF entry.value = Layers!None THEN raw ELSE entry.value
        /\ origin' = IF entry.value = Layers!None THEN origin ELSE file
        /\ redacted' = IF entry.value \notin {Layers!None, ""} THEN Layers!None
                       ELSE IF entry.marker THEN file ELSE redacted
    BY DEF Layers!ReadFile, Layers!KeepMarker
  <1>4. entry.value = Layers!Value(at + 1) /\ entry.marker = Layers!Marked(at + 1)
    BY DEF Layers!Value, Layers!Marked
  <1> HIDE DEF entry
  <1>5. /\ raw' = Layers!ValueIn(at + 1) /\ origin' = Layers!FileIn(at + 1)
        /\ redacted' # Layers!None <=> Layers!StandsIn(at + 1)
    BY <1>0, <1>1, <1>2, <1>3, <1>4, LayersRead
  <1>6. /\ raw' = Layers!ValueIn(at)' /\ origin' = Layers!FileIn(at)'
        /\ redacted' # Layers!None <=> Layers!StandsIn(at)'
    BY <1>0, <1>5, LayersStillAt
  <1>7. Layers!Reading' /\ Layers!Read'
    BY <1>0, <1>1, <1>6 DEF Layers!Reading, Layers!Read
  <1>8. Layers!NamesLayers(world)'
    BY <1>0 DEF Layers!LayersInv, Layers!NamesLayers
  <1> QED
    BY <1>0, <1>7, <1>8 DEF Layers!LayersInv, Layers!Overlaid, Layers!Decided

\* All files read, what they come to is what they hold.
LEMMA LayersAllRead ==
  ASSUME Layers!LayersInv, stage = "files", at = Len(Cascade)
  PROVE  /\ raw = Layers!LocalValue /\ origin = Layers!LocalFile
         /\ redacted # Layers!None <=> Layers!LocalMarker
         /\ from = "files" /\ overridden = Layers!None /\ outcome = "no"
         /\ Layers!LocalValue = Layers!None <=> Layers!LocalFile = Layers!None
         /\ Layers!NamesLayers(world)
  <1>1. /\ raw = Layers!ValueIn(at) /\ origin = Layers!FileIn(at) /\ at \in 0 .. Len(Cascade)
        /\ redacted # Layers!None <=> Layers!StandsIn(at)
        /\ from = "files" /\ overridden = Layers!None /\ outcome = "no"
        /\ Layers!NamesLayers(world)
    BY DEF Layers!LayersInv, Layers!Reading
  <1>2. Layers!ValueIn(at) = Layers!None <=> Layers!FileIn(at) = Layers!None
    BY <1>1, LayersNamed
  <1> QED
    BY <1>1, <1>2 DEF Layers!LocalValue, Layers!LocalFile, Layers!LocalMarker

\* The files laid over what the bundle or the cloud holds, or over nothing.
LEMMA LayersLaid ==
  ASSUME Layers!LayersInv, Layers!OverBundle \/ Layers!OverCloud \/ Layers!NoCloud
  PROVE  Layers!LayersInv'
  <1>0. /\ stage = "files" /\ at = Len(Cascade) /\ stage' = "process"
        /\ UNCHANGED <<world, at, redacted, withheld, outcome>>
    BY DEF Layers!OverBundle, Layers!OverCloud, Layers!NoCloud, Layers!LayOver
  <1>1. /\ raw = Layers!LocalValue /\ origin = Layers!LocalFile
        /\ redacted # Layers!None <=> Layers!LocalMarker
        /\ from = "files" /\ overridden = Layers!None /\ outcome = "no"
        /\ Layers!LocalValue = Layers!None <=> Layers!LocalFile = Layers!None
        /\ Layers!NamesLayers(world)
    BY <1>0, LayersAllRead
  <1>2. /\ Layers!LocalValue' = Layers!LocalValue /\ Layers!LocalFile' = Layers!LocalFile
        /\ (Layers!LocalMarker' <=> Layers!LocalMarker) /\ Layers!CloudHeld' = Layers!CloudHeld
    BY <1>0, LayersStill
  <1>3. /\ from' = IF world.bundle # "no" THEN "bundle"
                   ELSE IF world.linked /\ ~world.offline THEN "cloud" ELSE "files"
        /\ raw' = Layers!Laid' /\ origin' = Layers!LaidIn'
        /\ overridden' = IF Layers!Below' # Layers!None /\ Layers!LocalValue # Layers!None
                         THEN Layers!LocalFile ELSE Layers!None
    <2>1. CASE Layers!OverBundle
      <3>1. world.bundle # "no" /\ Layers!LayOver(world.bundle, "bundle")
        BY <2>1 DEF Layers!OverBundle
      <3>2. Layers!Below' = world.bundle
        BY <1>0, <3>1 DEF Layers!Below, Layers!LayOver
      <3> QED
        BY <1>1, <1>2, <3>1, <3>2 DEF Layers!LayOver, Layers!Laid, Layers!LaidIn
    <2>2. CASE Layers!OverCloud
      <3>1. /\ world.bundle = "no" /\ world.linked /\ ~world.offline
            /\ Layers!LayOver(Layers!CloudHeld, "cloud")
        BY <2>2 DEF Layers!OverCloud
      <3>2. Layers!Below' = Layers!CloudHeld
        <4>1. from' = "cloud"
          BY <3>1 DEF Layers!LayOver
        <4> QED
          BY <1>2, <4>1 DEF Layers!Below
      <3> QED
        BY <1>1, <1>2, <3>1, <3>2 DEF Layers!LayOver, Layers!Laid, Layers!LaidIn
    <2>3. CASE Layers!NoCloud
      <3>1. world.bundle = "no" /\ ~world.linked /\ UNCHANGED <<raw, origin, overridden, from>>
        BY <2>3 DEF Layers!NoCloud
      <3>2. Layers!Below' = Layers!None
        BY <1>1, <3>1 DEF Layers!Below
      <3> QED
        BY <1>1, <1>2, <3>1, <3>2 DEF Layers!Laid, Layers!LaidIn
    <2> QED
      BY <2>1, <2>2, <2>3
  <1>4. Layers!Reading' /\ Layers!Read'
    BY <1>0, <1>1, <1>2, <1>3 DEF Layers!Reading, Layers!Read
  <1>5. Layers!Overlaid'
    BY <1>0, <1>1, <1>2, <1>3 DEF Layers!Overlaid
  <1>6. Layers!Decided'
    BY <1>0 DEF Layers!Decided
  <1>7. Layers!NamesLayers(world)'
    BY <1>0, <1>1 DEF Layers!NamesLayers
  <1> QED
    BY <1>0, <1>1, <1>4, <1>5, <1>6, <1>7 DEF Layers!LayersInv

\* Offline, the files alone, or nothing at all.
LEMMA LayersOffline ==
  ASSUME Layers!LayersInv, Layers!Offline PROVE Layers!LayersInv'
  <1>0. /\ stage = "files" /\ at = Len(Cascade)
        /\ UNCHANGED <<world, at, raw, origin, redacted, overridden, from, withheld>>
        /\ world.bundle = "no" /\ world.linked /\ world.offline
        /\ \/ stage' = "process" /\ outcome' = outcome
           \/ stage' = "done" /\ outcome' = "offline"
    BY DEF Layers!Offline
  <1>1. /\ raw = Layers!LocalValue /\ origin = Layers!LocalFile
        /\ redacted # Layers!None <=> Layers!LocalMarker
        /\ from = "files" /\ overridden = Layers!None /\ outcome = "no"
        /\ Layers!NamesLayers(world)
    BY <1>0, LayersAllRead
  <1>2. /\ Layers!LocalValue' = Layers!LocalValue /\ Layers!LocalFile' = Layers!LocalFile
        /\ Layers!LocalMarker' <=> Layers!LocalMarker
    BY <1>0, LayersStill
  <1>3. Layers!Below' = Layers!None /\ Layers!Laid' = Layers!LocalValue /\ Layers!LaidIn' = Layers!LocalFile
    BY <1>0, <1>1, <1>2 DEF Layers!Below, Layers!Laid, Layers!LaidIn
  <1>4. Layers!Reading' /\ Layers!Read'
    BY <1>0, <1>1, <1>2 DEF Layers!Reading, Layers!Read
  <1>5. Layers!Overlaid' /\ Layers!Decided'
    BY <1>0, <1>1, <1>2, <1>3 DEF Layers!Overlaid, Layers!Decided
  <1>6. Layers!NamesLayers(world)'
    BY <1>0, <1>1 DEF Layers!NamesLayers
  <1> QED
    BY <1>0, <1>1, <1>4, <1>5, <1>6 DEF Layers!LayersInv

\* What the process sets is named as what replaced the cloud's value, last.
LEMMA LayersProcess ==
  ASSUME Layers!LayersInv, Layers!ProcessWins PROVE Layers!LayersInv'
  <1>0. /\ stage = "process" /\ stage' = "withhold" /\ outcome = "no"
        /\ UNCHANGED <<world, at, redacted, from, withheld, outcome>>
        /\ raw = Layers!Laid /\ origin = Layers!LaidIn
        /\ overridden = IF Layers!Below # Layers!None /\ Layers!LocalValue # Layers!None
                        THEN Layers!LocalFile ELSE Layers!None
        /\ Layers!NamesLayers(world) /\ Layers!Read
    BY DEF Layers!ProcessWins, Layers!LayersInv, Layers!Overlaid
  <1>1. /\ (Layers!LocalMarker' <=> Layers!LocalMarker) /\ Layers!CloudHeld' = Layers!CloudHeld
        /\ Layers!Spoken' = Layers!Spoken /\ Layers!SpokenIn' = Layers!SpokenIn
    BY <1>0, LayersStill
  <1>2. Layers!LocalValue = Layers!None <=> Layers!LocalFile = Layers!None
    <2>0. Len(Cascade) \in Nat
      BY CascadeIs
    <2>1. Len(Cascade) \in 0 .. Len(Cascade)
      BY <2>0
    <2> QED
      BY <1>0, <2>1, LayersNamed DEF Layers!LocalValue, Layers!LocalFile
  <1>3. /\ raw' = Layers!Spoken /\ origin' = Layers!SpokenIn
        /\ from = "cloud" => overridden' = IF Layers!CloudHeld # Layers!None /\ origin' # Layers!None
                                           THEN origin' ELSE Layers!None
    <2>1. CASE world.process \in {Layers!None, ""}
      <3>1. ~Layers!Speaks /\ UNCHANGED <<raw, origin, overridden>>
        BY <2>1 DEF Layers!Speaks, Layers!ProcessWins
      <3> QED
        BY <1>0, <1>2, <3>1 DEF Layers!Spoken, Layers!SpokenIn, Layers!Below, Layers!LaidIn
    <2>2. CASE world.process \notin {Layers!None, ""}
      <3>1. /\ Layers!Speaks /\ raw' = "process" /\ origin' = "process"
            /\ overridden' = Layers!NameProcess(from = "cloud")
        BY <1>0, <2>2 DEF Layers!Speaks, Layers!ProcessWins, Layers!NamesLayers
      <3>2. ASSUME from = "cloud"
            PROVE  overridden' = IF Layers!CloudHeld # Layers!None THEN "process" ELSE Layers!None
        <4>1. Layers!Below = Layers!CloudHeld /\ Layers!LaidIn = Layers!LocalFile
          BY <3>2 DEF Layers!Below, Layers!LaidIn
        <4>2. overridden' = IF raw = Layers!None THEN overridden
                            ELSE IF overridden # Layers!None \/ origin = Layers!None THEN "process"
                            ELSE overridden
          BY <3>1, <3>2 DEF Layers!NameProcess
        <4> QED
          BY <1>0, <1>2, <4>1, <4>2 DEF Layers!Laid
      <3> QED
        BY <3>1, <3>2 DEF Layers!Spoken, Layers!SpokenIn, Layers!None
    <2> QED
      BY <2>1, <2>2
  <1>4. Layers!Reading' /\ Layers!Read'
    BY <1>0, <1>1 DEF Layers!Reading, Layers!Read
  <1>5. Layers!Overlaid'
    BY <1>0 DEF Layers!Overlaid
  <1>6. Layers!Decided'
    BY <1>0, <1>1, <1>3 DEF Layers!Decided
  <1>7. Layers!NamesLayers(world)'
    BY <1>0 DEF Layers!NamesLayers
  <1> QED
    BY <1>0, <1>4, <1>5, <1>6, <1>7 DEF Layers!LayersInv

\* Whether the key is withheld is settled by what was read.
LEMMA LayersWithhold ==
  ASSUME Layers!LayersInv, Layers!Withhold PROVE Layers!LayersInv'
  <1>0. /\ stage = "withhold" /\ stage' = "defaults" /\ outcome = "no"
        /\ UNCHANGED <<world, at, origin, redacted, overridden, from, outcome>>
        /\ raw = Layers!Spoken /\ origin = Layers!SpokenIn
        /\ from = "cloud" => overridden = IF Layers!CloudHeld # Layers!None /\ origin # Layers!None
                                          THEN origin ELSE Layers!None
        /\ Layers!NamesLayers(world) /\ Layers!Read
        /\ withheld' = (Layers!WriteOnly /\ ~Layers!Supplied /\ ~world.current)
        /\ raw' = IF world.current THEN "environment" ELSE raw
    BY DEF Layers!Withhold, Layers!LayersInv, Layers!Decided
  <1>1. /\ (Layers!LocalMarker' <=> Layers!LocalMarker) /\ Layers!CloudHeld' = Layers!CloudHeld
        /\ Layers!Spoken' = Layers!Spoken /\ Layers!SpokenIn' = Layers!SpokenIn
        /\ Layers!Refused' <=> Layers!Refused
    BY <1>0, LayersStill
  <1>2. withheld' <=> Layers!Refused
    <2>1. from \in {"cloud", "bundle", "files"} /\ (redacted # Layers!None <=> Layers!LocalMarker)
      BY <1>0 DEF Layers!Read
    <2>2. Layers!WriteOnly <=> IF from = "cloud" THEN world.cloud = "withheld"
                               ELSE from = "files" /\ Layers!LocalMarker
      BY <2>1 DEF Layers!WriteOnly
    <2>3. Layers!Supplied <=> /\ Layers!Spoken \notin {Layers!None, ""}
                              /\ from = "cloud" \/ Layers!SpokenIn = "process"
      BY <1>0 DEF Layers!Supplied
    <2> QED
      BY <1>0, <2>2, <2>3 DEF Layers!Refused
  <1>3. Layers!Reading' /\ Layers!Read'
    BY <1>0, <1>1 DEF Layers!Reading, Layers!Read
  <1>4. Layers!Overlaid'
    BY <1>0 DEF Layers!Overlaid
  <1>5. Layers!Decided'
    BY <1>0, <1>1, <1>2 DEF Layers!Decided
  <1>6. Layers!NamesLayers(world)'
    BY <1>0 DEF Layers!NamesLayers
  <1> QED
    BY <1>0, <1>3, <1>4, <1>5, <1>6 DEF Layers!LayersInv

\* The default fills what is still empty, and the run ends.
LEMMA LayersDefaults ==
  ASSUME Layers!LayersInv, Layers!WithDefaults PROVE Layers!LayersInv'
  <1>0. /\ stage = "defaults" /\ stage' = "done" /\ outcome = "no"
        /\ UNCHANGED <<world, at, origin, redacted, overridden, from, withheld>>
        /\ (withheld <=> Layers!Refused) /\ origin = Layers!SpokenIn
        /\ ~world.current => raw = Layers!Spoken
        /\ from = "cloud" => overridden = IF Layers!CloudHeld # Layers!None /\ origin # Layers!None
                                          THEN origin ELSE Layers!None
        /\ Layers!NamesLayers(world) /\ Layers!Read
        /\ raw' = IF raw \in {Layers!None, ""} /\ world.default # Layers!None
                  THEN world.default ELSE raw
        /\ outcome' = IF withheld THEN "refused" ELSE "handed"
    BY DEF Layers!WithDefaults, Layers!LayersInv, Layers!Decided
  <1>1. /\ (Layers!LocalMarker' <=> Layers!LocalMarker) /\ Layers!CloudHeld' = Layers!CloudHeld
        /\ Layers!Spoken' = Layers!Spoken /\ Layers!SpokenIn' = Layers!SpokenIn
        /\ Layers!Refused' <=> Layers!Refused
    BY <1>0, LayersStill
  <1>2. Layers!Reading' /\ Layers!Read'
    BY <1>0, <1>1 DEF Layers!Reading, Layers!Read
  <1>3. Layers!Overlaid'
    BY <1>0 DEF Layers!Overlaid
  <1>4. Layers!Decided'
    BY <1>0, <1>1 DEF Layers!Decided
  <1>5. Layers!NamesLayers(world)'
    BY <1>0 DEF Layers!NamesLayers
  <1> QED
    BY <1>0, <1>2, <1>3, <1>4, <1>5 DEF Layers!LayersInv

\* Every step of a run keeps the inductive invariant.
LEMMA LayersNext ==
  ASSUME Layers!LayersInv, [Layers!Next]_layerVars PROVE Layers!LayersInv'
  <1>1. CASE UNCHANGED layerVars
    <2>0. world' = world /\ from' = from /\ at' = at /\ UNCHANGED layerVars
      BY <1>1 DEF layerVars
    <2>1. Layers!Reading' /\ Layers!Read' /\ Layers!NamesLayers(world)'
      <3>1. /\ Layers!ValueIn(at)' = Layers!ValueIn(at) /\ Layers!FileIn(at)' = Layers!FileIn(at)
            /\ Layers!StandsIn(at)' <=> Layers!StandsIn(at)
            /\ Layers!LocalMarker' <=> Layers!LocalMarker
        BY <2>0, LayersStill, LayersStillAt
      <3> QED
        BY <1>1, <3>1 DEF layerVars, Layers!LayersInv, Layers!Reading, Layers!Read, Layers!NamesLayers
    <2>2. Layers!Overlaid' /\ Layers!Decided'
      BY <2>0, LayersStill DEF layerVars, Layers!LayersInv, Layers!Overlaid, Layers!Decided
    <2> QED
      BY <1>1, <2>1, <2>2 DEF layerVars, Layers!LayersInv
  <1> QED
    BY <1>1, LayersReadFile, LayersLaid, LayersOffline, LayersProcess, LayersWithhold,
       LayersDefaults DEF Layers!Next
\* The inductive invariant says what a run hands over, and what penv() reads.
LEMMA LayersSay ==
  ASSUME Layers!LayersInv
  PROVE  Layers!WithheldIsNotMissing /\ Layers!ReplacedIsNamed /\ Layers!ReadAgreesWithRun
  <1> DEFINE value  == Layers!LocalValue
             spoken == Layers!Spoken
  <1>0. /\ outcome # "no" => stage = "done"
        /\ outcome = "offline" => from = "files"
        /\ outcome \in {"no", "offline", "refused", "handed"}
        /\ Layers!NamesLayers(world)
    BY DEF Layers!LayersInv
  <1>1. ASSUME stage = "done", outcome # "offline"
        PROVE  /\ (redacted # Layers!None <=> Layers!LocalMarker)
               /\ from = IF world.bundle # "no" THEN "bundle"
                         ELSE IF world.linked /\ ~world.offline THEN "cloud" ELSE "files"
               /\ origin = Layers!SpokenIn
               /\ from = "cloud" =>
                    overridden = IF Layers!CloudHeld # Layers!None /\ origin # Layers!None
                                 THEN origin ELSE Layers!None
               /\ withheld <=> Layers!Refused
               /\ outcome = IF withheld THEN "refused" ELSE "handed"
               /\ ~world.current =>
                    raw = IF spoken \in {Layers!None, ""} /\ world.default # Layers!None
                          THEN world.default ELSE spoken
    BY <1>1 DEF Layers!LayersInv, Layers!Read, Layers!Decided
  <1>2. /\ (value = Layers!None <=> Layers!LocalFile = Layers!None)
        /\ value \in {Layers!None, ""} \cup Layers!Range(Cascade)
        /\ Layers!LocalFile # "process" /\ value # "process"
    <2>0. Len(Cascade) \in Nat
      BY CascadeIs
    <2>1. Len(Cascade) \in 0 .. Len(Cascade)
      BY <2>0
    <2> QED
      BY <1>0, <2>1, LayersNamed DEF Layers!LocalValue, Layers!LocalFile
  <1>3. /\ world.process \in {Layers!None, "", "process"}
        /\ (Layers!Speaks <=> world.process = "process")
    BY <1>0 DEF Layers!NamesLayers, Layers!Speaks, Layers!None
  <1>4. /\ spoken = IF Layers!Speaks THEN "process" ELSE Layers!Laid
        /\ Layers!SpokenIn = IF Layers!Speaks THEN "process" ELSE Layers!LaidIn
        /\ Layers!Laid = IF value # Layers!None THEN value ELSE Layers!Below
        /\ from # "bundle" => Layers!LaidIn = Layers!LocalFile
        /\ Layers!Refused <=>
             /\ IF from = "cloud" THEN world.cloud = "withheld" ELSE from = "files" /\ Layers!LocalMarker
             /\ ~(spoken \notin {Layers!None, ""} /\ (from = "cloud" \/ Layers!SpokenIn = "process"))
             /\ ~world.current
        /\ from = "cloud" => Layers!Below = Layers!CloudHeld
        /\ from = "files" => Layers!Below = Layers!None
    BY DEF Layers!Spoken, Layers!SpokenIn, Layers!Laid, Layers!LaidIn, Layers!Refused, Layers!Below
  <1>5. world.cloud = "withheld" => Layers!CloudHeld = Layers!None
    BY DEF Layers!CloudHeld
  <1>6. Layers!None # "" /\ Layers!None # "process"
    BY DEF Layers!None
  <1> HIDE DEF value, spoken
  <1>7. Layers!WithheldIsNotMissing
    <2> SUFFICES ASSUME outcome = "handed", ~world.current
                 PROVE  /\ from = "cloud" => (world.cloud = "withheld"
                                              => raw \in Layers!Range(Cascade) \cup {"process"})
                        /\ from = "files" => (Layers!LocalMarker => raw = "process")
                        /\ from \in {"cloud", "files", "bundle"}
      BY DEF Layers!WithheldIsNotMissing
    <2>1. stage = "done" /\ outcome # "offline" /\ outcome # "refused" /\ outcome # "no"
      BY <1>0
    <2>2. ~Layers!Refused
      BY <1>1, <2>1
    <2>3. raw = IF spoken \in {Layers!None, ""} /\ world.default # Layers!None
                THEN world.default ELSE spoken
      BY <1>1, <2>1
    <2>4. ASSUME from = "cloud", world.cloud = "withheld"
          PROVE  raw \in Layers!Range(Cascade) \cup {"process"}
      <3>1. spoken \notin {Layers!None, ""} /\ Layers!Below = Layers!None
        BY <1>4, <1>5, <2>2, <2>4
      <3>2. spoken = "process" \/ spoken = value
        BY <1>4, <3>1
      <3> QED
        BY <1>2, <2>3, <3>1, <3>2
    <2>5. ASSUME from = "files", Layers!LocalMarker PROVE raw = "process"
      <3>1. spoken \notin {Layers!None, ""} /\ Layers!SpokenIn = "process"
        BY <1>4, <2>2, <2>5
      <3>2. Layers!Speaks
        BY <1>2, <1>4, <2>5, <3>1
      <3> QED
        BY <1>4, <1>6, <2>3, <3>2
    <2>6. from \in {"cloud", "files", "bundle"}
      BY <1>1, <2>1
    <2> QED
      BY <2>4, <2>5, <2>6
  <1>8. Layers!ReplacedIsNamed
    BY <1>0, <1>1 DEF Layers!ReplacedIsNamed
  <1>9. Layers!ReadAgreesWithRun
    <2> SUFFICES ASSUME outcome \in {"refused", "handed"}, world.bundle = "no",
                        world.process \in {Layers!None, ""}, ~world.current,
                        ~(world.linked /\ world.offline)
                 PROVE  Layers!ReadElsewhere = IF outcome = "refused" THEN "refused" ELSE raw
      BY DEF Layers!ReadAgreesWithRun
    <2>0. stage = "done" /\ outcome # "offline"
      BY <1>0
    <2>1. /\ (outcome = "refused" <=> Layers!Refused) /\ ~Layers!Speaks
          /\ spoken = (IF value # Layers!None THEN value ELSE Layers!Below)
          /\ raw = IF spoken \in {Layers!None, ""} /\ world.default # Layers!None
                   THEN world.default ELSE spoken
      BY <1>1, <1>3, <1>4, <1>6, <2>0
    <2>2. CASE world.linked
      <3>1. from = "cloud" /\ ~world.offline
        BY <1>1, <2>0, <2>2
      <3>2. Layers!Refused <=> world.cloud = "withheld" /\ value \in {Layers!None, ""}
        BY <1>4, <1>5, <2>1, <3>1
      <3> QED
        BY <1>4, <2>1, <2>2, <3>1, <3>2 DEF Layers!ReadElsewhere, value
    <2>3. CASE ~world.linked
      <3>1. from = "files"
        BY <1>1, <2>0, <2>3
      <3>2. Layers!Refused <=> Layers!LocalMarker
        BY <1>2, <1>4, <2>1, <3>1
      <3> QED
        BY <1>4, <2>1, <2>3, <3>1, <3>2 DEF Layers!ReadElsewhere, value
    <2> QED
      BY <2>2, <2>3
  <1> QED
    BY <1>7, <1>8, <1>9

-----------------------------------------------------------------------------
(* The editor and its server.                                              *)

\* A sequence with one more at its end.
LEMMA Appended ==
  ASSUME NEW S, NEW s \in Seq(S), NEW m \in S
  PROVE  /\ Append(s, m) \in Seq(S) /\ Len(s) \in Nat /\ Len(Append(s, m)) = Len(s) + 1
         /\ \A i \in 1 .. Len(s) : Append(s, m)[i] = s[i]
         /\ Append(s, m)[Len(s) + 1] = m
  OBVIOUS

\* A sequence without its first.
LEMMA Tailed ==
  ASSUME NEW S, NEW s \in Seq(S), s # <<>>
  PROVE  /\ Tail(s) \in Seq(S) /\ Len(s) \in Nat \ {0} /\ Len(Tail(s)) = Len(s) - 1
         /\ Head(s) = s[1] /\ Head(s) \in S
         /\ \A i \in 1 .. (Len(s) - 1) : Tail(s)[i] = s[i + 1]
  OBVIOUS

\* The server starts with no document and nothing to show.
LEMMA EditorInit == Editor!Init => Editor!EditorInv
  <1> SUFFICES ASSUME Editor!Init PROVE Editor!EditorInv
    OBVIOUS
  <1>1. /\ pipe = <<>> /\ documents = [u \in Uris |-> Closed] /\ initialized = FALSE
        /\ shutdown = FALSE /\ disk \in Disks /\ buffer = [u \in Uris |-> Closed]
        /\ since = [u \in Uris |-> {}] /\ shown = [u \in Uris |-> Clean] /\ told = <<>>
        /\ Len(pipe) = 0
    BY DEF Editor!Init
  <1>2. Editor!TypeOK
    <2>1. <<>> \in Seq(Editor!Messages)
      OBVIOUS
    <2> QED
      BY <1>1, <2>1 DEF Editor!TypeOK, Editor!Holds
  <1>3. Editor!GreetedFirst
    BY <1>1 DEF Editor!GreetedFirst
  <1>4. Editor!Carried
    <2> SUFFICES ASSUME NEW u \in Schemas
                 PROVE  \E texts \in [1 .. (Len(pipe) + 1) -> Editor!Holds] : Editor!Along(texts, u)
      BY DEF Editor!Carried
    <2> DEFINE texts == [i \in 1 .. (Len(pipe) + 1) |-> Closed]
    <2>1. u \in Uris
      BY EditorAssumption DEF Editor!EditorAssumption
    <2>2. texts \in [1 .. (Len(pipe) + 1) -> Editor!Holds] /\ texts[1] = Closed
      BY <1>1 DEF Editor!Holds
    <2>3. Editor!Along(texts, u)
      BY <1>1, <2>1, <2>2 DEF Editor!Along
    <2> QED
      BY <2>2, <2>3
  <1>5. Editor!Current
    BY <1>1 DEF Editor!Current, Editor!Diagnosed
  <1> QED
    BY <1>1, <1>2, <1>3, <1>4, <1>5 DEF Editor!EditorInv

\* What the editor writes takes the text it held to the one it holds.
LEMMA EditorSends ==
  ASSUME Editor!EditorInv, NEW m \in Editor!Messages, pipe' = Append(pipe, m),
         UNCHANGED <<documents, initialized, shutdown, disk, shown, told>>,
         buffer' \in [Uris -> Editor!Holds], since' \in [Uris -> SUBSET Disks],
         \A u \in Schemas : Editor!Leads(buffer[u], m, buffer'[u], u),
         m.is \in Editor!Notifications => Editor!Greeted,
         \A u \in Uris :
           /\ buffer'[u] # Closed =>
                disk \in since'[u] /\ (buffer[u] # Closed \/ Editor!Greeted)
           /\ \/ m.is \in Editor!Notifications /\ m.uri = u
              \/ buffer'[u] = buffer[u] /\ since'[u] = since[u]
  PROVE  Editor!EditorInv'
  <1>0. /\ Editor!TypeOK /\ Editor!GreetedFirst /\ Editor!Carried /\ Editor!Current
        /\ (told # <<>> /\ told[3] \in Schemas) => told[1] = told[2]
    BY DEF Editor!EditorInv
  <1> DEFINE n == Len(pipe)
  <1>1. /\ pipe' \in Seq(Editor!Messages) /\ n \in Nat /\ Len(pipe') = n + 1
        /\ \A i \in 1 .. n : pipe'[i] = pipe[i]
        /\ pipe'[n + 1] = m
    BY <1>0, Appended DEF Editor!TypeOK
  <1>n. n = Len(pipe)
    OBVIOUS
  <1> HIDE DEF n
  <1>g. Editor!Greeted => initialized \/ \E j \in 1 .. n : pipe[j].is = "initialize"
    <2>1. DOMAIN pipe = 1 .. n
      BY <1>0, <1>n DEF Editor!TypeOK
    <2> QED
      BY <2>1 DEF Editor!Greeted
  <1>h. Editor!Greeted => Editor!Greeted'
    <2>1. DOMAIN pipe' = 1 .. (n + 1)
      BY <1>1
    <2> QED
      BY <1>1, <1>g, <2>1 DEF Editor!Greeted
  <1>2. Editor!TypeOK'
    BY <1>0, <1>1 DEF Editor!TypeOK, Editor!Holds, Editor!Messages, Editor!Kinds
  <1>3. Editor!GreetedFirst'
    <2>1. ASSUME NEW i \in 1 .. Len(pipe'), pipe'[i].is \in Editor!Notifications
          PROVE  initialized \/ \E j \in 1 .. (i - 1) : pipe'[j].is = "initialize"
      <3>1. CASE i \in 1 .. n
        <4>1. initialized \/ \E j \in 1 .. (i - 1) : pipe[j].is = "initialize"
          BY <1>0, <1>1, <1>n, <2>1, <3>1 DEF Editor!GreetedFirst
        <4> QED
          BY <1>1, <3>1, <4>1
      <3>2. CASE i = n + 1
        <4>1. initialized \/ \E j \in 1 .. n : pipe[j].is = "initialize"
          BY <1>1, <1>g, <2>1, <3>2
        <4> QED
          BY <1>1, <3>2, <4>1
      <3> QED
        BY <1>1, <2>1, <3>1, <3>2
    <2>2. \A u \in Uris : buffer'[u] # Closed => Editor!Greeted'
      BY <1>0, <1>h DEF Editor!GreetedFirst
    <2> QED
      BY <2>1, <2>2 DEF Editor!GreetedFirst, Editor!Notifications
  <1>4. Editor!Carried'
    <2> SUFFICES ASSUME ~shutdown, NEW u \in Schemas
                 PROVE  \E texts \in [1 .. (Len(pipe') + 1) -> Editor!Holds] : Editor!Along(texts, u)'
      BY DEF Editor!Carried, Editor!Holds
    <2>1. PICK texts \in [1 .. (n + 1) -> Editor!Holds] : Editor!Along(texts, u)
      BY <1>0, <1>n DEF Editor!Carried
    <2>2. /\ texts[1] = documents[u] /\ texts[n + 1] = buffer[u]
          /\ \A i \in 1 .. n : Editor!Leads(texts[i], pipe[i], texts[i + 1], u)
      BY <2>1, <1>n DEF Editor!Along
    <2> DEFINE more == [i \in 1 .. (n + 2) |-> IF i = n + 2 THEN buffer'[u] ELSE texts[i]]
    <2>3. u \in Uris
      BY EditorAssumption DEF Editor!EditorAssumption
    <2>4. more \in [1 .. (n + 2) -> Editor!Holds]
      BY <1>1, <2>1, <2>3
    <2>5. \A i \in 1 .. (n + 1) : more[i] = texts[i]
      BY <1>1
    <2>6. more[n + 2] = buffer'[u]
      BY <1>1
    <2> HIDE DEF more
    <2>7. \A i \in 1 .. (n + 1) : Editor!Leads(more[i], pipe'[i], more[i + 1], u)
      <3> SUFFICES ASSUME NEW i \in 1 .. (n + 1)
                   PROVE  Editor!Leads(more[i], pipe'[i], more[i + 1], u)
        OBVIOUS
      <3>1. CASE i \in 1 .. n
        <4>1. more[i] = texts[i] /\ more[i + 1] = texts[i + 1] /\ pipe'[i] = pipe[i]
          BY <1>1, <2>5, <3>1
        <4> QED
          BY <2>2, <3>1, <4>1
      <3>2. CASE i = n + 1
        <4>1. more[i] = buffer[u] /\ more[i + 1] = buffer'[u] /\ pipe'[i] = m
          BY <1>1, <2>2, <2>5, <2>6, <3>2
        <4> QED
          BY <4>1
      <3> QED
        BY <1>1, <3>1, <3>2
    <2>8. more[1] = documents'[u]
      BY <1>1, <2>2, <2>5
    <2>9. PICK t \in [1 .. (n + 2) -> Editor!Holds] :
            /\ t[1] = documents'[u] /\ t[n + 2] = buffer'[u]
            /\ \A i \in 1 .. (n + 1) : Editor!Leads(t[i], pipe'[i], t[i + 1], u)
      BY <2>4, <2>6, <2>7, <2>8
    <2>10. Len(pipe') + 1 = n + 2
      BY <1>1
    <2>11. Editor!Along(t, u)'
      BY <1>1, <2>9, <2>10 DEF Editor!Along, Editor!Leads, Editor!About
    <2> QED
      BY <2>10, <2>11
  <1>5. Editor!Current'
    <2> SUFFICES ASSUME NEW u \in Uris
                 PROVE  /\ buffer'[u] # Closed => disk \in since'[u]
                        /\ u \notin Schemas => documents[u] = Closed /\ shown[u] = Clean
                        /\ ~shutdown /\ ~Editor!Spoken(u)' => shown[u] \in Editor!Diagnosed(u)'
      BY DEF Editor!Current, Editor!Spoken, Editor!Diagnosed, Editor!Notifications
    <2>1. ASSUME ~shutdown, ~Editor!Spoken(u)' PROVE shown[u] \in Editor!Diagnosed(u)'
      <3>1. \A i \in 1 .. (n + 1) : ~(pipe'[i].is \in Editor!Notifications /\ pipe'[i].uri = u)
        BY <1>1, <2>1 DEF Editor!Spoken, Editor!Notifications
      <3>2. ~Editor!Spoken(u)
        BY <1>1, <1>n, <3>1 DEF Editor!Spoken
      <3>3. n + 1 \in 1 .. (n + 1)
        BY <1>1
      <3>4. buffer'[u] = buffer[u] /\ since'[u] = since[u]
        BY <1>1, <3>1, <3>3
      <3>5. shown[u] \in Editor!Diagnosed(u)
        BY <1>0, <2>1, <3>2 DEF Editor!Current
      <3> QED
        BY <3>4, <3>5 DEF Editor!Diagnosed
    <2> QED
      BY <1>0, <2>1 DEF Editor!Current
  <1> QED
    BY <1>0, <1>2, <1>3, <1>4, <1>5 DEF Editor!EditorInv

\* What does not change from one to the next does not change at all.
LEMMA Unmoved ==
  ASSUME NEW n \in Nat \ {0}, NEW t, \A i \in 2 .. n : t[i + 1] = t[i]
  PROVE  t[n + 1] = t[2]
  <1> DEFINE Moved == {i \in 2 .. (n + 1) : t[i] # t[2]}
  <1>1. Moved \in SUBSET Nat
    OBVIOUS
  <1>2. ASSUME Moved # {} PROVE FALSE
    <2>1. PICK i \in Moved : \A j \in Moved : i <= j
      <3> HIDE DEF Moved
      <3> QED
        BY <1>1, <1>2, Least
    <2>2. i \in 2 .. (n + 1) /\ t[i] # t[2]
      BY <2>1
    <2>3. i - 1 \in 2 .. n /\ (i - 1) + 1 = i
      BY <2>2
    <2>4. t[i] = t[i - 1]
      BY <2>3
    <2>5. i - 1 \in Moved
      BY <2>2, <2>3, <2>4
    <2> QED
      BY <2>1, <2>2, <2>5
  <1> QED
    BY <1>2

\* With no more of a document in the pipe, the editor holds what the message says.
LEMMA EditorQuiet ==
  ASSUME Editor!EditorInv, pipe # <<>>, ~shutdown, NEW u \in Schemas,
         Editor!About(Head(pipe), u),
         \A i \in 2 .. Len(pipe) : ~(pipe[i].is \in Editor!Notifications /\ pipe[i].uri = u)
  PROVE  buffer[u] = Head(pipe).held
  <1> DEFINE n == Len(pipe)
  <1>1. pipe \in Seq(Editor!Messages) /\ Editor!Carried
    BY DEF Editor!EditorInv, Editor!TypeOK
  <1>2. n \in Nat \ {0} /\ Head(pipe) = pipe[1]
    BY <1>1, Tailed
  <1>3. PICK texts \in [1 .. (n + 1) -> Editor!Holds] : Editor!Along(texts, u)
    BY <1>1 DEF Editor!Carried
  <1>4. /\ texts[n + 1] = buffer[u]
        /\ \A i \in 1 .. n : Editor!Leads(texts[i], pipe[i], texts[i + 1], u)
    BY <1>3 DEF Editor!Along
  <1>5. \A i \in 2 .. n : ~(pipe[i].is \in Editor!Notifications /\ pipe[i].uri = u)
    OBVIOUS
  <1> HIDE DEF n
  <1>6. texts[2] = Head(pipe).held
    <2>1. 1 \in 1 .. n /\ 1 + 1 = 2
      BY <1>2
    <2>2. Editor!Leads(texts[1], pipe[1], texts[2], u)
      BY <1>4, <2>1
    <2> QED
      BY <1>2, <2>2 DEF Editor!Leads
  <1>7. \A i \in 2 .. n : texts[i + 1] = texts[i]
    <2> SUFFICES ASSUME NEW i \in 2 .. n PROVE texts[i + 1] = texts[i]
      OBVIOUS
    <2>1. Editor!Leads(texts[i], pipe[i], texts[i + 1], u)
      BY <1>2, <1>4
    <2>2. Editor!About(pipe[i], u) => pipe[i].is = "ask"
      BY <1>5 DEF Editor!About
    <2> QED
      BY <2>1, <2>2 DEF Editor!Leads
  <1>8. texts[n + 1] = texts[2]
    BY <1>2, <1>7, Unmoved
  <1> QED
    BY <1>4, <1>6, <1>8

\* The message at the head of the pipe leads from the server's copy.
LEMMA EditorHead ==
  ASSUME Editor!EditorInv, pipe # <<>>, ~shutdown, NEW u \in Schemas
  PROVE  \E b \in Editor!Holds : Editor!Leads(documents[u], Head(pipe), b, u)
  <1>1. pipe \in Seq(Editor!Messages) /\ Editor!Carried
    BY DEF Editor!EditorInv, Editor!TypeOK
  <1>2. Len(pipe) \in Nat \ {0} /\ Head(pipe) = pipe[1]
    BY <1>1, Tailed
  <1>3. PICK texts \in [1 .. (Len(pipe) + 1) -> Editor!Holds] : Editor!Along(texts, u)
    BY <1>1 DEF Editor!Carried
  <1>4. 1 \in 1 .. Len(pipe) /\ 2 \in 1 .. (Len(pipe) + 1) /\ 1 + 1 = 2
    BY <1>2
  <1>5. Editor!Leads(documents[u], Head(pipe), texts[2], u)
    BY <1>2, <1>3, <1>4 DEF Editor!Along
  <1> QED
    BY <1>3, <1>4, <1>5

\* What the server reads it takes as the editor meant it.
LEMMA EditorReads ==
  ASSUME Editor!EditorInv, pipe # <<>>, pipe' = Tail(pipe),
         UNCHANGED <<buffer, since, disk>>,
         documents' \in [Uris -> Editor!Holds], DOMAIN shown' = Uris,
         shutdown => shutdown', initialized => initialized',
         Head(pipe).is = "initialize" => initialized',
         ~shutdown' =>
           \A u \in Schemas :
             /\ documents'[u] = IF Editor!About(Head(pipe), u) THEN Head(pipe).held ELSE documents[u]
             /\ shown'[u] = IF Head(pipe).is \in Editor!Notifications /\ Head(pipe).uri = u
                            THEN IF Head(pipe).held = Closed THEN Clean
                                 ELSE Findings[<<Head(pipe).held, disk>>]
                            ELSE shown[u],
         \A u \in Uris \ Schemas : documents'[u] = Closed /\ shown'[u] = Clean,
         (told' # <<>> /\ told'[3] \in Schemas) => told'[1] = told'[2]
  PROVE  Editor!EditorInv'
  <1>0. Editor!TypeOK /\ Editor!GreetedFirst /\ Editor!Carried /\ Editor!Current
    BY DEF Editor!EditorInv
  <1> DEFINE n == Len(pipe)
             m == Head(pipe)
  <1>1. /\ pipe' \in Seq(Editor!Messages) /\ n \in Nat \ {0} /\ Len(pipe') = n - 1
        /\ m = pipe[1] /\ m \in Editor!Messages
        /\ \A i \in 1 .. (n - 1) : pipe'[i] = pipe[i + 1]
    BY <1>0, Tailed DEF Editor!TypeOK
  <1>n. n = Len(pipe) /\ m = Head(pipe)
    OBVIOUS
  <1> HIDE DEF n, m
  <1>2. Editor!TypeOK'
    BY <1>0, <1>1 DEF Editor!TypeOK, Editor!Holds, Editor!Messages, Editor!Kinds
  <1>3. Editor!GreetedFirst'
    <2>1. ASSUME NEW i \in 1 .. (n - 1), pipe'[i].is \in Editor!Notifications, ~initialized'
          PROVE  \E j \in 1 .. (i - 1) : pipe'[j].is = "initialize"
      <3>1. i + 1 \in 1 .. n /\ pipe[i + 1].is \in Editor!Notifications /\ ~initialized
        BY <1>1, <2>1
      <3>2. PICK k \in 1 .. ((i + 1) - 1) : pipe[k].is = "initialize"
        BY <1>0, <1>n, <3>1 DEF Editor!GreetedFirst
      <3>3. k # 1
        BY <1>1, <1>n, <2>1, <3>2
      <3>4. k - 1 \in 1 .. (i - 1) /\ k - 1 \in 1 .. (n - 1) /\ (k - 1) + 1 = k
        BY <1>1, <2>1, <3>2, <3>3
      <3> QED
        BY <1>1, <3>2, <3>4
    <2>2. ASSUME NEW u \in Uris, buffer'[u] # Closed, ~initialized'
          PROVE  \E i \in 1 .. (n - 1) : pipe'[i].is = "initialize"
      <3>1. ~initialized /\ Editor!Greeted /\ DOMAIN pipe = 1 .. n
        BY <1>0, <1>n, <2>2 DEF Editor!GreetedFirst, Editor!TypeOK
      <3>2. PICK k \in 1 .. n : pipe[k].is = "initialize"
        BY <3>1 DEF Editor!Greeted
      <3>3. k # 1
        BY <1>1, <1>n, <2>2, <3>2
      <3>4. k - 1 \in 1 .. (n - 1) /\ (k - 1) + 1 = k
        BY <1>1, <3>2, <3>3
      <3>5. pipe'[k - 1] = pipe[k]
        BY <1>1, <3>4
      <3> QED
        BY <3>2, <3>4, <3>5
    <2>3. DOMAIN pipe' = 1 .. (n - 1)
      BY <1>1
    <2>4. \A u \in Uris : buffer'[u] # Closed => Editor!Greeted'
      BY <2>2, <2>3 DEF Editor!Greeted
    <2> QED
      BY <1>1, <2>1, <2>4 DEF Editor!GreetedFirst, Editor!Notifications
  <1>4. Editor!Carried'
    <2> SUFFICES ASSUME ~shutdown', NEW u \in Schemas
                 PROVE  \E texts \in [1 .. (Len(pipe') + 1) -> Editor!Holds] : Editor!Along(texts, u)'
      BY DEF Editor!Carried, Editor!Holds
    <2>1. PICK texts \in [1 .. (n + 1) -> Editor!Holds] : Editor!Along(texts, u)
      BY <1>0, <1>n DEF Editor!Carried
    <2>2. /\ texts[1] = documents[u] /\ texts[n + 1] = buffer[u]
          /\ \A i \in 1 .. n : Editor!Leads(texts[i], pipe[i], texts[i + 1], u)
      BY <2>1, <1>n DEF Editor!Along
    <2> DEFINE fewer == [i \in 1 .. n |-> texts[i + 1]]
    <2>3. fewer \in [1 .. n -> Editor!Holds] /\ \A i \in 1 .. n : fewer[i] = texts[i + 1]
      BY <1>1, <2>1
    <2> HIDE DEF fewer
    <2>4. texts[2] = documents'[u]
      <3>1. 1 \in 1 .. n /\ 1 + 1 = 2
        BY <1>1
      <3>2. Editor!Leads(documents[u], m, texts[2], u)
        BY <1>1, <2>2, <3>1
      <3> QED
        BY <1>n, <3>2 DEF Editor!Leads
    <2>5. \A i \in 1 .. (n - 1) : Editor!Leads(fewer[i], pipe'[i], fewer[i + 1], u)
      <3> SUFFICES ASSUME NEW i \in 1 .. (n - 1)
                   PROVE  Editor!Leads(fewer[i], pipe'[i], fewer[i + 1], u)
        OBVIOUS
      <3>1. /\ i \in 1 .. n /\ i + 1 \in 1 .. n
            /\ fewer[i] = texts[i + 1] /\ fewer[i + 1] = texts[(i + 1) + 1]
            /\ pipe'[i] = pipe[i + 1]
        BY <1>1, <2>3
      <3> QED
        BY <2>2, <3>1
    <2>6. fewer[1] = documents'[u] /\ fewer[n] = buffer'[u]
      <3>1. 1 \in 1 .. n /\ n \in 1 .. n /\ 1 + 1 = 2
        BY <1>1
      <3> QED
        BY <2>2, <2>3, <2>4, <3>1
    <2>7. Len(pipe') = n - 1 /\ Len(pipe') + 1 = n
      BY <1>1
    <2>8. PICK t \in [1 .. n -> Editor!Holds] :
            /\ t[1] = documents'[u] /\ t[n] = buffer'[u]
            /\ \A i \in 1 .. (n - 1) : Editor!Leads(t[i], pipe'[i], t[i + 1], u)
      BY <2>3, <2>5, <2>6
    <2>9. Editor!Along(t, u)'
      BY <2>7, <2>8 DEF Editor!Along, Editor!Leads, Editor!About
    <2> QED
      BY <2>7, <2>9
  <1>5. Editor!Current'
    <2> SUFFICES ASSUME NEW u \in Uris
                 PROVE  /\ buffer[u] # Closed => disk \in since[u]
                        /\ u \notin Schemas => documents'[u] = Closed /\ shown'[u] = Clean
                        /\ ~shutdown' /\ ~Editor!Spoken(u)' => shown'[u] \in Editor!Diagnosed(u)
      BY DEF Editor!Current, Editor!Spoken, Editor!Diagnosed, Editor!Notifications
    <2>1. CASE u \notin Schemas
      BY <1>0, <2>1 DEF Editor!Current, Editor!Diagnosed
    <2>2. CASE u \in Schemas
      <3>1. ASSUME ~shutdown', ~Editor!Spoken(u)' PROVE shown'[u] \in Editor!Diagnosed(u)
        <4>1. \A i \in 1 .. (n - 1) : ~(pipe'[i].is \in Editor!Notifications /\ pipe'[i].uri = u)
          BY <1>1, <3>1 DEF Editor!Spoken, Editor!Notifications
        <4>2. \A i \in 2 .. n : ~(pipe[i].is \in Editor!Notifications /\ pipe[i].uri = u)
          <5> SUFFICES ASSUME NEW i \in 2 .. n
                       PROVE  ~(pipe[i].is \in Editor!Notifications /\ pipe[i].uri = u)
            OBVIOUS
          <5>1. i - 1 \in 1 .. (n - 1) /\ (i - 1) + 1 = i
            BY <1>1
          <5> QED
            BY <1>1, <4>1, <5>1
        <4>3. CASE m.is \in Editor!Notifications /\ m.uri = u
          <5>1. shown'[u] = IF m.held = Closed THEN Clean ELSE Findings[<<m.held, disk>>]
            BY <1>n, <2>2, <3>1, <4>3
          <5>2. buffer[u] = m.held
            <6>1. Editor!About(m, u) /\ ~shutdown
              BY <3>1, <4>3 DEF Editor!About
            <6> QED
              BY <1>n, <2>2, <4>2, <6>1, EditorQuiet
          <5>3. CASE buffer[u] = Closed
            BY <5>1, <5>2, <5>3 DEF Editor!Diagnosed
          <5>4. CASE buffer[u] # Closed
            <6>1. shown'[u] = Findings[<<buffer[u], disk>>] /\ disk \in since[u]
              BY <1>0, <5>1, <5>2, <5>4 DEF Editor!Current
            <6>2. Editor!Diagnosed(u) = {Findings[<<buffer[u], d>>] : d \in since[u]}
              BY <2>2, <5>4 DEF Editor!Diagnosed
            <6>3. Findings[<<buffer[u], disk>>] \in {Findings[<<buffer[u], d>>] : d \in since[u]}
              BY <6>1
            <6> QED
              BY <6>1, <6>2, <6>3
          <5> QED
            BY <5>3, <5>4
        <4>4. CASE ~(m.is \in Editor!Notifications /\ m.uri = u)
          <5>1. shown'[u] = shown[u] /\ ~shutdown
            BY <1>n, <2>2, <3>1, <4>4
          <5>2. ~Editor!Spoken(u)
            <6>1. \A i \in 1 .. n : i = 1 \/ i \in 2 .. n
              BY <1>1
            <6> QED
              BY <1>1, <1>n, <4>2, <4>4, <6>1 DEF Editor!Spoken
          <5> QED
            BY <1>0, <5>1, <5>2 DEF Editor!Current
        <4> QED
          BY <4>3, <4>4
      <3> QED
        BY <1>0, <2>2, <3>1 DEF Editor!Current
    <2> QED
      BY <2>1, <2>2
  <1> QED
    BY <1>2, <1>3, <1>4, <1>5 DEF Editor!EditorInv

\* A step that moves neither end of the pipe nor what is shown.
LEMMA EditorStill ==
  ASSUME Editor!EditorInv,
         UNCHANGED <<pipe, documents, initialized, shutdown, disk, buffer, since, shown, told>>
  PROVE  Editor!EditorInv'
  BY DEF Editor!EditorInv, Editor!TypeOK, Editor!GreetedFirst, Editor!Carried, Editor!Current,
     Editor!Along, Editor!Leads, Editor!About, Editor!Spoken, Editor!Greeted, Editor!Diagnosed,
     Editor!Notifications, Editor!Holds, Editor!Messages, Editor!Kinds, Editor!Changed

\* A message that says nothing of a schema leaves the documents as they are.
LEMMA EditorPasses ==
  ASSUME Editor!EditorInv, pipe # <<>>, pipe' = Tail(pipe),
         UNCHANGED <<buffer, since, disk, documents, shown>>,
         shutdown => shutdown', initialized => initialized',
         Head(pipe).is = "initialize" => initialized',
         ~shutdown' => Head(pipe).is \notin Editor!Notifications \/ Head(pipe).uri \notin Schemas,
         (told' # <<>> /\ told'[3] \in Schemas) => told'[1] = told'[2]
  PROVE  Editor!EditorInv'
  <1>1. Editor!TypeOK /\ Editor!Current
    BY DEF Editor!EditorInv
  <1>2. documents' \in [Uris -> Editor!Holds] /\ DOMAIN shown' = Uris
    BY <1>1 DEF Editor!TypeOK
  <1>3. \A u \in Uris \ Schemas : documents'[u] = Closed /\ shown'[u] = Clean
    BY <1>1 DEF Editor!Current
  <1>4. ASSUME ~shutdown', NEW u \in Schemas
        PROVE  /\ documents'[u] = IF Editor!About(Head(pipe), u) THEN Head(pipe).held ELSE documents[u]
               /\ shown'[u] = IF Head(pipe).is \in Editor!Notifications /\ Head(pipe).uri = u
                              THEN IF Head(pipe).held = Closed THEN Clean
                                   ELSE Findings[<<Head(pipe).held, disk>>]
                              ELSE shown[u]
    <2>1. ~(Head(pipe).is \in Editor!Notifications /\ Head(pipe).uri = u)
      BY <1>4
    <2>2. PICK b \in Editor!Holds : Editor!Leads(documents[u], Head(pipe), b, u)
      BY <1>4, EditorHead
    <2>3. Editor!About(Head(pipe), u) => Head(pipe).is = "ask" /\ b = Head(pipe).held /\ b = documents[u]
      BY <2>1, <2>2 DEF Editor!About, Editor!Leads
    <2> QED
      BY <2>1, <2>3
  <1> QED
    BY <1>2, <1>3, <1>4, EditorReads

\* What the server answers of a document is of the text the editor held when it asked.
LEMMA EditorAnswers ==
  ASSUME Editor!EditorInv, Editor!Answer
  PROVE  (told' # <<>> /\ told'[3] \in Schemas) => told'[1] = told'[2]
  <1>1. /\ pipe # <<>> /\ Head(pipe).is = "ask" /\ ~shutdown
        /\ told' = <<documents[Head(pipe).uri], Head(pipe).held, Head(pipe).uri>>
    BY DEF Editor!Answer, Editor!Read
  <1> SUFFICES ASSUME Head(pipe).uri \in Schemas PROVE documents[Head(pipe).uri] = Head(pipe).held
    BY <1>1
  <1>2. PICK b \in Editor!Holds : Editor!Leads(documents[Head(pipe).uri], Head(pipe), b, Head(pipe).uri)
    BY <1>1, EditorHead
  <1> QED
    BY <1>1, <1>2 DEF Editor!Leads, Editor!About

\* What the server ignores is of no schema, or comes after shutdown.
LEMMA EditorIgnores ==
  ASSUME Editor!EditorInv, Editor!Ignore
  PROVE  ~shutdown => Head(pipe).uri \notin Schemas
  <1>1. /\ pipe # <<>> /\ Head(pipe).is \in Editor!Notifications
        /\ \/ ~ initialized \/ shutdown
           \/ Head(pipe).is = "open" /\ Head(pipe).uri \notin Schemas
           \/ Head(pipe).is # "open" /\ documents[Head(pipe).uri] = Closed
    BY DEF Editor!Ignore, Editor!Read
  <1>2. initialized
    <2>1. Len(pipe) \in Nat \ {0} /\ Head(pipe) = pipe[1] /\ 1 \in 1 .. Len(pipe)
      BY <1>1, Tailed DEF Editor!EditorInv, Editor!TypeOK
    <2>2. initialized \/ \E j \in 1 .. (1 - 1) : pipe[j].is = "initialize"
      BY <1>1, <2>1 DEF Editor!EditorInv, Editor!GreetedFirst
    <2> QED
      BY <2>2
  <1>3. ASSUME ~shutdown, Head(pipe).uri \in Schemas PROVE FALSE
    <2>1. PICK b \in Editor!Holds : Editor!Leads(documents[Head(pipe).uri], Head(pipe), b, Head(pipe).uri)
      BY <1>1, <1>3, EditorHead
    <2> QED
      BY <1>1, <1>2, <1>3, <2>1 DEF Editor!Leads, Editor!About, Editor!Notifications
  <1> QED
    BY <1>3

\* A notification the server takes makes its copy the text that was held, and shows what
\* that text has.
LEMMA EditorTakes ==
  ASSUME Editor!EditorInv,
         Editor!DidOpen \/ Editor!DidChange \/ Editor!DidSave \/ Editor!DidClose
  PROVE  Editor!EditorInv'
  <1> DEFINE uri == Head(pipe).uri
             m   == Head(pipe)
  <1>1. /\ pipe # <<>> /\ pipe' = Tail(pipe) /\ m.is \in Editor!Notifications
        /\ UNCHANGED <<buffer, since, disk, initialized, shutdown, told>>
        /\ ~shutdown
    BY DEF Editor!DidOpen, Editor!DidChange, Editor!DidSave, Editor!DidClose, Editor!Read,
       Editor!editorVars, Editor!Notifications
  <1>2. /\ Editor!TypeOK /\ Editor!Current
        /\ (told # <<>> /\ told[3] \in Schemas) => told[1] = told[2]
    BY DEF Editor!EditorInv
  <1>3. m \in Editor!Messages /\ uri \in Uris
    <2>1. m \in Editor!Messages
      BY <1>1, <1>2, Tailed DEF Editor!TypeOK
    <2> QED
      BY <2>1 DEF Editor!Messages
  <1>4. uri \in Schemas
    <2>1. documents[uri] # Closed => uri \in Schemas
      BY <1>2, <1>3 DEF Editor!Current
    <2> QED
      BY <2>1 DEF Editor!DidOpen, Editor!DidChange, Editor!DidSave, Editor!DidClose
  <1>5. PICK b \in Editor!Holds : Editor!Leads(documents[uri], m, b, uri)
    BY <1>1, <1>4, EditorHead
  <1>6. /\ b = m.held
        /\ m.is = "open" => b # Closed /\ Head(m.texts) = b
        /\ m.is = "change" => b # Closed /\ Editor!Changed(m.texts) = b
        /\ m.is = "save" => documents[uri] # Closed /\ b = documents[uri]
        /\ m.is = "close" => b = Closed
    BY <1>1, <1>5 DEF Editor!Leads, Editor!About
  <1>7. /\ documents' = [documents EXCEPT ![uri] = b]
        /\ shown' = [shown EXCEPT ![uri] = IF b = Closed THEN Clean ELSE Findings[<<b, disk>>]]
    <2>1. CASE Editor!DidOpen
      BY <1>6, <2>1 DEF Editor!DidOpen, Editor!Read, Editor!Publish
    <2>2. CASE Editor!DidChange
      BY <1>6, <2>2 DEF Editor!DidChange, Editor!Read, Editor!Publish
    <2>3. CASE Editor!DidSave
      <3>1. b = documents[uri] /\ b # Closed
        BY <1>6, <2>3 DEF Editor!DidSave, Editor!Read
      <3>2. documents' = documents /\ shown' = [shown EXCEPT ![uri] = Findings[<<b, disk>>]]
        BY <2>3, <3>1 DEF Editor!DidSave, Editor!Publish
      <3>3. documents = [documents EXCEPT ![uri] = b]
        BY <1>2, <3>1 DEF Editor!TypeOK
      <3> QED
        BY <3>1, <3>2, <3>3
    <2>4. CASE Editor!DidClose
      BY <1>6, <2>4 DEF Editor!DidClose, Editor!Read
    <2> QED
      BY <2>1, <2>2, <2>3, <2>4
  <1> HIDE DEF uri, m
  <1>8. documents' \in [Uris -> Editor!Holds] /\ DOMAIN shown' = Uris
    BY <1>2, <1>5, <1>7 DEF Editor!TypeOK
  <1>9. \A u \in Uris \ Schemas : documents'[u] = Closed /\ shown'[u] = Clean
    BY <1>2, <1>4, <1>7 DEF Editor!Current, Editor!TypeOK
  <1>10. \A u \in Schemas :
           /\ documents'[u] = IF Editor!About(Head(pipe), u) THEN Head(pipe).held ELSE documents[u]
           /\ shown'[u] = IF Head(pipe).is \in Editor!Notifications /\ Head(pipe).uri = u
                          THEN IF Head(pipe).held = Closed THEN Clean
                               ELSE Findings[<<Head(pipe).held, disk>>]
                          ELSE shown[u]
    <2> SUFFICES ASSUME NEW u \in Schemas
                 PROVE  /\ documents'[u] = IF uri = u THEN b ELSE documents[u]
                        /\ shown'[u] = IF uri = u
                                       THEN IF b = Closed THEN Clean ELSE Findings[<<b, disk>>]
                                       ELSE shown[u]
      BY <1>1, <1>6 DEF uri, m, Editor!About
    <2>1. u \in Uris
      BY EditorAssumption DEF Editor!EditorAssumption
    <2> QED
      BY <1>2, <1>7, <2>1 DEF Editor!TypeOK
  <1>11. m.is # "initialize"
    BY <1>1 DEF Editor!Notifications
  <1> QED
    BY <1>1, <1>2, <1>8, <1>9, <1>10, <1>11, EditorReads DEF m

\* Every message the server reads keeps the inductive invariant.
LEMMA EditorServes ==
  ASSUME Editor!EditorInv, Editor!Server
  PROVE  Editor!EditorInv'
  <1>1. (told # <<>> /\ told[3] \in Schemas) => told[1] = told[2]
    BY DEF Editor!EditorInv
  <1>2. CASE Editor!Skip \/ Editor!Initialize \/ Editor!Refuse \/ Editor!Shutdown \/ Editor!Exit
    <2>1. /\ pipe # <<>> /\ pipe' = Tail(pipe) /\ Head(pipe).is \notin Editor!Notifications
          /\ UNCHANGED <<buffer, since, disk, documents, shown, told>>
          /\ shutdown => shutdown'
          /\ initialized => initialized'
          /\ Head(pipe).is = "initialize" => initialized'
      BY <1>2 DEF Editor!Skip, Editor!Initialize, Editor!Refuse, Editor!Shutdown, Editor!Exit,
         Editor!Read, Editor!editorVars, Editor!Notifications, Editor!Requests
    <2> QED
      BY <1>1, <2>1, EditorPasses
  <1>3. CASE Editor!Answer
    <2>1. /\ pipe # <<>> /\ pipe' = Tail(pipe) /\ Head(pipe).is = "ask"
          /\ UNCHANGED <<buffer, since, disk, documents, shown, shutdown, initialized>>
      BY <1>3 DEF Editor!Answer, Editor!Read, Editor!editorVars
    <2>2. Head(pipe).is \notin Editor!Notifications
      BY <2>1 DEF Editor!Notifications
    <2> QED
      BY <1>3, <2>1, <2>2, EditorAnswers, EditorPasses
  <1>4. CASE Editor!Ignore
    <2>1. /\ pipe # <<>> /\ pipe' = Tail(pipe) /\ Head(pipe).is # "initialize"
          /\ UNCHANGED <<buffer, since, disk, documents, shown, shutdown, initialized, told>>
      BY <1>4 DEF Editor!Ignore, Editor!Read, Editor!editorVars, Editor!Notifications
    <2>2. ~shutdown => Head(pipe).uri \notin Schemas
      BY <1>4, EditorIgnores
    <2> QED
      BY <1>1, <2>1, <2>2, EditorPasses
  <1>5. CASE Editor!Hangup
    <2>1. UNCHANGED <<pipe, documents, initialized, shutdown, disk, buffer, since, shown, told>>
      BY <1>5 DEF Editor!Hangup
    <2> QED
      BY <2>1, EditorStill
  <1> QED
    BY <1>2, <1>3, <1>4, <1>5, EditorTakes DEF Editor!Server

\* Another program's write leaves what is shown of a disk there has been since.
LEMMA EditorDisk ==
  ASSUME Editor!EditorInv, Editor!DiskChange
  PROVE  Editor!EditorInv'
  <1>1. PICK d \in Disks \ {disk} :
          /\ disk' = d
          /\ since' = [u \in Uris |-> IF since[u] = {} THEN {} ELSE since[u] \cup {d}]
          /\ UNCHANGED <<pipe, documents, initialized, shutdown, ended, buffer, shown, told, sent>>
    BY DEF Editor!DiskChange
  <1>2. Editor!TypeOK /\ Editor!GreetedFirst /\ Editor!Carried /\ Editor!Current
    BY DEF Editor!EditorInv
  <1>3. Editor!TypeOK'
    <2>1. since' \in [Uris -> SUBSET Disks]
      BY <1>1, <1>2 DEF Editor!TypeOK
    <2> QED
      BY <1>1, <1>2, <2>1 DEF Editor!TypeOK, Editor!Holds, Editor!Messages, Editor!Kinds
  <1>4. Editor!GreetedFirst'
    BY <1>1, <1>2 DEF Editor!GreetedFirst, Editor!Greeted
  <1>5. Editor!Carried'
    BY <1>1, <1>2 DEF Editor!Carried, Editor!Along, Editor!Leads, Editor!About
  <1>6. Editor!Current'
    <2> SUFFICES ASSUME NEW u \in Uris
                 PROVE  /\ buffer[u] # Closed => disk' \in since'[u]
                        /\ u \notin Schemas => documents[u] = Closed /\ shown[u] = Clean
                        /\ ~shutdown /\ ~Editor!Spoken(u) => shown[u] \in Editor!Diagnosed(u)'
      BY <1>1 DEF Editor!Current, Editor!Spoken
    <2>1. since[u] \subseteq since'[u] /\ (buffer[u] # Closed => disk' \in since'[u])
      BY <1>1, <1>2 DEF Editor!Current
    <2>2. Editor!Diagnosed(u) \subseteq Editor!Diagnosed(u)'
      BY <1>1, <2>1 DEF Editor!Diagnosed
    <2> QED
      BY <1>2, <2>1, <2>2 DEF Editor!Current
  <1> QED
    BY <1>1, <1>3, <1>4, <1>5, <1>6 DEF Editor!EditorInv

\* What the editor says of no document.
LEMMA EditorSays ==
  ASSUME Editor!EditorInv, Editor!Say
  PROVE  Editor!EditorInv'
  <1>1. PICK is \in {"initialize", "shutdown", "exit", "unknown", "junk"} :
          Editor!Send(Editor!Message(is, Editor!NoDocument, <<>>, Closed))
    BY DEF Editor!Say
  <1> DEFINE m == Editor!Message(is, Editor!NoDocument, <<>>, Closed)
  <1>2. /\ pipe' = Append(pipe, m)
        /\ UNCHANGED <<documents, initialized, shutdown, disk, shown, told, buffer, since>>
    BY <1>1 DEF Editor!Send, Editor!Say
  <1>3. m \in Editor!Messages /\ m.is = is
    <2>1. Editor!NoDocument \in Uris
      BY EditorAssumption DEF Editor!EditorAssumption, Editor!NoDocument
    <2>2. <<>> \in Seq(Texts)
      OBVIOUS
    <2> QED
      BY <2>1, <2>2 DEF Editor!Messages, Editor!Message, Editor!Kinds, Editor!Requests,
         Editor!Notifications, Editor!Holds
  <1>4. is \notin Editor!Notifications /\ is # "ask"
    BY DEF Editor!Notifications
  <1> HIDE DEF m
  <1>5. \A u \in Schemas : Editor!Leads(buffer[u], m, buffer'[u], u)
    BY <1>2, <1>3, <1>4 DEF Editor!Leads, Editor!About
  <1>6. /\ buffer' \in [Uris -> Editor!Holds] /\ since' \in [Uris -> SUBSET Disks]
        /\ \A u \in Uris : buffer'[u] # Closed => disk \in since'[u]
    BY <1>2 DEF Editor!EditorInv, Editor!TypeOK, Editor!Current
  <1> QED
    BY <1>2, <1>3, <1>4, <1>5, <1>6, EditorSends

\* What the editor says of a document takes it to what it then holds.
LEMMA EditorSpeaks ==
  ASSUME Editor!EditorInv, NEW u \in Uris,
         NEW is \in Editor!Notifications \cup {"ask"}, NEW texts \in Seq(Texts), NEW b \in Editor!Holds,
         Editor!Send(Editor!Message(is, u, texts, b)),
         Editor!Greeted,
         Editor!Leads(buffer[u], Editor!Message(is, u, texts, b), b, u),
         buffer' = [buffer EXCEPT ![u] = b],
         \/ is = "ask" /\ since' = since
         \/ is # "ask" /\ since' = [since EXCEPT ![u] = IF b = Closed THEN {} ELSE {disk}]
  PROVE  Editor!EditorInv'
  <1> DEFINE m == Editor!Message(is, u, texts, b)
  <1>1. /\ pipe' = Append(pipe, m)
        /\ UNCHANGED <<documents, initialized, shutdown, disk, shown, told>>
    BY DEF Editor!Send
  <1>2. Editor!TypeOK /\ Editor!Current
    BY DEF Editor!EditorInv
  <1>3. m \in Editor!Messages /\ m.is = is /\ m.uri = u
    BY DEF Editor!Messages, Editor!Message, Editor!Kinds, Editor!Requests
  <1>4. Editor!Leads(buffer[u], m, b, u)
    OBVIOUS
  <1> HIDE DEF m
  <1>5. \A v \in Schemas : Editor!Leads(buffer[v], m, buffer'[v], v)
    <2> SUFFICES ASSUME NEW v \in Schemas PROVE Editor!Leads(buffer[v], m, buffer'[v], v)
      OBVIOUS
    <2>1. v \in Uris
      BY EditorAssumption DEF Editor!EditorAssumption
    <2>2. CASE v = u
      <3>1. buffer'[u] = b
        BY <1>2 DEF Editor!TypeOK
      <3> QED
        BY <1>4, <2>2, <3>1
    <2>3. CASE v # u
      <3>1. buffer'[v] = buffer[v]
        BY <1>2, <2>1, <2>3 DEF Editor!TypeOK
      <3> QED
        BY <1>3, <2>3, <3>1 DEF Editor!Leads, Editor!About
    <2> QED
      BY <2>2, <2>3
  <1>6. buffer' \in [Uris -> Editor!Holds] /\ since' \in [Uris -> SUBSET Disks]
    BY <1>2 DEF Editor!TypeOK
  <1>7. is = "ask" => b = buffer[u]
    BY <1>3, <1>4 DEF Editor!Leads, Editor!About
  <1>8. ASSUME NEW v \in Uris
        PROVE  /\ buffer'[v] # Closed => disk \in since'[v]
               /\ \/ m.is \in Editor!Notifications /\ m.uri = v
                  \/ buffer'[v] = buffer[v] /\ since'[v] = since[v]
    <2>1. CASE v = u /\ is # "ask"
      <3>1. buffer'[v] = b /\ since'[v] = IF b = Closed THEN {} ELSE {disk}
        BY <1>2, <2>1 DEF Editor!TypeOK
      <3> QED
        BY <1>3, <2>1, <3>1
    <2>2. CASE v # u \/ is = "ask"
      <3>1. buffer'[v] = buffer[v] /\ since'[v] = since[v]
        BY <1>2, <1>7, <2>2 DEF Editor!TypeOK
      <3> QED
        BY <1>2, <3>1 DEF Editor!Current
    <2> QED
      BY <2>1, <2>2
  <1> QED
    BY <1>1, <1>3, <1>5, <1>6, <1>8, EditorSends

\* Every step of the editor's keeps the inductive invariant.
LEMMA EditorActs ==
  ASSUME Editor!EditorInv, Editor!Editor
  PROVE  Editor!EditorInv'
  <1>0. Editor!TypeOK /\ Editor!GreetedFirst /\ Closed \notin Texts
    BY EditorAssumption DEF Editor!EditorInv, Editor!EditorAssumption
  <1>1. ASSUME NEW u \in Uris, NEW t \in Texts, Editor!Open(u, t) PROVE Editor!EditorInv'
    <2> DEFINE m == Editor!Message("open", u, <<t>>, t)
    <2>1. /\ Editor!Greeted /\ buffer[u] = Closed /\ Editor!Send(m)
          /\ buffer' = [buffer EXCEPT ![u] = t] /\ since' = [since EXCEPT ![u] = {disk}]
      BY <1>1 DEF Editor!Open
    <2>2. /\ t # Closed /\ t \in Editor!Holds /\ <<t>> \in Seq(Texts)
          /\ "open" \in Editor!Notifications \cup {"ask"}
      BY <1>0 DEF Editor!Holds, Editor!Notifications
    <2>3. Editor!Leads(buffer[u], m, t, u)
      <3>1. m.is = "open" /\ m.uri = u /\ m.held = t /\ Head(m.texts) = t
        BY DEF Editor!Message
      <3> HIDE DEF m
      <3> QED
        BY <2>1, <2>2, <3>1 DEF Editor!Leads, Editor!About
    <2>4. since' = [since EXCEPT ![u] = IF t = Closed THEN {} ELSE {disk}]
      BY <2>1, <2>2
    <2> QED
      BY <2>1, <2>2, <2>3, <2>4, EditorSpeaks
  <1>2. ASSUME NEW u \in Uris, NEW s \in Texts, NEW t \in Texts, Editor!Change(u, <<s, t>>)
        PROVE Editor!EditorInv'
    <2> DEFINE m == Editor!Message("change", u, <<s, t>>, t)
    <2>0. Editor!Last(<<s, t>>) = t
      BY DEF Editor!Last
    <2>1. /\ buffer[u] # Closed /\ Editor!Send(m)
          /\ buffer' = [buffer EXCEPT ![u] = t] /\ since' = [since EXCEPT ![u] = {disk}]
      BY <1>2, <2>0 DEF Editor!Change
    <2>2. /\ t # Closed /\ t \in Editor!Holds /\ <<s, t>> \in Seq(Texts) /\ Editor!Greeted
          /\ "change" \in Editor!Notifications \cup {"ask"}
      BY <1>0, <2>1 DEF Editor!Holds, Editor!Notifications, Editor!GreetedFirst
    <2>3. Editor!Leads(buffer[u], m, t, u)
      <3>1. m.is = "change" /\ m.uri = u /\ m.held = t /\ Editor!Changed(m.texts) = t
        BY <2>0 DEF Editor!Message, Editor!Changed
      <3> HIDE DEF m
      <3> QED
        BY <2>1, <2>2, <3>1 DEF Editor!Leads, Editor!About
    <2>4. since' = [since EXCEPT ![u] = IF t = Closed THEN {} ELSE {disk}]
      BY <2>1, <2>2
    <2> QED
      BY <2>1, <2>2, <2>3, <2>4, EditorSpeaks
  <1>3. ASSUME NEW u \in Uris, Editor!Save(u) PROVE Editor!EditorInv'
    <2> DEFINE m == Editor!Message("save", u, <<>>, buffer[u])
    <2>1. /\ buffer[u] # Closed /\ Editor!Send(m)
          /\ buffer' = buffer /\ since' = [since EXCEPT ![u] = {disk}]
      BY <1>3 DEF Editor!Save
    <2>2. /\ buffer[u] \in Editor!Holds /\ <<>> \in Seq(Texts) /\ Editor!Greeted
          /\ "save" \in Editor!Notifications \cup {"ask"}
          /\ buffer' = [buffer EXCEPT ![u] = buffer[u]]
      BY <1>0, <2>1 DEF Editor!Notifications, Editor!GreetedFirst, Editor!TypeOK
    <2>3. Editor!Leads(buffer[u], m, buffer[u], u)
      BY <2>1, <2>2 DEF Editor!Leads, Editor!Message
    <2>4. since' = [since EXCEPT ![u] = IF buffer[u] = Closed THEN {} ELSE {disk}]
      BY <2>1
    <2> QED
      BY <2>1, <2>2, <2>3, <2>4, EditorSpeaks
  <1>4. ASSUME NEW u \in Uris, Editor!Close(u) PROVE Editor!EditorInv'
    <2> DEFINE m == Editor!Message("close", u, <<>>, Closed)
    <2>1. /\ buffer[u] # Closed /\ Editor!Send(m)
          /\ buffer' = [buffer EXCEPT ![u] = Closed] /\ since' = [since EXCEPT ![u] = {}]
      BY <1>4 DEF Editor!Close
    <2>2. /\ Closed \in Editor!Holds /\ <<>> \in Seq(Texts) /\ Editor!Greeted
          /\ "close" \in Editor!Notifications \cup {"ask"}
      BY <1>0, <2>1 DEF Editor!Holds, Editor!Notifications, Editor!GreetedFirst
    <2>3. Editor!Leads(buffer[u], m, Closed, u)
      <3>1. m.is = "close" /\ m.uri = u /\ m.held = Closed
        BY DEF Editor!Message
      <3> HIDE DEF m
      <3> QED
        BY <2>1, <2>2, <3>1 DEF Editor!Leads, Editor!About
    <2>4. since' = [since EXCEPT ![u] = IF Closed = Closed THEN {} ELSE {disk}]
      BY <2>1
    <2> QED
      BY <2>1, <2>2, <2>3, <2>4, EditorSpeaks
  <1>5. ASSUME NEW u \in Uris, Editor!Ask(u) PROVE Editor!EditorInv'
    <2> DEFINE m == Editor!Message("ask", u, <<>>, buffer[u])
    <2>1. Editor!Greeted /\ Editor!Send(m) /\ buffer' = buffer /\ since' = since
      BY <1>5 DEF Editor!Ask
    <2>2. /\ buffer[u] \in Editor!Holds /\ <<>> \in Seq(Texts)
          /\ "ask" \in Editor!Notifications \cup {"ask"}
          /\ buffer' = [buffer EXCEPT ![u] = buffer[u]]
      BY <1>0, <2>1 DEF Editor!TypeOK
    <2>3. Editor!Leads(buffer[u], m, buffer[u], u)
      BY <2>1, <2>2 DEF Editor!Leads, Editor!Message
    <2> QED
      BY <2>1, <2>2, <2>3, EditorSpeaks
  <1> QED
    BY <1>1, <1>2, <1>3, <1>4, <1>5, EditorDisk, EditorSays DEF Editor!Editor

\* Every step of the two keeps it.
LEMMA EditorNext ==
  ASSUME Editor!EditorInv, [Editor!Next]_editorVars
  PROVE  Editor!EditorInv'
  <1>1. CASE UNCHANGED editorVars
    BY <1>1, EditorStill DEF editorVars
  <1> QED
    BY <1>1, EditorServes, EditorActs DEF Editor!Next

\* Once the pipe is read, what is shown is what the text held has.
LEMMA EditorShows ==
  ASSUME Editor!EditorInv PROVE Editor!ShownIsCurrent
  <1>1. ASSUME ~shutdown, pipe = <<>>, NEW u \in Uris PROVE shown[u] \in Editor!Diagnosed(u)
    <2>1. ~Editor!Spoken(u)
      BY <1>1 DEF Editor!Spoken
    <2> QED
      BY <1>1, <2>1 DEF Editor!EditorInv, Editor!Current
  <1> QED
    BY <1>1 DEF Editor!EditorInv, Editor!ShownIsCurrent

-----------------------------------------------------------------------------
(* Guards.                                                                 *)

\* What holds of nothing read, and of one more read where it held before, holds to the end.
LEMMA Climb ==
  ASSUME NEW N \in Nat, NEW Good, 0 \in Good, \A n \in 1 .. N : n - 1 \in Good => n \in Good
  PROVE  \A n \in 0 .. N : n \in Good
  <1> DEFINE Bad == {n \in 0 .. N : n \notin Good}
  <1>1. Bad \in SUBSET Nat
    OBVIOUS
  <1>2. ASSUME Bad # {} PROVE FALSE
    <2>1. PICK n \in Bad : \A m \in Bad : n <= m
      <3> HIDE DEF Bad
      <3> QED
        BY <1>1, <1>2, Least
    <2>2. n \in 1 .. N /\ n \notin Good
      BY <2>1
    <2>3. n - 1 \notin Bad
      BY <2>1, <2>2
    <2>4. n - 1 \in 0 .. N
      BY <2>2
    <2> QED
      BY <2>2, <2>3, <2>4
  <1> QED
    BY <1>2

\* Items are added one at a time.
LEMMA GrownIs ==
  ASSUME NEW items, NEW more, Len(more) \in Nat
  PROVE  /\ Guard!Grown(items, more)[0] = items
         /\ \A n \in 1 .. Len(more) :
              Guard!Grown(items, more)[n] =
                IF Guard!Contains(Guard!Grown(items, more)[n - 1], more[n])
                THEN Guard!Grown(items, more)[n - 1]
                ELSE Append(Guard!Grown(items, more)[n - 1], more[n])
  <1> DEFINE OneMore(g, x) == IF Guard!Contains(g, x) THEN g ELSE Append(g, x)
             IsGrown(g, n) == g = [i \in 0 .. n |-> IF i = 0 THEN items ELSE OneMore(g[i - 1], more[i])]
             Good == {n \in Nat : \E g : IsGrown(g, n)}
  <1>1. \E g : IsGrown(g, Len(more))
    <2>1. 0 \in Good
      <3>1. IsGrown([i \in 0 .. 0 |-> items], 0)
        OBVIOUS
      <3> QED
        BY <3>1
    <2>2. ASSUME NEW n \in 1 .. Len(more), n - 1 \in Good PROVE n \in Good
      <3>1. PICK g : IsGrown(g, n - 1)
        BY <2>2
      <3> DEFINE h == [i \in 0 .. n |-> IF i = n THEN OneMore(g[n - 1], more[n]) ELSE g[i]]
      <3>2. \A i \in 0 .. (n - 1) : h[i] = g[i] /\ h[i] = IF i = 0 THEN items ELSE OneMore(g[i - 1], more[i])
        <4> HIDE DEF OneMore
        <4> QED
          BY <3>1
      <3>3. h[n] = OneMore(g[n - 1], more[n])
        OBVIOUS
      <3>4. h = [i \in 0 .. n |-> h[i]]
        OBVIOUS
      <3> HIDE DEF h
      <3>5. \A i \in 0 .. n : h[i] = IF i = 0 THEN items ELSE OneMore(h[i - 1], more[i])
        <4>1. ASSUME NEW i \in 0 .. n
              PROVE  h[i] = IF i = 0 THEN items ELSE OneMore(h[i - 1], more[i])
          <5>1. CASE i = n
            <6>1. h[n - 1] = g[n - 1] /\ n # 0
              BY <3>2
            <6> QED
              BY <3>3, <5>1, <6>1
          <5>2. CASE i = 0
            BY <3>2, <5>2
          <5>3. CASE i \in 1 .. (n - 1)
            <6>1. h[i] = OneMore(g[i - 1], more[i]) /\ h[i - 1] = g[i - 1] /\ i # 0
              <7> HIDE DEF OneMore
              <7> QED
                BY <3>2, <5>3
            <6> QED
              BY <6>1
          <5> QED
            BY <5>1, <5>2, <5>3
        <4> QED
          BY <4>1
      <3>6. IsGrown(h, n)
        <4> HIDE DEF OneMore
        <4> QED
          BY <3>4, <3>5
      <3> HIDE DEF IsGrown
      <3> QED
        BY <3>6
    <2> HIDE DEF Good
    <2>3. \A n \in 0 .. Len(more) : n \in Good
      BY <2>1, <2>2, Climb
    <2>4. Len(more) \in 0 .. Len(more)
      OBVIOUS
    <2> USE DEF Good
    <2> QED
      BY <2>3, <2>4
  <1>3. Guard!Grown(items, more) = CHOOSE g : IsGrown(g, Len(more))
    BY Zenon DEF Guard!Grown
  <1> HIDE DEF IsGrown
  <1>2. IsGrown(CHOOSE g : IsGrown(g, Len(more)), Len(more))
    BY <1>1, Zenon
  <1> DEFINE grown == Guard!Grown(items, more)
  <1>4. IsGrown(grown, Len(more))
    BY <1>2, <1>3, Zenon
  <1>5. grown = [i \in 0 .. Len(more) |-> IF i = 0 THEN items ELSE OneMore(grown[i - 1], more[i])]
    BY <1>4 DEF IsGrown
  <1> HIDE DEF grown
  <1>6. grown[0] = items
    <2>1. 0 \in 0 .. Len(more)
      OBVIOUS
    <2> QED
      BY <1>5, <2>1
  <1>7. ASSUME NEW n \in 1 .. Len(more) PROVE grown[n] = OneMore(grown[n - 1], more[n])
    <2>1. n \in 0 .. Len(more) /\ n # 0
      OBVIOUS
    <2> HIDE DEF OneMore
    <2> QED
      BY <1>5, <2>1
  <1> QED
    BY <1>6, <1>7 DEF grown
\* The commands of the first lines, one line at a time.
LEMMA CommandsAre ==
  ASSUME NEW lines, Len(lines) \in Nat
  PROVE  /\ Guard!CommandsOf(lines)[0] = <<>>
         /\ \A n \in 1 .. Len(lines) :
              Guard!CommandsOf(lines)[n] =
                IF Guard!IsCommand(lines[n])
                THEN Append(Guard!CommandsOf(lines)[n - 1], lines[n])
                ELSE Guard!CommandsOf(lines)[n - 1]
  <1> DEFINE OneMore(g, x) == IF Guard!IsCommand(x) THEN Append(g, x) ELSE g
             IsFirst(g, n) == g = [i \in 0 .. n |-> IF i = 0 THEN <<>> ELSE OneMore(g[i - 1], lines[i])]
             Good == {n \in Nat : \E g : IsFirst(g, n)}
  <1>1. \E g : IsFirst(g, Len(lines))
    <2>1. 0 \in Good
      <3>1. IsFirst([i \in 0 .. 0 |-> <<>>], 0)
        OBVIOUS
      <3> QED
        BY <3>1
    <2>2. ASSUME NEW n \in 1 .. Len(lines), n - 1 \in Good PROVE n \in Good
      <3>1. PICK g : IsFirst(g, n - 1)
        BY <2>2
      <3> DEFINE h == [i \in 0 .. n |-> IF i = n THEN OneMore(g[n - 1], lines[n]) ELSE g[i]]
      <3>2. \A i \in 0 .. (n - 1) : h[i] = g[i] /\ h[i] = IF i = 0 THEN <<>> ELSE OneMore(g[i - 1], lines[i])
        <4> HIDE DEF OneMore
        <4> QED
          BY <3>1
      <3>3. h[n] = OneMore(g[n - 1], lines[n])
        OBVIOUS
      <3>4. h = [i \in 0 .. n |-> h[i]]
        OBVIOUS
      <3> HIDE DEF h
      <3>5. \A i \in 0 .. n : h[i] = IF i = 0 THEN <<>> ELSE OneMore(h[i - 1], lines[i])
        <4>1. ASSUME NEW i \in 0 .. n
              PROVE  h[i] = IF i = 0 THEN <<>> ELSE OneMore(h[i - 1], lines[i])
          <5>1. CASE i = n
            <6>1. h[n - 1] = g[n - 1] /\ n # 0
              BY <3>2
            <6> QED
              BY <3>3, <5>1, <6>1
          <5>2. CASE i = 0
            BY <3>2, <5>2
          <5>3. CASE i \in 1 .. (n - 1)
            <6>1. h[i] = OneMore(g[i - 1], lines[i]) /\ h[i - 1] = g[i - 1] /\ i # 0
              <7> HIDE DEF OneMore
              <7> QED
                BY <3>2, <5>3
            <6> QED
              BY <6>1
          <5> QED
            BY <5>1, <5>2, <5>3
        <4> QED
          BY <4>1
      <3>6. IsFirst(h, n)
        <4> HIDE DEF OneMore
        <4> QED
          BY <3>4, <3>5
      <3> HIDE DEF IsFirst
      <3> QED
        BY <3>6
    <2> HIDE DEF Good
    <2>3. \A n \in 0 .. Len(lines) : n \in Good
      BY <2>1, <2>2, Climb
    <2>4. Len(lines) \in 0 .. Len(lines)
      OBVIOUS
    <2> USE DEF Good
    <2> QED
      BY <2>3, <2>4
  <1>3. Guard!CommandsOf(lines) = CHOOSE g : IsFirst(g, Len(lines))
    BY Zenon DEF Guard!CommandsOf
  <1> HIDE DEF IsFirst
  <1>2. IsFirst(CHOOSE g : IsFirst(g, Len(lines)), Len(lines))
    BY <1>1, Zenon
  <1> DEFINE first == Guard!CommandsOf(lines)
  <1>4. IsFirst(first, Len(lines))
    BY <1>2, <1>3, Zenon
  <1>5. first = [i \in 0 .. Len(lines) |-> IF i = 0 THEN <<>> ELSE OneMore(first[i - 1], lines[i])]
    BY <1>4 DEF IsFirst
  <1> HIDE DEF first
  <1>6. first[0] = <<>>
    <2>1. 0 \in 0 .. Len(lines)
      OBVIOUS
    <2> QED
      BY <1>5, <2>1
  <1>7. ASSUME NEW n \in 1 .. Len(lines) PROVE first[n] = OneMore(first[n - 1], lines[n])
    <2>1. n \in 0 .. Len(lines) /\ n # 0
      OBVIOUS
    <2> HIDE DEF OneMore
    <2> QED
      BY <1>5, <2>1
  <1> QED
    BY <1>6, <1>7 DEF first
\* What is added comes after what is there, is new, and ends with all of it there.
LEMMA AppendHas ==
  ASSUME NEW S, NEW items \in Seq(S), NEW more \in Seq(S)
  PROVE  LET all == Guard!AppendMissing(items, more) IN
         /\ all \in Seq(S) /\ Len(items) <= Len(all)
         /\ \A k \in 1 .. Len(items) : all[k] = items[k]
         /\ \A k \in (Len(items) + 1) .. Len(all) :
              /\ ~Guard!Contains(items, all[k])
              /\ \E n \in 1 .. Len(more) : all[k] = more[n]
         /\ \A n \in 1 .. Len(more) : Guard!Contains(all, more[n])
  <1> DEFINE grown == Guard!Grown(items, more)
             Kept(g) == /\ g \in Seq(S) /\ Len(items) <= Len(g)
                        /\ \A k \in 1 .. Len(items) : g[k] = items[k]
             New(g) == \A k \in (Len(items) + 1) .. Len(g) :
                          /\ ~Guard!Contains(items, g[k])
                          /\ \E n \in 1 .. Len(more) : g[k] = more[n]
             Has(g, n) == \A m \in 1 .. n : Guard!Contains(g, more[m])
             Good == {n \in 0 .. Len(more) : Kept(grown[n]) /\ New(grown[n]) /\ Has(grown[n], n)}
  <1>0. Len(more) \in Nat /\ Len(items) \in Nat
    OBVIOUS
  <1>1. /\ grown[0] = items
        /\ \A n \in 1 .. Len(more) :
             grown[n] = IF Guard!Contains(grown[n - 1], more[n]) THEN grown[n - 1]
                        ELSE Append(grown[n - 1], more[n])
    BY <1>0, GrownIs
  <1> HIDE DEF grown
  <1>2. 0 \in Good
    <2>1. Kept(items) /\ New(items) /\ Has(items, 0)
      BY <1>0
    <2> QED
      BY <1>0, <1>1, <2>1
  <1>3. ASSUME NEW n \in 1 .. Len(more), n - 1 \in Good PROVE n \in Good
    <2> DEFINE g == grown[n - 1]
               x == more[n]
    <2>1. Kept(g) /\ New(g) /\ Has(g, n - 1) /\ x \in S
      BY <1>3
    <2>2. CASE Guard!Contains(g, x)
      <3>1. grown[n] = g
        BY <1>1, <2>2
      <3>2. Has(g, n)
        BY <2>1, <2>2
      <3> QED
        BY <2>1, <3>1, <3>2
    <2>3. CASE ~Guard!Contains(g, x)
      <3> DEFINE h == Append(g, x)
      <3>1. grown[n] = h
        BY <1>1, <2>3
      <3> HIDE DEF g, x
      <3>2. /\ h \in Seq(S) /\ Len(g) \in Nat /\ Len(h) = Len(g) + 1 /\ h[Len(g) + 1] = x
            /\ \A k \in 1 .. Len(g) : h[k] = g[k]
        BY <2>1
      <3> HIDE DEF h
      <3>3. Kept(h)
        BY <1>0, <2>1, <3>2
      <3>4. ~Guard!Contains(items, x)
        BY <1>0, <2>1, <2>3 DEF Guard!Contains
      <3>5. New(h)
        <4> SUFFICES ASSUME NEW k \in (Len(items) + 1) .. Len(h)
                     PROVE  ~Guard!Contains(items, h[k]) /\ \E m \in 1 .. Len(more) : h[k] = more[m]
          OBVIOUS
        <4>1. CASE k \in (Len(items) + 1) .. Len(g)
          <5>1. h[k] = g[k]
            BY <1>0, <3>2, <4>1
          <5> QED
            BY <2>1, <4>1, <5>1
        <4>2. CASE k = Len(g) + 1
          BY <3>2, <3>4, <4>2 DEF x
        <4> QED
          BY <1>0, <2>1, <3>2, <4>1, <4>2
      <3>6. Has(h, n)
        <4>1. \A m \in 1 .. (n - 1) : Guard!Contains(h, more[m])
          BY <2>1, <3>2 DEF Guard!Contains
        <4>2. Guard!Contains(h, more[n])
          BY <3>2 DEF Guard!Contains, x
        <4> QED
          BY <4>1, <4>2
      <3> QED
        BY <3>1, <3>3, <3>5, <3>6
    <2> QED
      BY <2>2, <2>3
  <1> HIDE DEF Good
  <1>4. \A n \in 0 .. Len(more) : n \in Good
    BY <1>0, <1>2, <1>3, Climb
  <1>5. Len(more) \in 0 .. Len(more)
    BY <1>0
  <1> USE DEF Good
  <1> QED
    BY <1>4, <1>5 DEF Guard!AppendMissing, grown

\* With nothing missing nothing is added.
LEMMA AppendNone ==
  ASSUME NEW items, NEW more, Len(more) \in Nat,
         \A n \in 1 .. Len(more) : Guard!Contains(items, more[n])
  PROVE  Guard!AppendMissing(items, more) = items
  <1> DEFINE grown == Guard!Grown(items, more)
             Good == {n \in 0 .. Len(more) : grown[n] = items}
  <1>1. /\ grown[0] = items
        /\ \A n \in 1 .. Len(more) :
             grown[n] = IF Guard!Contains(grown[n - 1], more[n]) THEN grown[n - 1]
                        ELSE Append(grown[n - 1], more[n])
    BY GrownIs
  <1> HIDE DEF grown
  <1>2. 0 \in Good
    BY <1>1
  <1>3. ASSUME NEW n \in 1 .. Len(more), n - 1 \in Good PROVE n \in Good
    BY <1>1, <1>3
  <1> HIDE DEF Good
  <1>4. \A n \in 0 .. Len(more) : n \in Good
    BY <1>2, <1>3, Climb
  <1>5. Len(more) \in 0 .. Len(more)
    OBVIOUS
  <1> USE DEF Good
  <1> QED
    BY <1>4, <1>5 DEF Guard!AppendMissing, grown

\* What was added is there, and what was there stays.
LEMMA AppendCovers ==
  ASSUME NEW S, NEW items \in Seq(S), NEW more \in Seq(S)
  PROVE  Guard!ToSet(more) \subseteq Guard!ToSet(Guard!AppendMissing(items, more))
  <1> DEFINE all == Guard!AppendMissing(items, more)
  <1>1. all \in Seq(S) /\ \A n \in 1 .. Len(more) : Guard!Contains(all, more[n])
    BY AppendHas
  <1> HIDE DEF all
  <1>2. Guard!ToSet(more) \subseteq Guard!ToSet(all)
    BY <1>1 DEF Guard!ToSet, Guard!Contains
  <1> QED
    BY <1>2 DEF all

\* Adding the same again adds nothing.
LEMMA AppendTwice ==
  ASSUME NEW S, NEW items \in Seq(S), NEW more \in Seq(S)
  PROVE  LET all == Guard!AppendMissing(items, more)
         IN  Guard!AppendMissing(all, more) = all
  <1>1. Len(more) \in Nat
    OBVIOUS
  <1> QED
    BY <1>1, AppendHas, AppendNone

\* There are no commands where no line is one.
LEMMA CommandsNone ==
  ASSUME NEW lines, Len(lines) \in Nat
  PROVE  Guard!Commands(lines) = <<>> <=> \A k \in 1 .. Len(lines) : ~Guard!IsCommand(lines[k])
  <1> DEFINE first == Guard!CommandsOf(lines)
             Good == {n \in 0 .. Len(lines) :
                        first[n] = <<>> <=> \A k \in 1 .. n : ~Guard!IsCommand(lines[k])}
             Some == {n \in 0 .. Len(lines) : \E S : first[n] \in Seq(S)}
  <1>1. /\ first[0] = <<>>
        /\ \A n \in 1 .. Len(lines) :
             first[n] = IF Guard!IsCommand(lines[n]) THEN Append(first[n - 1], lines[n])
                        ELSE first[n - 1]
    BY CommandsAre
  <1> HIDE DEF first
  <1>2. \A n \in 0 .. Len(lines) : n \in Some
    <2>1. 0 \in Some
      <3>1. first[0] \in Seq({})
        BY <1>1
      <3> QED
        BY <3>1
    <2>2. ASSUME NEW n \in 1 .. Len(lines), n - 1 \in Some PROVE n \in Some
      <3>1. PICK S : first[n - 1] \in Seq(S)
        BY <2>2
      <3>2. first[n - 1] \in Seq(S \cup {lines[n]})
        BY <3>1
      <3>3. Append(first[n - 1], lines[n]) \in Seq(S \cup {lines[n]})
        BY <3>2
      <3>4. first[n] \in Seq(S \cup {lines[n]})
        BY <1>1, <3>2, <3>3
      <3> QED
        BY <3>4
    <2> HIDE DEF Some
    <2> QED
      BY <2>1, <2>2, Climb
  <1>3. 0 \in Good
    BY <1>1
  <1>4. ASSUME NEW n \in 1 .. Len(lines), n - 1 \in Good PROVE n \in Good
    <2>1. first[n - 1] = <<>> <=> \A k \in 1 .. (n - 1) : ~Guard!IsCommand(lines[k])
      BY <1>4
    <2>2. CASE Guard!IsCommand(lines[n])
      <3>1. PICK S : first[n - 1] \in Seq(S)
        <4>1. n - 1 \in Some
          BY <1>2
        <4> QED
          BY <4>1
      <3>2. first[n] # <<>>
        <4>1. first[n] = Append(first[n - 1], lines[n])
          BY <1>1, <2>2
        <4>2. first[n - 1] \in Seq(S \cup {lines[n]}) /\ lines[n] \in S \cup {lines[n]}
          BY <3>1
        <4>3. Len(first[n]) = Len(first[n - 1]) + 1 /\ Len(first[n - 1]) \in Nat
          BY <4>1, <4>2
        <4> QED
          BY <4>3
      <3> QED
        BY <2>2, <3>2
    <2>3. CASE ~Guard!IsCommand(lines[n])
      <3>1. first[n] = first[n - 1]
        BY <1>1, <2>3
      <3>2. (\A k \in 1 .. n : ~Guard!IsCommand(lines[k]))
              <=> \A k \in 1 .. (n - 1) : ~Guard!IsCommand(lines[k])
        BY <2>3
      <3> QED
        BY <2>1, <3>1, <3>2
    <2> QED
      BY <2>2, <2>3
  <1> HIDE DEF Good
  <1>5. \A n \in 0 .. Len(lines) : n \in Good
    BY <1>3, <1>4, Climb
  <1>6. Len(lines) \in 0 .. Len(lines)
    OBVIOUS
  <1> USE DEF Good
  <1> QED
    BY <1>5, <1>6 DEF Guard!Commands, first

\* A first line that is no command is passed over.
LEMMA CommandsAfter ==
  ASSUME NEW S, NEW lines \in Seq(S), lines # <<>>, ~Guard!IsCommand(lines[1])
  PROVE  Guard!Commands(lines) = Guard!Commands(Tail(lines))
  <1> DEFINE rest  == Tail(lines)
             first == Guard!CommandsOf(lines)
             after == Guard!CommandsOf(rest)
             Good == {n \in 0 .. Len(rest) : first[n + 1] = after[n]}
  <1>0. /\ Len(lines) \in Nat \ {0} /\ Len(rest) = Len(lines) - 1 /\ Len(rest) \in Nat
        /\ \A i \in 1 .. Len(rest) : rest[i] = lines[i + 1]
    OBVIOUS
  <1>1. /\ first[0] = <<>>
        /\ \A n \in 1 .. Len(lines) :
             first[n] = IF Guard!IsCommand(lines[n]) THEN Append(first[n - 1], lines[n])
                        ELSE first[n - 1]
    BY <1>0, CommandsAre
  <1>2. /\ after[0] = <<>>
        /\ \A n \in 1 .. Len(rest) :
             after[n] = IF Guard!IsCommand(rest[n]) THEN Append(after[n - 1], rest[n])
                        ELSE after[n - 1]
    BY <1>0, CommandsAre
  <1> HIDE DEF rest, first, after
  <1>3. 0 \in Good
    <2>1. 1 \in 1 .. Len(lines) /\ 1 - 1 = 0 /\ 0 + 1 = 1
      BY <1>0
    <2>2. first[1] = <<>>
      BY <1>1, <2>1
    <2> QED
      BY <1>0, <1>2, <2>1, <2>2
  <1>4. ASSUME NEW n \in 1 .. Len(rest), n - 1 \in Good PROVE n \in Good
    <2>1. /\ first[(n - 1) + 1] = after[n - 1] /\ rest[n] = lines[n + 1]
          /\ n + 1 \in 1 .. Len(lines) /\ (n - 1) + 1 = n /\ (n + 1) - 1 = n
      BY <1>0, <1>4
    <2>2. first[n + 1] = IF Guard!IsCommand(lines[n + 1]) THEN Append(first[n], lines[n + 1])
                         ELSE first[n]
      BY <1>1, <2>1
    <2>3. first[n + 1] = after[n]
      BY <1>2, <2>1, <2>2
    <2> QED
      BY <2>3
  <1> HIDE DEF Good
  <1>5. \A n \in 0 .. Len(rest) : n \in Good
    BY <1>0, <1>3, <1>4, Climb
  <1>6. Len(rest) \in 0 .. Len(rest) /\ Len(rest) + 1 = Len(lines)
    BY <1>0
  <1>7. first[Len(lines)] = after[Len(rest)]
    <2>1. Len(rest) \in Good
      BY <1>5, <1>6
    <2> USE DEF Good
    <2> QED
      BY <1>6, <2>1
  <1> QED
    BY <1>7 DEF Guard!Commands, first, after, rest

\* Commands before lines that are none are all the commands.
LEMMA CommandsFirst ==
  ASSUME NEW S, NEW wanted \in Seq(S), NEW body \in Seq(S),
         \A k \in 1 .. Len(wanted) : Guard!IsCommand(wanted[k]),
         \A k \in 1 .. Len(body) : ~Guard!IsCommand(body[k])
  PROVE  Guard!Commands(wanted \o body) = wanted
  <1> DEFINE lines == wanted \o body
             w     == Len(wanted)
             first == Guard!CommandsOf(lines)
             Good == {n \in 0 .. Len(lines) :
                        /\ n <= w => first[n] = SubSeq(wanted, 1, n)
                        /\ w <= n => first[n] = wanted}
  <1>0. /\ lines \in Seq(S) /\ Len(lines) \in Nat /\ w \in Nat /\ Len(lines) = w + Len(body) /\ Len(body) \in Nat
        /\ \A i \in 1 .. w : lines[i] = wanted[i]
        /\ \A i \in (w + 1) .. Len(lines) : lines[i] = body[i - w]
    OBVIOUS
  <1>1. /\ first[0] = <<>>
        /\ \A n \in 1 .. Len(lines) :
             first[n] = IF Guard!IsCommand(lines[n]) THEN Append(first[n - 1], lines[n])
                        ELSE first[n - 1]
    BY <1>0, CommandsAre
  <1>w. w = Len(wanted)
    OBVIOUS
  <1> HIDE DEF lines, first, w
  <1>s. SubSeq(wanted, 1, w) = wanted /\ SubSeq(wanted, 1, 0) = <<>>
    BY <1>w
  <1>3. 0 \in Good
    <2>1. w <= 0 => w = 0
      BY <1>0
    <2>2. w <= 0 => first[0] = wanted
      BY <1>1, <1>s, <2>1
    <2>3. 0 <= w => first[0] = SubSeq(wanted, 1, 0)
      BY <1>1, <1>s
    <2> QED
      BY <1>0, <2>2, <2>3
  <1>4. ASSUME NEW n \in 1 .. Len(lines), n - 1 \in Good PROVE n \in Good
    <2>1. CASE n <= w
      <3>1. first[n - 1] = SubSeq(wanted, 1, n - 1)
        BY <1>0, <1>4, <2>1
      <3>2. lines[n] = wanted[n] /\ Guard!IsCommand(wanted[n])
        BY <1>0, <1>w, <2>1
      <3>3. first[n] = Append(SubSeq(wanted, 1, n - 1), wanted[n])
        BY <1>1, <3>1, <3>2
      <3>4. Append(SubSeq(wanted, 1, n - 1), wanted[n]) = SubSeq(wanted, 1, n)
        BY <1>0, <1>w, <2>1
      <3> QED
        <4>1. first[n] = SubSeq(wanted, 1, n)
          BY <3>3, <3>4
        <4>2. w <= n => first[n] = wanted
          <5>1. w <= n => n = w
            BY <1>0, <2>1
          <5> QED
            BY <1>s, <4>1, <5>1
        <4>3. n \in 0 .. Len(lines)
          BY <1>0
        <4> QED
          BY <4>1, <4>2, <4>3
    <2>2. CASE ~(n <= w)
      <3>1. first[n - 1] = wanted
        <4>1. w <= n - 1
          BY <1>0, <2>2
        <4> QED
          BY <1>4, <4>1
      <3>2. n - w \in 1 .. Len(body) /\ lines[n] = body[n - w]
        BY <1>0, <2>2
      <3>3. first[n] = wanted
        BY <1>1, <3>1, <3>2
      <3> QED
        BY <2>2, <3>3
    <2> QED
      BY <2>1, <2>2
  <1> HIDE DEF Good
  <1>5. \A n \in 0 .. Len(lines) : n \in Good
    BY <1>0, <1>3, <1>4, Climb
  <1>6. Len(lines) \in 0 .. Len(lines)
    BY <1>0
  <1>7. first[Len(lines)] = wanted
    <2>1. Len(lines) \in Good
      BY <1>5, <1>6
    <2>2. w <= Len(lines)
      BY <1>0
    <2> QED
      BY <2>1, <2>2 DEF Good
  <1> QED
    BY <1>7 DEF Guard!Commands, first, lines

\* A sequence that another begins with.
LEMMA PrefixIs ==
  ASSUME NEW S, NEW s \in Seq(S), NEW t \in Seq(S), Len(s) <= Len(t),
         \A k \in 1 .. Len(s) : s[k] = t[k]
  PROVE  Guard!IsPrefix(s, t)
  <1>1. SubSeq(s, 1, Len(s)) = SubSeq(t, 1, Len(s))
    OBVIOUS
  <1> QED
    BY <1>1 DEF Guard!IsPrefix

\* What a sequence begins with is its own.
LEMMA PrefixHas ==
  ASSUME NEW S, NEW s \in Seq(S), NEW t \in Seq(S), Guard!IsPrefix(s, t)
  PROVE  Len(s) <= Len(t) /\ \A k \in 1 .. Len(s) : s[k] = t[k]
  <1>1. /\ Len(s) \in Nat /\ Len(t) \in Nat /\ Len(s) <= Len(t)
        /\ SubSeq(s, 1, Len(s)) = SubSeq(t, 1, Len(s))
    BY DEF Guard!IsPrefix
  <1>2. ASSUME NEW k \in 1 .. Len(s) PROVE s[k] = t[k]
    <2>1. SubSeq(s, 1, Len(s))[k] = s[k] /\ SubSeq(t, 1, Len(s))[k] = t[k]
      BY <1>1
    <2> QED
      BY <1>1, <2>1
  <1> QED
    BY <1>1, <1>2

\* The paths above a path are shorter, it begins with them, and theirs are its own.
LEMMA AncestorsAre ==
  ASSUME NEW path \in Seq(STRING), NEW above \in Guard!Ancestors(path)
  PROVE  /\ above \in Seq(STRING) /\ Len(above) < Len(path) /\ Guard!IsPrefix(above, path)
         /\ Guard!Ancestors(above) \subseteq Guard!Ancestors(path)
  <1>1. PICK n \in 0 .. (Len(path) - 1) : above = SubSeq(path, 1, n)
    BY DEF Guard!Ancestors
  <1>2. /\ above \in Seq(STRING) /\ Len(above) = n /\ n < Len(path) /\ Len(path) \in Nat
        /\ \A k \in 1 .. n : above[k] = path[k]
    BY <1>1
  <1>3. Guard!IsPrefix(above, path)
    BY <1>2, PrefixIs
  <1>4. ASSUME NEW m \in 0 .. (n - 1)
        PROVE  SubSeq(above, 1, m) = SubSeq(path, 1, m) /\ m \in 0 .. (Len(path) - 1)
    BY <1>2, <1>4
  <1>5. Guard!Ancestors(above) \subseteq Guard!Ancestors(path)
    BY <1>2, <1>4 DEF Guard!Ancestors
  <1> QED
    BY <1>2, <1>3, <1>5

\* The kinds of nodes are apart, and an array is its items.
LEMMA NodeIs ==
  ASSUME NEW node \in Guard!Node
  PROVE  /\ node.is = "arr" => node = Guard!Arr(node.items) /\ node.items \in Seq(STRING)
         /\ node.is = "obj" <=> node = Guard!Obj
  <1>1. CASE node = Guard!Obj
    BY <1>1 DEF Guard!Obj
  <1>2. CASE node \in [is : {"val"}, v : STRING]
    BY <1>2 DEF Guard!Obj
  <1>3. CASE node \in [is : {"arr"}, items : Seq(STRING)]
    BY <1>3 DEF Guard!Obj, Guard!Arr
  <1> QED
    BY <1>1, <1>2, <1>3 DEF Guard!Node

\* An array is a node.
LEMMA ArrIs ==
  ASSUME NEW items \in Seq(STRING)
  PROVE  /\ Guard!Arr(items) \in Guard!Node /\ Guard!Arr(items).is = "arr"
         /\ Guard!Arr(items).items = items /\ Guard!Arr(items) # Guard!Obj
  BY DEF Guard!Arr, Guard!Node, Guard!Obj

\* What a merge makes of a node both sides have.
LEMMA JoinedIs ==
  ASSUME NEW write, NEW base, NEW add, NEW path, base[path] \in Guard!Node, add[path] \in Guard!Node,
         Guard!Joined(write, base, add, path)
  PROVE  LET both == Guard!Arr(Guard!AppendMissing(base[path].items, add[path].items)) IN
         /\ both \in Guard!Node /\ both.is = "arr" /\ both # Guard!Obj
         /\ both.items = Guard!AppendMissing(base[path].items, add[path].items)
         /\ base[path] # Guard!Obj /\ base[path].is = "arr" /\ add[path].is = "arr"
         /\ base[path].items \in Seq(STRING) /\ add[path].items \in Seq(STRING)
         /\ base[path] = Guard!Arr(base[path].items) /\ add[path] = Guard!Arr(add[path].items)
         /\ Guard!Unites(write, path)
  <1>1. base[path].is = "arr" /\ add[path].is = "arr" /\ Guard!Unites(write, path)
    BY DEF Guard!Joined
  <1>2. /\ base[path].items \in Seq(STRING) /\ add[path].items \in Seq(STRING)
        /\ base[path] = Guard!Arr(base[path].items) /\ add[path] = Guard!Arr(add[path].items)
        /\ base[path] # Guard!Obj
    BY <1>1, NodeIs
  <1>3. Guard!AppendMissing(base[path].items, add[path].items) \in Seq(STRING)
    BY <1>2, AppendHas
  <1> QED
    BY <1>1, <1>2, <1>3, ArrIs

\* A function is what it is at each of its points.
IsFunction(f) == f = [x \in DOMAIN f |-> f[x]]

\* The merge of two trees, path by path.
LEMMA MergedIs ==
  ASSUME NEW write, NEW base, NEW add
  PROVE  /\ DOMAIN Guard!MergeTree(write, base, add).content = DOMAIN base \cup Guard!Reached(base, add)
         /\ IsFunction(Guard!MergeTree(write, base, add).content)
         /\ \A path \in DOMAIN base \cup Guard!Reached(base, add) :
              /\ path \notin DOMAIN base => Guard!MergeTree(write, base, add).content[path] = add[path]
              /\ path \in DOMAIN base /\ path \in Guard!Reached(base, add) /\ Guard!Joined(write, base, add, path) =>
                   Guard!MergeTree(write, base, add).content[path] =
                     Guard!Arr(Guard!AppendMissing(base[path].items, add[path].items))
              /\ path \in DOMAIN base /\ ~(path \in Guard!Reached(base, add) /\ Guard!Joined(write, base, add, path)) =>
                   Guard!MergeTree(write, base, add).content[path] = base[path]
         /\ Guard!MergeTree(write, base, add).changed = (Guard!MergeTree(write, base, add).content # base)
         /\ \A path : path \in Guard!MergeTree(write, base, add).blocked <=>
              /\ path \in Guard!Reached(base, add) /\ path \in DOMAIN base
              /\ base[path] # add[path] /\ ~Guard!Joined(write, base, add, path)
  BY DEF Guard!MergeTree, IsFunction

\* A merge of two trees is a tree that keeps what the file says, and to which the same
\* fragment has nothing to add and the same to leave out.
LEMMA TreeMerged ==
  ASSUME NEW write, NEW base, NEW add, Guard!IsTree(base), Guard!IsTree(add)
  PROVE  LET once  == Guard!MergeTree(write, base, add)
             again == Guard!MergeTree(write, once.content, add)
         IN
         /\ Guard!IsTree(once.content) /\ Guard!KeepsNodes(base, once.content)
         /\ ~again.changed /\ again.blocked = once.blocked
  <1> DEFINE C == Guard!MergeTree(write, base, add).content
             R == Guard!Reached(base, add)
             B == DOMAIN base
             J(path) == Guard!Joined(write, base, add, path)
  <1>0. /\ base \in [B -> Guard!Node] /\ B \subseteq Seq(STRING)
        /\ add \in [DOMAIN add -> Guard!Node] /\ DOMAIN add \subseteq Seq(STRING)
        /\ \A path \in B : \A above \in Guard!Ancestors(path) : above \in B /\ base[above] = Guard!Obj
        /\ \A path \in DOMAIN add : \A above \in Guard!Ancestors(path) :
             above \in DOMAIN add /\ add[above] = Guard!Obj
    BY DEF Guard!IsTree
  <1>1. /\ DOMAIN C = B \cup R /\ IsFunction(C)
        /\ \A path \in B \cup R :
             /\ path \notin B => C[path] = add[path]
             /\ path \in B /\ path \in R /\ J(path) =>
                  C[path] = Guard!Arr(Guard!AppendMissing(base[path].items, add[path].items))
             /\ path \in B /\ ~(path \in R /\ J(path)) => C[path] = base[path]
        /\ \A path : path \in Guard!MergeTree(write, base, add).blocked <=>
             path \in R /\ path \in B /\ base[path] # add[path] /\ ~J(path)
    BY MergedIs
  <1>2. /\ R \subseteq DOMAIN add
        /\ \A path \in DOMAIN add :
             path \in R <=> \A above \in Guard!Ancestors(path) : above \in B => base[above] = Guard!Obj
    BY DEF Guard!Reached
  <1> HIDE DEF C, R
  <1>3. \A path \in R \cap B : J(path) =>
          LET both == Guard!Arr(Guard!AppendMissing(base[path].items, add[path].items)) IN
          /\ both \in Guard!Node /\ both.is = "arr" /\ both # Guard!Obj
          /\ both.items = Guard!AppendMissing(base[path].items, add[path].items)
          /\ base[path] # Guard!Obj /\ base[path].is = "arr" /\ add[path].is = "arr"
          /\ base[path].items \in Seq(STRING) /\ add[path].items \in Seq(STRING)
          /\ base[path] = Guard!Arr(base[path].items) /\ add[path] = Guard!Arr(add[path].items)
          /\ Guard!Unites(write, path)
    <2> SUFFICES ASSUME NEW path \in R \cap B, J(path)
                 PROVE  LET both == Guard!Arr(Guard!AppendMissing(base[path].items, add[path].items)) IN
          /\ both \in Guard!Node /\ both.is = "arr" /\ both # Guard!Obj
          /\ both.items = Guard!AppendMissing(base[path].items, add[path].items)
          /\ base[path] # Guard!Obj /\ base[path].is = "arr" /\ add[path].is = "arr"
          /\ base[path].items \in Seq(STRING) /\ add[path].items \in Seq(STRING)
          /\ base[path] = Guard!Arr(base[path].items) /\ add[path] = Guard!Arr(add[path].items)
          /\ Guard!Unites(write, path)
      OBVIOUS
    <2>1. base[path] \in Guard!Node /\ add[path] \in Guard!Node
      BY <1>0, <1>2
    <2> QED
      BY <2>1, JoinedIs
  \* Objects stay objects, and nothing else becomes one.
  <1>4. \A path \in B : C[path] = Guard!Obj <=> base[path] = Guard!Obj
    BY <1>1, <1>3
  <1>5. \A path \in B \cup R : C[path] \in Guard!Node
    <2>1. ASSUME NEW path \in B \cup R PROVE C[path] \in Guard!Node
      <3>1. CASE path \notin B
        BY <1>0, <1>1, <1>2, <3>1
      <3>2. CASE path \in B /\ path \in R /\ J(path)
        BY <1>1, <1>3, <3>2
      <3>3. CASE path \in B /\ ~(path \in R /\ J(path))
        BY <1>0, <1>1, <3>3
      <3> QED
        BY <3>1, <3>2, <3>3
    <2> QED
      BY <2>1
  <1>6. \A path \in R : \A above \in Guard!Ancestors(path) : above \in R /\ C[above] = Guard!Obj
    <2> SUFFICES ASSUME NEW path \in R, NEW above \in Guard!Ancestors(path)
                 PROVE  above \in R /\ C[above] = Guard!Obj
      OBVIOUS
    <2>1. path \in DOMAIN add /\ path \in Seq(STRING) /\ above \in DOMAIN add /\ add[above] = Guard!Obj
      BY <1>0, <1>2
    <2>2. Guard!Ancestors(above) \subseteq Guard!Ancestors(path)
      BY <2>1, AncestorsAre
    <2>3. above \in R
      BY <1>2, <2>1, <2>2
    <2>4. CASE above \in B
      <3>1. base[above] = Guard!Obj
        BY <1>2, <2>1, <2>4
      <3> QED
        BY <1>4, <2>3, <2>4, <3>1
    <2>5. CASE above \notin B
      BY <1>1, <2>1, <2>3, <2>5
    <2> QED
      BY <2>3, <2>4, <2>5
  <1>7. Guard!IsTree(C)
    <2>1. C \in [DOMAIN C -> Guard!Node]
      <3>1. C = [path \in DOMAIN C |-> C[path]] /\ \A path \in DOMAIN C : C[path] \in Guard!Node
        BY <1>1, <1>5 DEF IsFunction
      <3> QED
        BY <3>1
    <2>2. DOMAIN C \subseteq Seq(STRING)
      BY <1>0, <1>1, <1>2
    <2>3. \A path \in DOMAIN C : \A above \in Guard!Ancestors(path) : above \in DOMAIN C /\ C[above] = Guard!Obj
      BY <1>0, <1>1, <1>4, <1>6
    <2> QED
      BY <2>1, <2>2, <2>3 DEF Guard!IsTree
  <1>8. Guard!KeepsNodes(base, C)
    <2> SUFFICES ASSUME NEW path \in B
                 PROVE  /\ path \in DOMAIN C
                        /\ IF base[path].is = "arr"
                           THEN C[path].is = "arr" /\ Guard!IsPrefix(base[path].items, C[path].items)
                           ELSE C[path] = base[path]
      BY DEF Guard!KeepsNodes
    <2>1. CASE path \in R /\ J(path)
      <3>1. /\ base[path].is = "arr" /\ C[path].is = "arr"
            /\ C[path].items = Guard!AppendMissing(base[path].items, add[path].items)
            /\ base[path].items \in Seq(STRING) /\ add[path].items \in Seq(STRING)
        BY <1>1, <1>3, <2>1
      <3>2. Guard!IsPrefix(base[path].items, C[path].items)
        <4> DEFINE items == base[path].items
                   all   == Guard!AppendMissing(base[path].items, add[path].items)
        <4>1. /\ items \in Seq(STRING) /\ all \in Seq(STRING) /\ Len(items) <= Len(all)
              /\ \A k \in 1 .. Len(items) : items[k] = all[k]
          BY <3>1, AppendHas
        <4> HIDE DEF items, all
        <4>2. Guard!IsPrefix(items, all)
          BY <4>1, PrefixIs
        <4> QED
          BY <3>1, <4>2 DEF items, all
      <3> QED
        BY <1>1, <3>1, <3>2
    <2>2. CASE ~(path \in R /\ J(path))
      <3>1. C[path] = base[path] /\ path \in DOMAIN C
        BY <1>1, <2>2
      <3>2. base[path].is = "arr" => Guard!IsPrefix(base[path].items, base[path].items)
        <4>1. base[path].is = "arr" => base[path].items \in Seq(STRING)
          BY <1>0, NodeIs
        <4> QED
          BY <4>1 DEF Guard!IsPrefix
      <3> QED
        BY <3>1, <3>2
    <2> QED
      BY <2>1, <2>2
  \* The second time around.
  <1>9. Guard!Reached(C, add) = R
    <2>1. ASSUME NEW path \in R PROVE path \in Guard!Reached(C, add)
      BY <1>2, <1>6 DEF Guard!Reached
    <2>2. ASSUME NEW path \in Guard!Reached(C, add) PROVE path \in R
      <3>1. path \in DOMAIN add
            /\ \A above \in Guard!Ancestors(path) : above \in DOMAIN C => C[above] = Guard!Obj
        BY DEF Guard!Reached
      <3>2. \A above \in Guard!Ancestors(path) : above \in B => base[above] = Guard!Obj
        BY <1>1, <1>4, <3>1
      <3> QED
        BY <1>2, <3>1, <3>2
    <2> QED
      BY <2>1, <2>2
  <1> DEFINE again == Guard!MergeTree(write, C, add)
             K(path) == Guard!Joined(write, C, add, path)
  <1>10. /\ DOMAIN again.content = B \cup R
         /\ IsFunction(again.content)
         /\ \A path \in B \cup R :
              /\ path \in R /\ K(path) =>
                   again.content[path] = Guard!Arr(Guard!AppendMissing(C[path].items, add[path].items))
              /\ ~(path \in R /\ K(path)) => again.content[path] = C[path]
         /\ again.changed = (again.content # C)
         /\ \A path : path \in again.blocked <=> path \in R /\ C[path] # add[path] /\ ~K(path)
    <2>1. DOMAIN C = B \cup R /\ (DOMAIN C) \cup R = B \cup R /\ R \cap DOMAIN C = R
      BY <1>1
    <2>2. /\ DOMAIN again.content = DOMAIN C \cup R
          /\ IsFunction(again.content)
      BY <1>9, MergedIs
    <2>3. \A path \in DOMAIN C \cup R :
              /\ path \in DOMAIN C /\ path \in R /\ K(path) =>
                   again.content[path] = Guard!Arr(Guard!AppendMissing(C[path].items, add[path].items))
              /\ path \in DOMAIN C /\ ~(path \in R /\ K(path)) => again.content[path] = C[path]
      BY <1>9, MergedIs
    <2>4. /\ again.changed = (again.content # C)
          /\ \A path : path \in again.blocked <=>
               path \in R /\ path \in DOMAIN C /\ C[path] # add[path] /\ ~K(path)
      BY <1>9, MergedIs
    <2> HIDE DEF again
    <2> QED
      BY <2>1, <2>2, <2>3, <2>4
  <1> HIDE DEF again
  <1>11. \A path \in R : K(path) =>
           Guard!Arr(Guard!AppendMissing(C[path].items, add[path].items)) = C[path]
    <2> SUFFICES ASSUME NEW path \in R, K(path)
                 PROVE  Guard!Arr(Guard!AppendMissing(C[path].items, add[path].items)) = C[path]
      OBVIOUS
    <2>1. C[path] \in Guard!Node /\ add[path] \in Guard!Node
      BY <1>0, <1>2, <1>5
    <2>2. /\ C[path].items \in Seq(STRING) /\ add[path].items \in Seq(STRING)
          /\ C[path] = Guard!Arr(C[path].items) /\ C[path].is = "arr" /\ add[path].is = "arr"
          /\ Guard!Unites(write, path)
      BY <2>1, JoinedIs
    <2>3. CASE path \notin B
      <3>1. C[path] = add[path]
        BY <1>1, <2>3
      <3>2. \A n \in 1 .. Len(add[path].items) : Guard!Contains(add[path].items, add[path].items[n])
        BY DEF Guard!Contains
      <3>3. Guard!AppendMissing(add[path].items, add[path].items) = add[path].items
        BY <2>2, <3>2, AppendNone
      <3> QED
        BY <2>2, <3>1, <3>3
    <2>4. CASE path \in B
      <3>1. J(path)
        <4>1. CASE base[path].is = "arr"
          BY <2>2, <4>1 DEF Guard!Joined
        <4>2. CASE base[path].is # "arr" /\ ~J(path)
          <5>1. C[path] = base[path]
            BY <1>1, <2>4, <4>2
          <5> QED
            BY <2>2, <4>2, <5>1
        <4> QED
          BY <4>1, <4>2
      <3>2. /\ base[path].items \in Seq(STRING) /\ add[path].items \in Seq(STRING)
            /\ C[path].items = Guard!AppendMissing(base[path].items, add[path].items)
        BY <1>1, <1>3, <2>4, <3>1
      <3>3. Guard!AppendMissing(C[path].items, add[path].items) = C[path].items
        BY <3>2, AppendTwice
      <3> QED
        BY <2>2, <3>3
    <2> QED
      BY <2>3, <2>4
  <1>12. again.content = C
    <2>1. \A path \in B \cup R : again.content[path] = C[path]
      BY <1>10, <1>11
    <2>2. /\ again.content = [path \in B \cup R |-> again.content[path]]
          /\ C = [path \in B \cup R |-> C[path]]
      BY <1>1, <1>10 DEF IsFunction
    <2>3. [path \in B \cup R |-> again.content[path]] = [path \in B \cup R |-> C[path]]
      BY <2>1
    <2> QED
      BY <2>2, <2>3
  <1>13. \A path \in R : C[path] # add[path] /\ ~K(path)
                           <=> path \in B /\ base[path] # add[path] /\ ~J(path)
    <2> SUFFICES ASSUME NEW path \in R
                 PROVE  C[path] # add[path] /\ ~K(path)
                          <=> path \in B /\ base[path] # add[path] /\ ~J(path)
      OBVIOUS
    <2>1. CASE path \notin B
      BY <1>1, <2>1
    <2>2. CASE path \in B /\ J(path)
      <3>1. C[path].is = "arr" /\ add[path].is = "arr" /\ Guard!Unites(write, path)
        BY <1>1, <1>3, <2>2
      <3>2. K(path)
        BY <3>1 DEF Guard!Joined
      <3> QED
        BY <2>2, <3>2
    <2>3. CASE path \in B /\ ~J(path)
      <3>1. C[path] = base[path]
        BY <1>1, <2>3
      <3>2. ~K(path)
        BY <2>3, <3>1 DEF Guard!Joined
      <3> QED
        BY <2>3, <3>1, <3>2
    <2> QED
      BY <2>1, <2>2, <2>3
  <1>14. again.blocked = Guard!MergeTree(write, base, add).blocked
    BY <1>1, <1>10, <1>13
  <1> QED
    BY <1>7, <1>8, <1>10, <1>12, <1>14 DEF C, again

\* A merge that adds nothing leaves a file that says the fragment but for what it names.
LEMMA TreeTold ==
  ASSUME NEW write, NEW base, NEW add, Guard!IsTree(base), Guard!IsTree(add),
         ~Guard!MergeTree(write, base, add).changed
  PROVE  Guard!TreeSays(write, base, add, Guard!MergeTree(write, base, add).blocked)
  <1> DEFINE R == Guard!Reached(base, add)
             B == DOMAIN base
             J(path) == Guard!Joined(write, base, add, path)
             out == Guard!MergeTree(write, base, add).blocked
  <1>0. /\ base \in [B -> Guard!Node] /\ B \subseteq Seq(STRING)
        /\ add \in [DOMAIN add -> Guard!Node] /\ DOMAIN add \subseteq Seq(STRING)
        /\ \A path \in B : \A above \in Guard!Ancestors(path) : above \in B /\ base[above] = Guard!Obj
        /\ \A path \in DOMAIN add : \A above \in Guard!Ancestors(path) :
             above \in DOMAIN add /\ add[above] = Guard!Obj
    BY DEF Guard!IsTree
  <1>1. /\ R \subseteq B
        /\ \A path \in R : J(path) =>
             base[path] = Guard!Arr(Guard!AppendMissing(base[path].items, add[path].items))
        /\ \A path : path \in out <=> path \in R /\ path \in B /\ base[path] # add[path] /\ ~J(path)
    <2>1. Guard!MergeTree(write, base, add).content = base
      <3>1. Guard!MergeTree(write, base, add).changed = (Guard!MergeTree(write, base, add).content # base)
        BY MergedIs
      <3> QED
        BY <3>1
    <2>2. DOMAIN base = B \cup R
      <3>1. DOMAIN Guard!MergeTree(write, base, add).content = DOMAIN base \cup R
        BY MergedIs
      <3> QED
        BY <2>1, <3>1
    <2>3. \A path \in B \cup R : path \in B /\ path \in R /\ J(path) =>
            base[path] = Guard!Arr(Guard!AppendMissing(base[path].items, add[path].items))
      BY <2>1, MergedIs
    <2>4. \A path : path \in out <=> path \in R /\ path \in B /\ base[path] # add[path] /\ ~J(path)
      BY MergedIs
    <2> QED
      BY <2>2, <2>3, <2>4
  <1>2. /\ R \subseteq DOMAIN add
        /\ \A path \in DOMAIN add :
             path \in R <=> \A above \in Guard!Ancestors(path) : above \in B => base[above] = Guard!Obj
    BY DEF Guard!Reached
  <1> HIDE DEF R, out
  <1>3. ASSUME NEW path \in R, J(path)
        PROVE  Guard!NodeInForce(write, base, add, path)
    <2>1. base[path] \in Guard!Node /\ add[path] \in Guard!Node /\ path \in B
      BY <1>0, <1>1, <1>2
    <2>2. /\ base[path].items \in Seq(STRING) /\ add[path].items \in Seq(STRING)
          /\ base[path].is = "arr" /\ add[path].is = "arr" /\ Guard!Unites(write, path)
          /\ base[path].items = Guard!AppendMissing(base[path].items, add[path].items)
      BY <1>1, <1>3, <2>1, JoinedIs
    <2>3. Guard!ToSet(add[path].items) \subseteq Guard!ToSet(base[path].items)
      BY <2>2, AppendCovers
    <2> QED
      BY <2>1, <2>2, <2>3 DEF Guard!NodeInForce
  <1>4. ASSUME NEW path \in R, ~J(path), base[path] = add[path]
        PROVE  Guard!NodeInForce(write, base, add, path)
    BY <1>1, <1>4 DEF Guard!NodeInForce, Guard!Joined
  <1>5. ASSUME NEW path \in R, ~J(path), base[path] # add[path]
        PROVE  \E b \in out : Guard!IsPrefix(b, path)
    <2>1. path \in out /\ path \in Seq(STRING)
      BY <1>0, <1>1, <1>2, <1>5
    <2>2. Guard!IsPrefix(path, path)
      BY <2>1, PrefixIs
    <2> QED
      BY <2>1, <2>2
  <1>6. ASSUME NEW path \in DOMAIN add, path \notin R
        PROVE  \E b \in out : Guard!IsPrefix(b, path)
    <2>1. PICK above \in Guard!Ancestors(path) : above \in B /\ base[above] # Guard!Obj
      BY <1>2, <1>6
    <2>2. above \in DOMAIN add /\ add[above] = Guard!Obj /\ path \in Seq(STRING)
      BY <1>0, <2>1
    <2>3. above \in R
      BY <1>0, <1>2, <2>1, <2>2
    <2>4. ~J(above)
      BY <2>2 DEF Guard!Joined, Guard!Obj
    <2>5. Guard!IsPrefix(above, path)
      BY <2>1, <2>2, AncestorsAre
    <2> QED
      BY <1>1, <2>1, <2>2, <2>3, <2>4, <2>5
  <1>7. ASSUME NEW b \in out PROVE ~Guard!NodeInForce(write, base, add, b)
    BY <1>1 DEF Guard!NodeInForce, Guard!Joined
  <1>8. \A path \in DOMAIN add :
          \/ Guard!NodeInForce(write, base, add, path)
          \/ \E b \in out : Guard!IsPrefix(b, path)
    BY <1>3, <1>4, <1>5, <1>6
  <1>9. Guard!TreeSays(write, base, add, out)
    BY <1>7, <1>8 DEF Guard!TreeSays
  <1> QED
    BY <1>9 DEF out

\* A fragment merged into itself is that fragment.
LEMMA TreeSelf ==
  ASSUME NEW write, NEW add, Guard!IsTree(add)
  PROVE  ~Guard!MergeTree(write, add, add).changed /\ Guard!MergeTree(write, add, add).blocked = {}
  <1> DEFINE C == Guard!MergeTree(write, add, add).content
             R == Guard!Reached(add, add)
  <1>0. /\ add \in [DOMAIN add -> Guard!Node] /\ R \subseteq DOMAIN add
        /\ \A path \in DOMAIN add : \A above \in Guard!Ancestors(path) :
             above \in DOMAIN add /\ add[above] = Guard!Obj
    BY DEF Guard!IsTree, Guard!Reached
  <1>1. /\ DOMAIN C = DOMAIN add /\ IsFunction(C)
        /\ \A path \in DOMAIN add :
             /\ path \in R /\ Guard!Joined(write, add, add, path) =>
                  C[path] = Guard!Arr(Guard!AppendMissing(add[path].items, add[path].items))
             /\ ~(path \in R /\ Guard!Joined(write, add, add, path)) => C[path] = add[path]
        /\ Guard!MergeTree(write, add, add).changed = (C # add)
        /\ \A path : path \notin Guard!MergeTree(write, add, add).blocked
    <2>1. DOMAIN add \cup R = DOMAIN add
      BY <1>0
    <2>2. DOMAIN C = DOMAIN add \cup R /\ IsFunction(C)
      BY MergedIs
    <2>3. \A path \in DOMAIN add \cup R :
             /\ path \in DOMAIN add /\ path \in R /\ Guard!Joined(write, add, add, path) =>
                  C[path] = Guard!Arr(Guard!AppendMissing(add[path].items, add[path].items))
             /\ path \in DOMAIN add /\ ~(path \in R /\ Guard!Joined(write, add, add, path)) =>
                  C[path] = add[path]
      BY MergedIs
    <2>4. /\ Guard!MergeTree(write, add, add).changed = (C # add)
          /\ \A path : path \notin Guard!MergeTree(write, add, add).blocked
      BY MergedIs
    <2> HIDE DEF C, R
    <2> QED
      BY <2>1, <2>2, <2>3, <2>4
  <1> HIDE DEF C, R
  <1>2. ASSUME NEW path \in DOMAIN add PROVE C[path] = add[path]
    <2>1. CASE path \in R /\ Guard!Joined(write, add, add, path)
      <3>1. add[path] \in Guard!Node
        BY <1>0
      <3>2. add[path].items \in Seq(STRING) /\ add[path] = Guard!Arr(add[path].items)
        BY <2>1, <3>1, JoinedIs
      <3>3. \A n \in 1 .. Len(add[path].items) : Guard!Contains(add[path].items, add[path].items[n])
        BY DEF Guard!Contains
      <3>4. Guard!AppendMissing(add[path].items, add[path].items) = add[path].items
        BY <3>2, <3>3, AppendNone
      <3> QED
        BY <1>1, <2>1, <3>2, <3>4
    <2> QED
      BY <1>1, <2>1
  <1>3. C = add
    <2>1. C = [path \in DOMAIN add |-> C[path]] /\ add = [path \in DOMAIN add |-> add[path]]
      BY <1>0, <1>1 DEF IsFunction
    <2>2. [path \in DOMAIN add |-> C[path]] = [path \in DOMAIN add |-> add[path]]
      BY <1>2
    <2> QED
      BY <2>1, <2>2
  <1> QED
    BY <1>1, <1>3

\* The commands among some lines are lines, and commands.
LEMMA CommandsSeq ==
  ASSUME NEW S, NEW lines \in Seq(S)
  PROVE  /\ Guard!Commands(lines) \in Seq(S)
         /\ \A k \in 1 .. Len(Guard!Commands(lines)) : Guard!IsCommand(Guard!Commands(lines)[k])
  <1> DEFINE C == {x \in S : Guard!IsCommand(x)}
             first == Guard!CommandsOf(lines)
             Good == {n \in 0 .. Len(lines) : first[n] \in Seq(C)}
  <1>0. Len(lines) \in Nat
    OBVIOUS
  <1>1. /\ first[0] = <<>>
        /\ \A n \in 1 .. Len(lines) :
             first[n] = IF Guard!IsCommand(lines[n]) THEN Append(first[n - 1], lines[n])
                        ELSE first[n - 1]
    BY <1>0, CommandsAre
  <1> HIDE DEF first
  <1>2. 0 \in Good
    <2>1. <<>> \in Seq(C) /\ 0 \in 0 .. Len(lines)
      BY <1>0
    <2> QED
      BY <1>1, <2>1
  <1>3. ASSUME NEW n \in 1 .. Len(lines), n - 1 \in Good PROVE n \in Good
    <2>1. first[n - 1] \in Seq(C) /\ lines[n] \in S
      BY <1>0, <1>3
    <2>2. CASE Guard!IsCommand(lines[n])
      <3>1. first[n] = Append(first[n - 1], lines[n])
        BY <1>1, <2>2
      <3>2. Append(first[n - 1], lines[n]) \in Seq(C)
        <4>1. lines[n] \in C
          BY <2>1, <2>2
        <4> HIDE DEF C
        <4> QED
          BY <2>1, <4>1
      <3>3. first[n] \in Seq(C)
        BY <3>1, <3>2, Zenon
      <3> QED
        BY <1>0, <3>3
    <2>3. CASE ~Guard!IsCommand(lines[n])
      BY <1>0, <1>1, <2>1, <2>3
    <2> QED
      BY <2>2, <2>3
  <1> HIDE DEF Good
  <1>4. \A n \in 1 .. Len(lines) : n - 1 \in Good => n \in Good
    BY <1>3
  <1>5. Len(lines) \in Good
    <2>1. \A n \in 0 .. Len(lines) : n \in Good
      BY <1>0, <1>2, <1>4, Climb
    <2> QED
      BY <1>0, <2>1
  <1>6. first[Len(lines)] \in Seq(C)
    BY <1>5 DEF Good
  <1>7. ASSUME NEW t \in Seq(C)
        PROVE  t \in Seq(S) /\ \A k \in 1 .. Len(t) : Guard!IsCommand(t[k])
    <2>1. C \subseteq S /\ \A x \in C : Guard!IsCommand(x)
      OBVIOUS
    <2> HIDE DEF C
    <2>2. \A k \in 1 .. Len(t) : t[k] \in C
      OBVIOUS
    <2>3. t \in Seq(S)
      BY <2>1
    <2> QED
      BY <2>1, <2>2, <2>3
  <1> QED
    BY <1>6, <1>7 DEF Guard!Commands, first

\* Lines that are no commands add none after others.
LEMMA CommandsSplit ==
  ASSUME NEW S, NEW wanted \in Seq(S), NEW body \in Seq(S),
         \A k \in 1 .. Len(body) : ~Guard!IsCommand(body[k])
  PROVE  Guard!Commands(wanted \o body) = Guard!Commands(wanted)
  <1> DEFINE lines == wanted \o body
             w     == Len(wanted)
             first == Guard!CommandsOf(lines)
             those == Guard!CommandsOf(wanted)
             Good == {n \in 0 .. Len(lines) : first[n] = those[IF n <= w THEN n ELSE w]}
  <1>0. /\ Len(lines) \in Nat /\ w \in Nat /\ Len(lines) = w + Len(body) /\ Len(body) \in Nat
        /\ \A i \in 1 .. w : lines[i] = wanted[i]
        /\ \A i \in (w + 1) .. Len(lines) : lines[i] = body[i - w]
    OBVIOUS
  <1>1. /\ first[0] = <<>>
        /\ \A n \in 1 .. Len(lines) :
             first[n] = IF Guard!IsCommand(lines[n]) THEN Append(first[n - 1], lines[n])
                        ELSE first[n - 1]
    BY <1>0, CommandsAre
  <1>2. /\ those[0] = <<>>
        /\ \A n \in 1 .. w :
             those[n] = IF Guard!IsCommand(wanted[n]) THEN Append(those[n - 1], wanted[n])
                        ELSE those[n - 1]
    BY <1>0, CommandsAre
  <1>w. w = Len(wanted)
    OBVIOUS
  <1> HIDE DEF lines, first, those, w
  <1>3. 0 \in Good
    BY <1>0, <1>1, <1>2
  <1>4. ASSUME NEW n \in 1 .. Len(lines), n - 1 \in Good PROVE n \in Good
    <2>1. CASE n <= w
      <3>1. /\ first[n - 1] = those[n - 1] /\ lines[n] = wanted[n] /\ n \in 1 .. w
            /\ n \in 0 .. Len(lines)
        BY <1>0, <1>4, <2>1
      <3>2. first[n] = those[n]
        BY <1>1, <1>2, <3>1
      <3> QED
        BY <2>1, <3>1, <3>2
    <2>2. CASE ~(n <= w)
      <3>1. first[n - 1] = those[w] /\ n \in 0 .. Len(lines)
        <4>1. n - 1 <= w => n - 1 = w
          BY <1>0, <2>2
        <4> QED
          BY <1>0, <1>4, <4>1
      <3>2. n - w \in 1 .. Len(body) /\ lines[n] = body[n - w]
        BY <1>0, <2>2
      <3>3. first[n] = those[w]
        BY <1>1, <3>1, <3>2
      <3> QED
        BY <2>2, <3>1, <3>3
    <2> QED
      BY <2>1, <2>2
  <1> HIDE DEF Good
  <1>5. \A n \in 0 .. Len(lines) : n \in Good
    BY <1>0, <1>3, <1>4, Climb
  <1>6. first[Len(lines)] = those[w]
    <2>1. Len(lines) \in Good /\ (Len(lines) <= w => Len(lines) = w)
      BY <1>0, <1>5
    <2> QED
      BY <2>1 DEF Good
  <1> QED
    BY <1>6, <1>w DEF Guard!Commands, first, those, lines


\* Text merged line by line keeps its lines, and the same again adds none.
LEMMA LinesMerged ==
  ASSUME NEW lines, NEW add, Guard!IsText(lines), Guard!IsText(add), add # <<>>, ~Guard!IsScript(add)
  PROVE  LET once  == Guard!MergeLines(lines, add)
             again == Guard!MergeLines(once.content, add)
         IN
         /\ Guard!IsText(once.content) /\ Guard!KeepsLines(lines, once.content)
         /\ once.content # <<>>
         /\ ~again.changed /\ Guard!LinesSay(once.content, add, once.blocked)
         /\ ~once.changed => once.content = lines
  <1> DEFINE all == Guard!AppendMissing(lines, add)
             L   == Len(lines)
  <1>0. /\ lines \in Seq(Guard!Lines) /\ add \in Seq(Guard!Lines)
        /\ L \in Nat /\ Len(add) \in Nat \ {0}
        /\ \A k \in 2 .. L : ~Guard!IsShebang(lines[k])
        /\ \A k \in 1 .. Len(add) : ~Guard!IsShebang(add[k])
    BY DEF Guard!IsText, Guard!IsScript
  <1>1. /\ all \in Seq(Guard!Lines) /\ L <= Len(all) /\ Len(all) \in Nat
        /\ \A k \in 1 .. L : all[k] = lines[k]
        /\ \A k \in (L + 1) .. Len(all) : \E n \in 1 .. Len(add) : all[k] = add[n]
        /\ \A n \in 1 .. Len(add) : Guard!Contains(all, add[n])
    BY <1>0, AppendHas
  <1>2. Guard!AppendMissing(all, add) = all
    BY <1>0, AppendTwice
  <1>3. Guard!ToSet(add) \subseteq Guard!ToSet(all)
    BY <1>0, AppendCovers
  <1> HIDE DEF all
  <1>4. Guard!IsText(all)
    <2>1. ASSUME NEW k \in 2 .. Len(all) PROVE ~Guard!IsShebang(all[k])
      <3>1. k \in 2 .. L \/ k \in (L + 1) .. Len(all)
        BY <1>0, <1>1, <2>1
      <3> QED
        BY <1>0, <1>1, <3>1
    <2> QED
      BY <1>1, <2>1 DEF Guard!IsText
  <1>5. Guard!KeepsLines(lines, all)
    <2> DEFINE place == [i \in DOMAIN lines |-> i]
    <2>1. DOMAIN lines = 1 .. L /\ DOMAIN all = 1 .. Len(all) /\ 1 .. L \subseteq 1 .. Len(all)
      BY <1>0, <1>1
    <2>2. /\ place \in [DOMAIN lines -> DOMAIN all]
          /\ \A i, j \in DOMAIN lines : i < j => place[i] < place[j]
          /\ \A i \in DOMAIN lines : all[place[i]] = lines[i]
      BY <1>1, <2>1
    <2> HIDE DEF place
    <2> QED
      BY <2>2 DEF Guard!KeepsLines
  <1>6. all # <<>>
    <2>1. Guard!Contains(all, add[1])
      BY <1>0, <1>1
    <2> QED
      BY <2>1 DEF Guard!Contains
  <1>7. /\ Guard!MergeLines(lines, add).content = all /\ Guard!MergeLines(lines, add).blocked = {}
        /\ Guard!MergeLines(lines, add).changed = (all # lines)
        /\ Guard!MergeLines(all, add).changed = FALSE
    BY <1>2 DEF Guard!MergeLines, all
  <1>8. ~Guard!MergeLines(lines, add).changed => all = lines
    BY <1>7
  <1>9. Guard!LinesSay(all, add, {})
    BY <1>3 DEF Guard!LinesSay
  <1> QED
    BY <1>4, <1>5, <1>6, <1>7, <1>8, <1>9

\* A script is its shebang and what follows, in which there is none.
LEMMA BodyIs ==
  ASSUME NEW lines, Guard!IsText(lines)
  PROVE  LET headed == lines # <<>> /\ Guard!IsShebang(Head(lines))
             body   == IF headed THEN Tail(lines) ELSE lines
         IN
         /\ body \in Seq(Guard!Lines) /\ \A k \in 1 .. Len(body) : ~Guard!IsShebang(body[k])
         /\ headed => /\ lines = <<Head(lines)>> \o body /\ Head(lines) \in Guard!Lines
                      /\ Len(lines) = Len(body) + 1
         /\ Guard!Commands(lines) = Guard!Commands(body)
  <1>0. lines \in Seq(Guard!Lines) /\ \A k \in 2 .. Len(lines) : ~Guard!IsShebang(lines[k])
    BY DEF Guard!IsText
  <1>1. CASE lines # <<>> /\ Guard!IsShebang(Head(lines))
    <2>1. /\ Tail(lines) \in Seq(Guard!Lines) /\ Head(lines) \in Guard!Lines /\ Head(lines) = lines[1]
          /\ Len(lines) \in Nat \ {0} /\ Len(Tail(lines)) = Len(lines) - 1
          /\ \A k \in 1 .. Len(Tail(lines)) : Tail(lines)[k] = lines[k + 1] /\ k + 1 \in 2 .. Len(lines)
          /\ lines = <<Head(lines)>> \o Tail(lines)
      BY <1>0, <1>1
    <2>2. ~Guard!IsCommand(lines[1])
      BY <1>1, <2>1 DEF Guard!IsShebang, Guard!IsCommand
    <2>3. Guard!Commands(lines) = Guard!Commands(Tail(lines))
      BY <1>0, <1>1, <2>2, CommandsAfter
    <2>4. \A k \in 1 .. Len(Tail(lines)) : ~Guard!IsShebang(Tail(lines)[k])
      BY <1>0, <2>1
    <2>5. Len(lines) = Len(Tail(lines)) + 1
      BY <2>1
    <2> QED
      BY <1>1, <2>1, <2>3, <2>4, <2>5
  <1>2. CASE ~(lines # <<>> /\ Guard!IsShebang(Head(lines)))
    <2>1. \A k \in 1 .. Len(lines) : ~Guard!IsShebang(lines[k])
      <3> SUFFICES ASSUME NEW k \in 1 .. Len(lines) PROVE ~Guard!IsShebang(lines[k])
        OBVIOUS
      <3>1. CASE k = 1
        <4>1. lines # <<>> /\ Head(lines) = lines[1]
          BY <1>0
        <4> QED
          BY <1>2, <3>1, <4>1
      <3>2. CASE k # 1
        <4>1. k \in 2 .. Len(lines)
          BY <3>2
        <4> QED
          BY <1>0, <4>1
      <3> QED
        BY <3>1, <3>2
    <2> QED
      BY <1>0, <1>2, <2>1
  <1> QED
    BY <1>1, <1>2

\* A script penv fills is its shebang, penv's lines, and what was there.
LEMMA MadeIs ==
  ASSUME NEW made \in Seq(Guard!Lines), NEW wanted \in Seq(Guard!Lines),
         NEW body \in Seq(Guard!Lines), Len(made) = Len(wanted) + Len(body) + 1,
         \A k \in 1 .. Len(wanted) : made[k + 1] = wanted[k],
         \A k \in 1 .. Len(body) : made[k + 1 + Len(wanted)] = body[k],
         \A k \in 1 .. Len(wanted) : ~Guard!IsShebang(wanted[k]),
         \A k \in 1 .. Len(body) : ~Guard!IsShebang(body[k])
  PROVE  Guard!IsText(made)
  <1> DEFINE W == Len(wanted)
             B == Len(body)
  <1>1. W \in Nat /\ B \in Nat
    OBVIOUS
  <1>2. ASSUME NEW k \in 2 .. Len(made) PROVE ~Guard!IsShebang(made[k])
    <2>1. CASE k <= W + 1
      <3>1. k - 1 \in 1 .. W /\ (k - 1) + 1 = k
        BY <1>1, <2>1
      <3>2. made[(k - 1) + 1] = wanted[k - 1]
        BY <3>1
      <3> QED
        BY <3>1, <3>2
    <2>2. CASE k > W + 1
      <3>1. k - 1 - W \in 1 .. B /\ (k - 1 - W) + 1 + W = k
        BY <1>1, <2>2
      <3>2. made[k] = body[k - 1 - W]
        BY <3>1
      <3> QED
        BY <3>1, <3>2
    <2> QED
      BY <1>1, <2>1, <2>2
  <1> QED
    BY <1>2 DEF Guard!IsText

\* The lines of a script are kept where they go.
LEMMA MadeKeeps ==
  ASSUME NEW h \in Guard!Lines, NEW wanted \in Seq(Guard!Lines), NEW body \in Seq(Guard!Lines)
  PROVE  /\ Guard!KeepsLines(body, <<h>> \o wanted \o body)
         /\ Guard!KeepsLines(<<h>> \o body, <<h>> \o wanted \o body)
  <1> DEFINE made == <<h>> \o wanted \o body
             full == <<h>> \o body
             W == Len(wanted)
             B == Len(body)
  <1>1. /\ made \in Seq(Guard!Lines) /\ Len(made) = W + B + 1 /\ W \in Nat /\ B \in Nat
        /\ made[1] = h
        /\ \A k \in 1 .. B : made[k + 1 + W] = body[k]
        /\ DOMAIN made = 1 .. (W + B + 1) /\ DOMAIN body = 1 .. B
    <2>1. W \in Nat /\ B \in Nat /\ DOMAIN body = 1 .. B
      OBVIOUS
    <2>2. made \in Seq(Guard!Lines) /\ Len(made) = W + B + 1 /\ made[1] = h
      OBVIOUS
    <2>3. \A k \in 1 .. B : made[k + 1 + W] = body[k]
      OBVIOUS
    <2> HIDE DEF made, W, B
    <2> QED
      BY <2>1, <2>2, <2>3
  <1>2. /\ full \in Seq(Guard!Lines) /\ Len(full) = B + 1 /\ DOMAIN full = 1 .. (B + 1)
        /\ full[1] = h /\ \A k \in 2 .. (B + 1) : full[k] = body[k - 1]
    OBVIOUS
  <1> HIDE DEF made, full
  <1>6. Guard!KeepsLines(body, made)
    <2> DEFINE place == [i \in DOMAIN body |-> i + 1 + W]
    <2>1. /\ place \in [DOMAIN body -> DOMAIN made]
          /\ \A i, j \in DOMAIN body : i < j => place[i] < place[j]
      BY <1>1
    <2>2. \A i \in DOMAIN body : made[place[i]] = body[i]
      BY <1>1
    <2> HIDE DEF place
    <2> QED
      BY <2>1, <2>2 DEF Guard!KeepsLines
  <1>7. Guard!KeepsLines(full, made)
    <2> DEFINE place == [i \in DOMAIN full |-> IF i = 1 THEN 1 ELSE i + W]
    <2>1. /\ place \in [DOMAIN full -> DOMAIN made]
          /\ \A i, j \in DOMAIN full : i < j => place[i] < place[j]
      BY <1>1, <1>2
    <2>2. ASSUME NEW i \in DOMAIN full PROVE made[place[i]] = full[i]
      <3>1. CASE i = 1
        BY <1>1, <1>2, <3>1
      <3>2. CASE i # 1
        <4>1. i - 1 \in 1 .. B /\ (i - 1) + 1 + W = i + W /\ i \in 2 .. (B + 1) /\ place[i] = i + W
          BY <1>1, <1>2, <3>2
        <4>2. made[i + W] = body[i - 1] /\ full[i] = body[i - 1]
          BY <1>1, <1>2, <4>1
        <4> QED
          BY <4>1, <4>2
      <3> QED
        BY <3>1, <3>2
    <2> HIDE DEF place
    <2> QED
      BY <2>1, <2>2 DEF Guard!KeepsLines
  <1> QED
    BY <1>6, <1>7 DEF made, full

\* A text keeps its lines where nothing moves.
LEMMA SameKeeps ==
  ASSUME NEW S, NEW lines \in Seq(S)
  PROVE  Guard!KeepsLines(lines, lines)
  <1> DEFINE place == [i \in DOMAIN lines |-> i]
  <1>1. DOMAIN lines = 1 .. Len(lines) /\ Len(lines) \in Nat
    OBVIOUS
  <1>2. /\ place \in [DOMAIN lines -> DOMAIN lines]
        /\ \A i, j \in DOMAIN lines : i < j => place[i] < place[j]
        /\ \A i \in DOMAIN lines : lines[place[i]] = lines[i]
    BY <1>1
  <1> HIDE DEF place
  <1> QED
    BY <1>2 DEF Guard!KeepsLines

\* A script merged keeps its lines, has nothing more to take, and says where penv's are.
LEMMA ScriptMerged ==
  ASSUME NEW lines, NEW add, Guard!IsText(lines), Guard!IsText(add), Guard!IsScript(add)
  PROVE  LET once  == Guard!MergeScript(lines, add)
             again == Guard!MergeScript(once.content, add)
         IN
         /\ Guard!IsText(once.content) /\ Guard!KeepsLines(lines, once.content)
         /\ (Tail(add) # <<>> => Guard!Commands(add) # <<>>) => ~again.changed
         /\ Guard!LinesSay(once.content, add, once.blocked)
         /\ ~once.changed => once.content = lines /\ lines # <<>>
  <1> DEFINE headed   == lines # <<>> /\ Guard!IsShebang(Head(lines))
             body     == IF headed THEN Tail(lines) ELSE lines
             wanted   == Tail(add)
             h        == IF headed THEN Head(lines) ELSE Head(add)
             made     == <<h>> \o wanted \o body
             commands == Guard!Commands(body)
             once     == Guard!MergeScript(lines, add)
  <1>1. /\ body \in Seq(Guard!Lines) /\ \A k \in 1 .. Len(body) : ~Guard!IsShebang(body[k])
        /\ headed => /\ lines = <<Head(lines)>> \o body /\ Head(lines) \in Guard!Lines
                     /\ Len(lines) = Len(body) + 1
        /\ Guard!Commands(lines) = commands
    BY BodyIs
  <1>2. /\ lines \in Seq(Guard!Lines) /\ add \in Seq(Guard!Lines) /\ add # <<>>
        /\ Guard!IsShebang(Head(add)) /\ Head(add) \in Guard!Lines
    BY DEF Guard!IsText, Guard!IsScript
  <1>3. /\ wanted \in Seq(Guard!Lines) /\ \A k \in 1 .. Len(wanted) : ~Guard!IsShebang(wanted[k])
        /\ Guard!Commands(add) = Guard!Commands(wanted)
    <2>1. wanted \in Seq(Guard!Lines) /\ Len(wanted) = Len(add) - 1
          /\ \A k \in 1 .. Len(wanted) : wanted[k] = add[k + 1] /\ k + 1 \in 2 .. Len(add)
      BY <1>2
    <2>2. \A k \in 1 .. Len(wanted) : ~Guard!IsShebang(wanted[k])
      BY <2>1 DEF Guard!IsText
    <2>3. ~Guard!IsCommand(add[1])
      <3>1. Head(add) = add[1]
        BY <1>2
      <3> QED
        BY <1>2, <3>1 DEF Guard!IsShebang, Guard!IsCommand
    <2>4. Guard!Commands(add) = Guard!Commands(wanted)
      BY <1>2, <2>3, CommandsAfter
    <2> QED
      BY <2>1, <2>2, <2>4
  <1>4. h \in Guard!Lines /\ Guard!IsShebang(h)
    BY <1>1, <1>2
  <1>5. /\ commands \in Seq(Guard!Lines) /\ Guard!Commands(wanted) \in Seq(Guard!Lines)
        /\ \A k \in 1 .. Len(commands) : Guard!IsCommand(commands[k])
    BY <1>1, <1>3, CommandsSeq
  <1>6. once = IF commands = <<>>
               THEN [content |-> made, changed |-> made # lines, blocked |-> {}]
               ELSE [content |-> lines, changed |-> FALSE,
                     blocked |-> IF Guard!Placed(wanted, commands) THEN {} ELSE Guard!ToSet(wanted)]
    BY DEF Guard!MergeScript
  <1>7. \A all, blocked :
          Guard!LinesSay(all, add, blocked) <=>
            /\ blocked = {} => Guard!IsPrefix(Guard!Commands(wanted), Guard!Commands(all))
            /\ Guard!IsPrefix(wanted, Guard!Commands(all)) => blocked = {}
    BY <1>3 DEF Guard!LinesSay
  <1>8. CASE commands = <<>>
    <2>1. \A k \in 1 .. Len(body) : ~Guard!IsCommand(body[k])
      <3>1. Len(body) \in Nat
        BY <1>1
      <3> QED
        BY <1>8, <3>1, CommandsNone
    <2>2. /\ made \in Seq(Guard!Lines) /\ made # <<>> /\ Guard!IsText(made)
          /\ Head(made) = h /\ Tail(made) = wanted \o body
          /\ Guard!Commands(Tail(made)) = Guard!Commands(wanted)
          /\ Guard!Commands(made) = Guard!Commands(wanted)
          /\ Guard!KeepsLines(body, made) /\ Guard!KeepsLines(<<h>> \o body, made)
      <3>1. \A k \in 1 .. Len(body) : ~Guard!IsShebang(body[k]) /\ ~Guard!IsCommand(body[k])
        BY <1>1, <2>1
      <3>2. body \in Seq(Guard!Lines)
        BY <1>1
      <3> HIDE DEF h, wanted, body
      <3>3. /\ made \in Seq(Guard!Lines) /\ made # <<>>
            /\ Len(made) = Len(wanted) + Len(body) + 1
            /\ Head(made) = h /\ made[1] = h
            /\ \A k \in 1 .. Len(wanted) : made[k + 1] = wanted[k]
            /\ \A k \in 1 .. Len(body) : made[k + 1 + Len(wanted)] = body[k]
        BY <1>3, <1>4, <3>2
      <3>4. Tail(made) = wanted \o body
        BY <1>3, <1>4, <3>2
      <3>5. Guard!Commands(wanted \o body) = Guard!Commands(wanted)
        BY <1>3, <3>1, <3>2, CommandsSplit
      <3>6. Guard!KeepsLines(body, made) /\ Guard!KeepsLines(<<h>> \o body, made)
        BY <1>3, <1>4, <3>2, MadeKeeps
      <3> HIDE DEF made
      <3>7. Guard!IsText(made)
        BY <1>3, <3>1, <3>2, <3>3, MadeIs
      <3>8. ~Guard!IsCommand(made[1])
        BY <1>4, <3>3 DEF Guard!IsShebang, Guard!IsCommand
      <3>9. Guard!Commands(made) = Guard!Commands(Tail(made))
        BY <3>3, <3>8, CommandsAfter
      <3> QED
        BY <3>3, <3>4, <3>5, <3>6, <3>7, <3>9
    <2>3. once.content = made /\ once.changed = (made # lines) /\ once.blocked = {}
      <3> HIDE DEF once, made, commands, wanted
      <3>1. once = [content |-> made, changed |-> made # lines, blocked |-> {}]
        BY <1>6, <1>8
      <3> QED
        BY <3>1
    <2>4. Guard!KeepsLines(lines, made)
      <3>1. CASE headed
        <4>1. lines = <<h>> \o body
          BY <1>1, <3>1
        <4> HIDE DEF h, body, made
        <4> QED
          BY <2>2, <4>1
      <3>2. CASE ~headed
        <4>1. lines = body
          BY <3>2
        <4> HIDE DEF h, body, made
        <4> QED
          BY <2>2, <4>1
      <3> QED
        BY <3>1, <3>2
    <2>5. ASSUME Tail(add) # <<>> => Guard!Commands(add) # <<>>
          PROVE  ~Guard!MergeScript(made, add).changed
      <3> DEFINE rest == Tail(made)
                 more == <<h>> \o wanted \o rest
                 all  == Guard!Commands(rest)
      <3>1. made # <<>> /\ Guard!IsShebang(Head(made)) /\ Head(made) = h
            /\ all = Guard!Commands(wanted)
        BY <1>4, <2>2
      <3>2. Guard!MergeScript(made, add) =
              IF all = <<>>
              THEN [content |-> more, changed |-> more # made, blocked |-> {}]
              ELSE [content |-> made, changed |-> FALSE,
                    blocked |-> IF Guard!Placed(wanted, all) THEN {} ELSE Guard!ToSet(wanted)]
        <4> HIDE DEF made, h
        <4> QED
          BY <3>1 DEF Guard!MergeScript
      <3>3. CASE all = <<>>
        <4>1. wanted = <<>>
          BY <1>3, <2>5, <3>1, <3>3
        <4>2. rest = wanted \o body
          BY <2>2
        <4>3. rest = body
          <5> HIDE DEF rest, wanted, body
          <5> QED
            BY <1>1, <4>1, <4>2
        <4>4. more = made
          BY <4>3
        <4> HIDE DEF more, made, wanted, all
        <4>5. Guard!MergeScript(made, add)
                = [content |-> more, changed |-> FALSE, blocked |-> {}]
          BY <3>2, <3>3, <4>4
        <4> QED
          BY <4>5
      <3>4. CASE all # <<>>
        <4> HIDE DEF more, made, wanted, all
        <4> QED
          BY <3>2, <3>4
      <3> QED
        BY <3>3, <3>4
    <2>6. Guard!LinesSay(made, add, {})
      <3> DEFINE mine == Guard!Commands(wanted)
      <3>1. mine \in Seq(Guard!Lines)
        BY <1>5
      <3>2. Guard!IsPrefix(mine, mine)
        <4> HIDE DEF mine
        <4> QED
          BY <3>1, PrefixIs
      <3> HIDE DEF made, wanted
      <3> QED
        BY <1>7, <2>2, <3>2
    <2> HIDE DEF made, once, commands, wanted
    <2>7. ~once.changed => made = lines /\ lines # <<>>
      BY <2>2, <2>3
    <2> QED
      BY <2>2, <2>3, <2>4, <2>5, <2>6, <2>7 DEF once
  <1>9. CASE commands # <<>>
    <2>1. /\ once.content = lines /\ once.changed = FALSE
          /\ once.blocked = IF Guard!Placed(wanted, commands) THEN {} ELSE Guard!ToSet(wanted)
      BY <1>6, <1>9
    <2>2. lines # <<>>
      <3>1. CASE lines = <<>>
        <4>1. Len(lines) \in Nat /\ \A k \in 1 .. Len(lines) : ~Guard!IsCommand(lines[k])
          BY <3>1
        <4>2. Guard!Commands(lines) = <<>>
          BY <4>1, CommandsNone
        <4> QED
          BY <1>1, <1>9, <4>2
      <3> QED
        BY <3>1
    <2>3. Guard!KeepsLines(lines, lines)
      BY <1>2, SameKeeps
    <2>4. once.blocked = {} => Guard!IsPrefix(Guard!Commands(wanted), commands)
      <3>1. CASE Guard!IsPrefix(wanted, commands)
        <4> HIDE DEF wanted, commands
        <4>1. \A k \in 1 .. Len(wanted) : Guard!IsCommand(wanted[k])
          <5>1. /\ Len(wanted) \in Nat /\ Len(commands) \in Nat /\ Len(wanted) <= Len(commands)
                /\ \A k \in 1 .. Len(wanted) : wanted[k] = commands[k]
            BY <1>3, <1>5, <3>1, PrefixHas
          <5>3. \A k \in 1 .. Len(wanted) : k \in 1 .. Len(commands)
            BY <5>1
          <5> QED
            BY <1>5, <5>1, <5>3
        <4>2. Guard!Commands(wanted \o <<>>) = wanted
          <5>1. <<>> \in Seq(Guard!Lines) /\ \A k \in 1 .. Len(<<>>) : ~Guard!IsCommand(<<>>[k])
            OBVIOUS
          <5> QED
            BY <1>3, <4>1, <5>1, CommandsFirst
        <4>3. wanted \o <<>> = wanted
          BY <1>3
        <4> QED
          BY <3>1, <4>2, <4>3
      <3>2. CASE ~Guard!IsPrefix(wanted, commands)
        <4>1. Len(wanted) # 0
          <5> HIDE DEF wanted, commands
          <5> QED
            BY <1>3, <1>5, <3>2, PrefixIs
        <4>2. 1 \in DOMAIN wanted
          <5> HIDE DEF wanted
          <5> QED
            BY <1>3, <4>1
        <4>3. wanted[1] \in Guard!ToSet(wanted)
          <5> HIDE DEF wanted
          <5> QED
            BY <4>2 DEF Guard!ToSet
        <4> QED
          BY <2>1, <3>2, <4>3 DEF Guard!Placed
      <3> QED
        BY <3>1, <3>2
    <2>5. Guard!IsPrefix(wanted, commands) => once.blocked = {}
      BY <2>1 DEF Guard!Placed
    <2> HIDE DEF once, commands, wanted
    <2>6. Guard!LinesSay(lines, add, once.blocked)
      BY <1>1, <1>7, <2>4, <2>5
    <2> QED
      BY <2>1, <2>2, <2>3, <2>6 DEF once
  <1> QED
    BY <1>8, <1>9

\* A script is merged as a script.
LEMMA ApplyScript ==
  ASSUME NEW write, NEW existing, NEW fragment, write.format = "text", Guard!IsScript(fragment.lines)
  PROVE  LET lines == IF existing = Guard!Absent THEN <<>> ELSE existing.lines
             made  == Guard!MergeScript(lines, fragment.lines)
             out   == Guard!Apply(write, existing, fragment)
         IN  /\ out.content = Guard!Text(made.content) /\ out.changed = made.changed
             /\ out.blocked = made.blocked
  <1> DEFINE lines == IF existing = Guard!Absent THEN <<>> ELSE existing.lines
             made  == Guard!MergeScript(lines, fragment.lines)
  <1>1. PICK c, d, b : made = [content |-> c, changed |-> d, blocked |-> b]
    BY DEF Guard!MergeScript
  <1>2. Guard!Apply(write, existing, fragment) = [made EXCEPT !.content = Guard!Text(@)]
    BY DEF Guard!Apply
  <1> HIDE DEF made
  <1>3. [made EXCEPT !.content = Guard!Text(@)]
          = [content |-> Guard!Text(c), changed |-> d, blocked |-> b]
    BY <1>1
  <1>4. /\ Guard!Apply(write, existing, fragment).content = Guard!Text(made.content)
        /\ Guard!Apply(write, existing, fragment).changed = made.changed
        /\ Guard!Apply(write, existing, fragment).blocked = made.blocked
    BY <1>1, <1>2, <1>3
  <1> QED
    BY <1>4 DEF made

\* A text is merged line by line.
LEMMA ApplyLines ==
  ASSUME NEW write, NEW existing, NEW fragment, write.format = "text", ~Guard!IsScript(fragment.lines)
  PROVE  LET lines == IF existing = Guard!Absent THEN <<>> ELSE existing.lines
             made  == Guard!MergeLines(lines, fragment.lines)
             out   == Guard!Apply(write, existing, fragment)
         IN  /\ out.content = Guard!Text(made.content) /\ out.changed = made.changed
             /\ out.blocked = made.blocked
  <1> DEFINE lines == IF existing = Guard!Absent THEN <<>> ELSE existing.lines
             made  == Guard!MergeLines(lines, fragment.lines)
  <1>1. PICK c, d, b : made = [content |-> c, changed |-> d, blocked |-> b]
    BY DEF Guard!MergeLines
  <1>2. Guard!Apply(write, existing, fragment) = [made EXCEPT !.content = Guard!Text(@)]
    BY DEF Guard!Apply
  <1> HIDE DEF made
  <1>3. [made EXCEPT !.content = Guard!Text(@)]
          = [content |-> Guard!Text(c), changed |-> d, blocked |-> b]
    BY <1>1
  <1>4. /\ Guard!Apply(write, existing, fragment).content = Guard!Text(made.content)
        /\ Guard!Apply(write, existing, fragment).changed = made.changed
        /\ Guard!Apply(write, existing, fragment).blocked = made.blocked
    BY <1>1, <1>2, <1>3
  <1> QED
    BY <1>4 DEF made

\* A tree that is not there is written as it is.
LEMMA ApplyNew ==
  ASSUME NEW write, NEW fragment, write.format # "text"
  PROVE  LET out == Guard!Apply(write, Guard!Absent, fragment)
         IN  out.content = fragment /\ out.changed = TRUE /\ out.blocked = {}
  BY DEF Guard!Apply

\* A tree that is there is merged path by path.
LEMMA ApplyTree ==
  ASSUME NEW write, NEW existing, NEW fragment, write.format # "text", existing # Guard!Absent
  PROVE  LET made == Guard!MergeTree(write, existing.nodes, fragment.nodes)
             out  == Guard!Apply(write, existing, fragment)
         IN  /\ out.content = Guard!Tree(made.content) /\ out.changed = made.changed
             /\ out.blocked = made.blocked
  BY DEF Guard!Apply, Guard!MergeTree

\* A text keeps what one it keeps kept.
LEMMA KeepsLinesOn ==
  ASSUME NEW old, NEW mid, NEW new, Guard!KeepsLines(old, mid), Guard!KeepsLines(mid, new)
  PROVE  Guard!KeepsLines(old, new)
  <1>1. PICK first \in [DOMAIN old -> DOMAIN mid] :
          /\ \A i, j \in DOMAIN old : i < j => first[i] < first[j]
          /\ \A i \in DOMAIN old : mid[first[i]] = old[i]
    BY DEF Guard!KeepsLines
  <1>2. PICK then \in [DOMAIN mid -> DOMAIN new] :
          /\ \A i, j \in DOMAIN mid : i < j => then[i] < then[j]
          /\ \A i \in DOMAIN mid : new[then[i]] = mid[i]
    BY DEF Guard!KeepsLines
  <1> DEFINE place == [i \in DOMAIN old |-> then[first[i]]]
  <1>3. /\ place \in [DOMAIN old -> DOMAIN new]
        /\ \A i, j \in DOMAIN old : i < j => place[i] < place[j]
        /\ \A i \in DOMAIN old : new[place[i]] = old[i]
    BY <1>1, <1>2
  <1> HIDE DEF place
  <1> QED
    BY <1>3 DEF Guard!KeepsLines

\* So does a tree.
LEMMA KeepsNodesOn ==
  ASSUME NEW old, NEW mid, NEW new, Guard!IsTree(old), Guard!IsTree(mid), Guard!IsTree(new),
         Guard!KeepsNodes(old, mid), Guard!KeepsNodes(mid, new)
  PROVE  Guard!KeepsNodes(old, new)
  <1> SUFFICES ASSUME NEW path \in DOMAIN old
               PROVE  /\ path \in DOMAIN new
                      /\ IF old[path].is = "arr"
                         THEN new[path].is = "arr" /\ Guard!IsPrefix(old[path].items, new[path].items)
                         ELSE new[path] = old[path]
    BY DEF Guard!KeepsNodes
  <1>1. /\ path \in DOMAIN mid
        /\ IF old[path].is = "arr"
           THEN mid[path].is = "arr" /\ Guard!IsPrefix(old[path].items, mid[path].items)
           ELSE mid[path] = old[path]
    BY DEF Guard!KeepsNodes
  <1>2. /\ path \in DOMAIN new
        /\ IF mid[path].is = "arr"
           THEN new[path].is = "arr" /\ Guard!IsPrefix(mid[path].items, new[path].items)
           ELSE new[path] = mid[path]
    BY <1>1 DEF Guard!KeepsNodes
  <1>3. old[path] \in Guard!Node /\ mid[path] \in Guard!Node /\ new[path] \in Guard!Node
    BY <1>1, <1>2 DEF Guard!IsTree
  <1>4. CASE old[path].is = "arr"
    <2> DEFINE s == old[path].items
               t == mid[path].items
               u == new[path].items
    <2>1. /\ mid[path].is = "arr" /\ new[path].is = "arr"
          /\ Guard!IsPrefix(s, t) /\ Guard!IsPrefix(t, u)
      BY <1>1, <1>2, <1>4
    <2>2. s \in Seq(STRING) /\ t \in Seq(STRING) /\ u \in Seq(STRING)
      BY <1>3, <1>4, <2>1, NodeIs
    <2> HIDE DEF s, t, u
    <2>3. /\ Len(s) <= Len(t) /\ \A k \in 1 .. Len(s) : s[k] = t[k]
          /\ Len(t) <= Len(u) /\ \A k \in 1 .. Len(t) : t[k] = u[k]
      BY <2>1, <2>2, PrefixHas
    <2>4. Len(s) <= Len(u) /\ \A k \in 1 .. Len(s) : s[k] = u[k]
      BY <2>2, <2>3
    <2>5. Guard!IsPrefix(s, u)
      BY <2>2, <2>4, PrefixIs
    <2> QED
      BY <1>2, <1>4, <2>1, <2>5 DEF s, u
  <1>5. CASE old[path].is # "arr"
    BY <1>1, <1>2, <1>5
  <1> QED
    BY <1>4, <1>5

\* A file keeps what it says while nobody writes it.
LEMMA KeepsSelf ==
  ASSUME NEW f, Guard!IsFile(f)
  PROVE  Guard!Keeps(f, f)
  <1>1. f.is = "lines" => Guard!KeepsLines(f.lines, f.lines)
    <2>1. f.is = "lines" => f.lines \in Seq(Guard!Lines)
      BY DEF Guard!IsFile, Guard!IsText
    <2> QED
      BY <2>1, SameKeeps
  <1>2. ASSUME f.is = "tree" PROVE Guard!KeepsNodes(f.nodes, f.nodes)
    <2>1. Guard!IsTree(f.nodes)
      BY <1>2 DEF Guard!IsFile
    <2> SUFFICES ASSUME NEW path \in DOMAIN f.nodes, f.nodes[path].is = "arr"
                 PROVE  Guard!IsPrefix(f.nodes[path].items, f.nodes[path].items)
      BY DEF Guard!KeepsNodes
    <2>2. f.nodes[path] \in Guard!Node
      BY <2>1 DEF Guard!IsTree
    <2>3. f.nodes[path].items \in Seq(STRING)
      BY <2>2, NodeIs
    <2> DEFINE s == f.nodes[path].items
    <2>4. s \in Seq(STRING)
      BY <2>3
    <2> HIDE DEF s
    <2>5. Len(s) <= Len(s) /\ \A k \in 1 .. Len(s) : s[k] = s[k]
      BY <2>4
    <2>6. Guard!IsPrefix(s, s)
      BY <2>4, <2>5, PrefixIs
    <2> QED
      BY <2>6 DEF s
  <1> QED
    BY <1>1, <1>2 DEF Guard!Keeps

\* What one write keeps the next one keeps.
LEMMA KeepsOn ==
  ASSUME NEW old, NEW mid, NEW new, Guard!IsFile(old), Guard!IsFile(mid), Guard!IsFile(new),
         Guard!Keeps(old, mid), Guard!Keeps(mid, new)
  PROVE  Guard!Keeps(old, new)
  <1>1. ASSUME old.is = "lines" PROVE new.is = "lines" /\ Guard!KeepsLines(old.lines, new.lines)
    <2>1. /\ mid.is = "lines" /\ Guard!KeepsLines(old.lines, mid.lines)
          /\ new.is = "lines" /\ Guard!KeepsLines(mid.lines, new.lines)
      BY <1>1 DEF Guard!Keeps
    <2> QED
      BY <2>1, KeepsLinesOn
  <1>2. ASSUME old.is = "tree" PROVE new.is = "tree" /\ Guard!KeepsNodes(old.nodes, new.nodes)
    <2>1. /\ mid.is = "tree" /\ Guard!KeepsNodes(old.nodes, mid.nodes)
          /\ new.is = "tree" /\ Guard!KeepsNodes(mid.nodes, new.nodes)
      BY <1>2 DEF Guard!Keeps
    <2>2. Guard!IsTree(old.nodes) /\ Guard!IsTree(mid.nodes) /\ Guard!IsTree(new.nodes)
      BY <1>2, <2>1 DEF Guard!IsFile
    <2> QED
      BY <2>1, <2>2, KeepsNodesOn
  <1> QED
    BY <1>1, <1>2 DEF Guard!Keeps

\* A tree or a text is a file, and is neither absent nor raw.
LEMMA FileIs ==
  /\ \A l : /\ Guard!Text(l).is = "lines" /\ Guard!Text(l).lines = l
            /\ Guard!Text(l) # Guard!Absent /\ Guard!Text(l) # Guard!Raw
            /\ Guard!IsText(l) => Guard!IsFile(Guard!Text(l))
  /\ \A n : /\ Guard!Tree(n).is = "tree" /\ Guard!Tree(n).nodes = n
            /\ Guard!Tree(n) # Guard!Absent /\ Guard!Tree(n) # Guard!Raw
            /\ Guard!IsTree(n) => Guard!IsFile(Guard!Tree(n))
  /\ Guard!Absent.is = "absent" /\ Guard!Raw.is = "raw"
  <1>1. \A l : Guard!Text(l).is = "lines" /\ Guard!Text(l).lines = l
    BY DEF Guard!Text
  <1>2. \A n : Guard!Tree(n).is = "tree" /\ Guard!Tree(n).nodes = n
    BY DEF Guard!Tree
  <1>3. Guard!Absent.is = "absent" /\ Guard!Raw.is = "raw"
    BY DEF Guard!Absent, Guard!Raw
  <1>4. \A l : Guard!IsText(l) => Guard!IsFile(Guard!Text(l))
    BY <1>1 DEF Guard!IsFile
  <1>5. \A n : Guard!IsTree(n) => Guard!IsFile(Guard!Tree(n))
    BY <1>2 DEF Guard!IsFile
  <1>6. \A l : Guard!Text(l) # Guard!Absent /\ Guard!Tree(l) # Guard!Absent
    BY <1>1, <1>2, <1>3
  <1>7. \A l : Guard!Text(l) # Guard!Raw /\ Guard!Tree(l) # Guard!Raw
    BY <1>1, <1>2, <1>3
  <1> QED
    BY <1>1, <1>2, <1>3, <1>4, <1>5, <1>6, <1>7

\* A merge makes a file of the write's shape that keeps what was there and says the
\* fragment but for what it names; one that says no change made none; and the same
\* fragment, if it settles, has nothing more to add.
LEMMA ApplyIs ==
  ASSUME NEW write, NEW existing, NEW fragment, Guard!IsFile(existing),
         Guard!Parses(write, existing), Guard!IsFragment(write, fragment)
  PROVE  LET once  == Guard!Apply(write, existing, fragment)
             again == Guard!Apply(write, once.content, fragment)
         IN
         /\ Guard!IsFile(once.content) /\ once.content.is = Guard!Shape(write)
         /\ Guard!Keeps(existing, once.content)
         /\ Guard!Says(write, once.content, fragment, once.blocked)
         /\ Guard!Settles(fragment) => ~again.changed
         /\ ~once.changed => once.content = existing
  <1> DEFINE once  == Guard!Apply(write, existing, fragment)
             again == Guard!Apply(write, once.content, fragment)
  <1>1. CASE write.format = "text"
    <2> DEFINE lines == IF existing = Guard!Absent THEN <<>> ELSE existing.lines
               add   == fragment.lines
    <2>1. /\ Guard!Shape(write) = "lines" /\ fragment.is = "lines" /\ Guard!IsText(add)
          /\ add # <<>>
      BY <1>1 DEF Guard!Shape, Guard!IsFragment, Guard!IsFile
    <2>2. existing.is \in {"absent", "lines"}
      BY <2>1 DEF Guard!Parses
    <2>3. /\ Guard!IsText(lines)
          /\ existing.is = "lines" => lines = existing.lines /\ existing = Guard!Text(lines)
          /\ existing.is = "absent" => lines = <<>>
      <3>1. CASE existing.is = "absent"
        <4>1. lines = <<>>
          BY <3>1 DEF Guard!IsFile
        <4> HIDE DEF lines
        <4> QED
          BY <3>1, <4>1 DEF Guard!IsText
      <3>2. CASE existing.is = "lines"
        <4>1. /\ existing # Guard!Absent /\ Guard!IsText(existing.lines)
              /\ existing = Guard!Text(existing.lines)
          BY <3>2, FileIs DEF Guard!IsFile
        <4> QED
          BY <3>2, <4>1
      <3> QED
        BY <2>2, <3>1, <3>2
    <2>4. ASSUME NEW made, NEW more,
                 once.content = Guard!Text(made.content), once.changed = made.changed,
                 once.blocked = made.blocked, again.changed = more.changed,
                 Guard!IsText(made.content), Guard!KeepsLines(lines, made.content),
                 Guard!Settles(fragment) => ~more.changed,
                 Guard!LinesSay(made.content, add, made.blocked),
                 ~made.changed => made.content = lines /\ lines # <<>>
          PROVE  /\ Guard!IsFile(once.content) /\ once.content.is = Guard!Shape(write)
                 /\ Guard!Keeps(existing, once.content)
                 /\ Guard!Says(write, once.content, fragment, once.blocked)
                 /\ Guard!Settles(fragment) => ~again.changed
                 /\ ~once.changed => once.content = existing
      <3> HIDE DEF once, again, lines
      <3>1. /\ Guard!IsFile(once.content) /\ once.content.is = "lines"
            /\ once.content.lines = made.content
        BY <2>4, FileIs
      <3>2. Guard!Keeps(existing, once.content)
        BY <2>2, <2>3, <2>4, <3>1 DEF Guard!Keeps
      <3>3. Guard!LinesSay(once.content.lines, fragment.lines, once.blocked)
        BY <2>4, <3>1
      <3>4. Guard!Says(write, once.content, fragment, once.blocked)
        BY <2>1, <3>1, <3>3 DEF Guard!Says
      <3>5. ~once.changed => once.content = existing
        BY <2>2, <2>3, <2>4
      <3> QED
        BY <2>1, <2>4, <3>1, <3>2, <3>4, <3>5
    <2>5. CASE Guard!IsScript(add)
      <3> DEFINE made == Guard!MergeScript(lines, add)
                 more == Guard!MergeScript(made.content, add)
      <3>1. /\ once.content = Guard!Text(made.content) /\ once.changed = made.changed
            /\ once.blocked = made.blocked
        BY <1>1, <2>5, ApplyScript
      <3>2. /\ Guard!IsText(made.content) /\ Guard!KeepsLines(lines, made.content)
            /\ (Tail(add) # <<>> => Guard!Commands(add) # <<>>) => ~more.changed
            /\ Guard!LinesSay(made.content, add, made.blocked)
            /\ ~made.changed => made.content = lines /\ lines # <<>>
        <4> HIDE DEF lines, add
        <4> QED
          BY <2>1, <2>3, <2>5, ScriptMerged
      <3>3. once.content # Guard!Absent /\ once.content.lines = made.content
        BY <3>1, FileIs
      <3>4. again.changed = more.changed
        <4> HIDE DEF once, made
        <4> QED
          BY <1>1, <2>5, <3>3, ApplyScript
      <3>5. Guard!Settles(fragment) => (Tail(add) # <<>> => Guard!Commands(add) # <<>>)
        BY <2>1, <2>5 DEF Guard!Settles
      <3> HIDE DEF once, again, made, more, lines, add
      <3>6. Guard!Settles(fragment) => ~more.changed
        BY <3>2, <3>5
      <3> QED
        BY <2>4, <3>1, <3>2, <3>4, <3>6 DEF once, again
    <2>6. CASE ~Guard!IsScript(add)
      <3> DEFINE made == Guard!MergeLines(lines, add)
                 more == Guard!MergeLines(made.content, add)
      <3>1. /\ once.content = Guard!Text(made.content) /\ once.changed = made.changed
            /\ once.blocked = made.blocked
        BY <1>1, <2>6, ApplyLines
      <3>2. /\ Guard!IsText(made.content) /\ Guard!KeepsLines(lines, made.content)
            /\ made.content # <<>>
            /\ ~more.changed
            /\ Guard!LinesSay(made.content, add, made.blocked)
            /\ ~made.changed => made.content = lines
        <4> HIDE DEF lines, add
        <4> QED
          BY <2>1, <2>3, <2>6, LinesMerged
      <3>3. once.content # Guard!Absent /\ once.content.lines = made.content
        BY <3>1, FileIs
      <3>4. again.changed = more.changed
        <4> HIDE DEF once, made
        <4> QED
          BY <1>1, <2>6, <3>3, ApplyLines
      <3> HIDE DEF once, again, made, more, lines, add
      <3>5. ~made.changed => made.content = lines /\ lines # <<>>
        BY <3>2
      <3> QED
        BY <2>4, <3>1, <3>2, <3>4, <3>5 DEF once, again
    <2> QED
      BY <2>5, <2>6
  <1>2. CASE write.format # "text"
    <2> DEFINE add == fragment.nodes
    <2>1. /\ Guard!Shape(write) = "tree" /\ fragment.is = "tree" /\ Guard!IsTree(add)
          /\ fragment = Guard!Tree(add) /\ Guard!IsFile(fragment)
      BY <1>2 DEF Guard!Shape, Guard!IsFragment, Guard!IsFile
    <2>2. existing.is \in {"absent", "tree"}
      BY <2>1 DEF Guard!Parses
    <2>3. CASE existing.is = "absent"
      <3>1. existing = Guard!Absent
        BY <2>3 DEF Guard!IsFile
      <3>2. once.content = fragment /\ once.changed = TRUE /\ once.blocked = {}
        BY <1>2, <3>1, ApplyNew
      <3>3. fragment # Guard!Absent
        BY <2>1, FileIs
      <3>4. again.changed = Guard!MergeTree(write, add, add).changed
        <4>1. again = Guard!Apply(write, fragment, fragment)
          BY <3>2
        <4> HIDE DEF again
        <4> QED
          BY <1>2, <3>3, <4>1, ApplyTree
      <3>5. ~again.changed /\ Guard!TreeSays(write, add, add, {})
        <4> HIDE DEF again, add
        <4>1. /\ ~Guard!MergeTree(write, add, add).changed
              /\ Guard!MergeTree(write, add, add).blocked = {}
          BY <2>1, TreeSelf
        <4>2. Guard!TreeSays(write, add, add, Guard!MergeTree(write, add, add).blocked)
          BY <2>1, <4>1, TreeTold
        <4> QED
          BY <3>4, <4>1, <4>2
      <3>6. Guard!Keeps(existing, fragment)
        BY <2>3 DEF Guard!Keeps
      <3>7. Guard!Says(write, fragment, fragment, {})
        BY <2>1, <3>5 DEF Guard!Says
      <3> HIDE DEF once, again
      <3> QED
        BY <2>1, <3>2, <3>5, <3>6, <3>7 DEF once, again
    <2>4. CASE existing.is = "tree"
      <3> DEFINE nodes == existing.nodes
                 made  == Guard!MergeTree(write, nodes, add)
                 more  == Guard!MergeTree(write, made.content, add)
      <3>1. /\ existing # Guard!Absent /\ Guard!IsTree(nodes)
            /\ existing = Guard!Tree(nodes)
        BY <2>4, FileIs DEF Guard!IsFile
      <3>2. /\ once.content = Guard!Tree(made.content) /\ once.changed = made.changed
            /\ once.blocked = made.blocked
        BY <1>2, <3>1, ApplyTree
      <3>3. /\ Guard!IsTree(made.content) /\ Guard!KeepsNodes(nodes, made.content)
            /\ ~more.changed /\ more.blocked = made.blocked
            /\ made.changed = (made.content # nodes)
        <4> HIDE DEF nodes, add
        <4> QED
          BY <2>1, <3>1, TreeMerged, MergedIs
      <3>4. Guard!TreeSays(write, made.content, add, made.blocked)
        <4>1. Guard!TreeSays(write, made.content, add, more.blocked)
          <5> HIDE DEF nodes, add, made
          <5> QED
            BY <2>1, <3>3, TreeTold
        <4> HIDE DEF nodes, add, made, more
        <4> QED
          BY <3>3, <4>1
      <3>5. /\ once.content # Guard!Absent /\ once.content.nodes = made.content
            /\ once.content.is = "tree" /\ Guard!IsFile(once.content)
        <4> HIDE DEF made, once
        <4> QED
          BY <3>2, <3>3, FileIs
      <3>6. again.changed = more.changed
        <4> HIDE DEF once, made
        <4> QED
          BY <1>2, <3>5, ApplyTree
      <3> HIDE DEF once, again, made, more, nodes
      <3>7. Guard!Keeps(existing, once.content)
        BY <2>4, <3>3, <3>5 DEF Guard!Keeps, nodes
      <3>8. Guard!Says(write, once.content, fragment, once.blocked)
        BY <2>1, <3>2, <3>4, <3>5 DEF Guard!Says
      <3>9. ~once.changed => once.content = existing
        BY <3>1, <3>2, <3>3
      <3> QED
        BY <2>1, <3>3, <3>5, <3>6, <3>7, <3>8, <3>9 DEF once, again
    <2> QED
      BY <2>2, <2>3, <2>4
  <1> QED
    BY <1>1, <1>2

\* What the constants are taken to be, of the list and the release at hand.
LEMMA ListIs ==
  ASSUME Guard!TypeOK
  PROVE  /\ writes # <<>> /\ Len(writes) \in Nat \ {0} /\ DOMAIN writes = 1 .. Len(writes)
         /\ \A i \in DOMAIN writes :
              writes[i] \in DOMAIN GuardEdits /\ \A f \in GuardEdits[writes[i]] : Guard!IsFile(f)
         /\ Len(GuardRendered[writes[1]]) \in Nat
         /\ \A i \in DOMAIN writes : \A r \in 1 .. Len(GuardRendered[writes[1]]) :
              Guard!IsFragment(writes[i], GuardRendered[writes[i]][r])
  <1>1. writes \in GuardWrites
    BY DEF Guard!TypeOK
  <1>2. writes \in Seq(DOMAIN GuardEdits) /\ writes # <<>>
    BY <1>1, GuardAssumption DEF Guard!GuardAssumption
  <1>3. /\ Len(GuardRendered[writes[1]]) \in Nat
        /\ \A i \in DOMAIN writes : \A r \in 1 .. Len(GuardRendered[writes[1]]) :
              Guard!IsFragment(writes[i], GuardRendered[writes[i]][r])
    BY <1>1, GuardAssumption DEF Guard!GuardAssumption
  <1>4. \A w \in DOMAIN GuardEdits : \A f \in GuardEdits[w] : Guard!IsFile(f)
    BY GuardAssumption DEF Guard!GuardAssumption
  <1>5. Len(writes) \in Nat \ {0} /\ DOMAIN writes = 1 .. Len(writes)
    BY <1>2
  <1>6. \A i \in DOMAIN writes : writes[i] \in DOMAIN GuardEdits
    BY <1>2
  <1> QED
    BY <1>2, <1>3, <1>4, <1>5, <1>6

\* What a merge is given.
LEMMA GivenIs ==
  ASSUME Guard!TypeOK, NEW i \in DOMAIN writes
  PROVE  /\ Guard!IsFile(Guard!Existing(i)) /\ Guard!IsFragment(writes[i], Guard!Fragment(i))
         /\ agentFiles[i] # Guard!Raw => Guard!Existing(i) = agentFiles[i]
         /\ Guard!Existing(i).is = Guard!Shape(writes[i]) => Guard!Existing(i) = agentFiles[i]
  <1>1. Guard!IsFile(agentFiles[i]) /\ release \in 1 .. Len(GuardRendered[writes[1]])
    BY DEF Guard!TypeOK
  <1>2. Guard!IsFile(Guard!Existing(i))
    BY <1>1 DEF Guard!Existing, Guard!IsFile, Guard!Absent
  <1>3. Guard!IsFragment(writes[i], Guard!Fragment(i))
    BY <1>1, ListIs DEF Guard!Fragment
  <1>4. Guard!Shape(writes[i]) \in {"tree", "lines"}
    BY DEF Guard!Shape
  <1>5. Guard!Existing(i).is = Guard!Shape(writes[i]) => Guard!Existing(i) = agentFiles[i]
    BY <1>4 DEF Guard!Existing, Guard!Absent
  <1> QED
    BY <1>2, <1>3, <1>5 DEF Guard!Existing

\* What a run makes of what it read.
LEMMA MadeHolds ==
  ASSUME Guard!TypeOK, NEW i \in DOMAIN writes, NEW e, Guard!IsFile(e), Guard!Parses(writes[i], e)
  PROVE  LET made == Guard!Made(i, e) IN
         /\ Guard!IsFile(made.content) /\ made.content.is = Guard!Shape(writes[i])
         /\ Guard!Keeps(e, made.content)
         /\ Guard!Says(writes[i], made.content, Guard!Fragment(i), made.blocked)
         /\ Guard!Settles(Guard!Fragment(i)) => ~Guard!Made(i, made.content).changed
         /\ ~made.changed => made.content = e
  <1> DEFINE w == writes[i]
             f == Guard!Fragment(i)
  <1>1. Guard!IsFragment(w, f) /\ Guard!Parses(w, e)
    BY GivenIs
  <1>2. \A g : Guard!Made(i, g) = Guard!Apply(w, g, f)
    BY DEF Guard!Made
  <1> HIDE DEF w, f
  <1>3. LET once == Guard!Apply(w, e, f) IN
        /\ Guard!IsFile(once.content) /\ once.content.is = Guard!Shape(w)
        /\ Guard!Keeps(e, once.content)
        /\ Guard!Says(w, once.content, f, once.blocked)
        /\ Guard!Settles(f) => ~Guard!Apply(w, once.content, f).changed
        /\ ~once.changed => once.content = e
    BY <1>1, ApplyIs
  <1> QED
    BY <1>2, <1>3 DEF w, f

\* The report of nothing.
LEMMA SilentIs ==
  ASSUME NEW n
  PROVE  /\ DOMAIN Guard!Silent(n) = 1 .. n
         /\ \A i \in 1 .. n : Guard!Silent(n)[i] = Guard!Nothing
         /\ Guard!Nothing.mode = "none" /\ Guard!Nothing.status = "none"
  BY DEF Guard!Silent, Guard!Nothing

\* What a run says of a write it claims to have made, or calls current, is what it read.
LEMMA TellIs ==
  ASSUME Guard!TypeOK, Guard!Underway, merging.mode # "none", NEW e,
         Guard!Tell(merging.at, e)
  PROVE  LET i == merging.at IN
         /\ DOMAIN report' = DOMAIN writes
         /\ \A j \in DOMAIN writes : j # i => report'[j] = report[j]
         /\ report'[i].mode = "write" \/ report'[i].status = "current" =>
              /\ report'[i].blocked = Guard!Made(i, e).blocked
              /\ merging.mode = "write" \/ ~Guard!Made(i, e).changed
  <1> DEFINE i == merging.at
             made == Guard!Made(i, e)
             status == CASE made.blocked # {} -> "overridden"
                         [] made.blocked = {} /\ e = Guard!Absent -> "missing"
                         [] made.blocked = {} /\ e # Guard!Absent ->
                              IF made.changed THEN "stale" ELSE "current"
  <1>1. i \in DOMAIN writes /\ DOMAIN report = DOMAIN writes /\ report[i] = Guard!Nothing
    <2>1. i \in DOMAIN writes /\ DOMAIN report = DOMAIN writes
      BY DEF Guard!TypeOK
    <2>2. i >= merging.at
      BY <2>1, ListIs
    <2> QED
      BY <2>1, <2>2 DEF Guard!Underway
  <1>2. report' = IF merging.mode = "init" THEN report
                  ELSE [report EXCEPT ![i] = [mode |-> merging.mode, status |-> status,
                                              blocked |-> made.blocked]]
    BY DEF Guard!Tell
  <1>3. status = "current" => ~made.changed
    <2> HIDE DEF made
    <2> QED
      OBVIOUS
  <1> HIDE DEF i, made, status
  <1>4. CASE merging.mode = "init"
    BY <1>1, <1>2, <1>4, SilentIs DEF i
  <1>5. CASE merging.mode # "init"
    <2>1. /\ DOMAIN report' = DOMAIN writes
          /\ \A j \in DOMAIN writes : j # i => report'[j] = report[j]
          /\ report'[i] = [mode |-> merging.mode, status |-> status, blocked |-> made.blocked]
      BY <1>1, <1>2, <1>5
    <2>2. /\ report'[i].mode = merging.mode /\ report'[i].status = status
          /\ report'[i].blocked = made.blocked
      BY <2>1
    <2> QED
      BY <1>3, <2>1, <2>2 DEF i, made
  <1> QED
    BY <1>4, <1>5

\* The run goes on to the next write, or ends.
LEMMA RunGoes ==
  ASSUME Guard!TypeOK, merging.mode # "none", UNCHANGED writes,
         merging' = Guard!Idle \/ merging' = Guard!Onwards
  PROVE  /\ merging' = [mode |-> merging'.mode, at |-> merging'.at,
                        step |-> merging'.step, was |-> merging'.was]
         /\ merging'.mode # "none" => merging'.at \in DOMAIN writes' /\ merging'.at = merging.at + 1
         /\ merging'.mode = "none" => merging' = Guard!Idle
         /\ merging'.step = "look"
  <1>1. PICK m, a, t, w : merging = [mode |-> m, at |-> a, step |-> t, was |-> w]
    BY DEF Guard!TypeOK
  <1>2. a \in 1 .. Len(writes) /\ Len(writes) \in Nat /\ DOMAIN writes = 1 .. Len(writes) /\ m # "none"
    <2>1. merging.at = a /\ merging.mode = m
      BY <1>1
    <2> QED
      BY <2>1, ListIs DEF Guard!TypeOK
  <1>3. CASE merging' = Guard!Idle
    BY <1>3 DEF Guard!Idle
  <1>4. CASE merging' # Guard!Idle
    <2>1. /\ merging' = [merging EXCEPT !.at = @ + 1, !.step = "look", !.was = Guard!Absent]
          /\ merging.at < Len(writes)
      BY <1>4 DEF Guard!Onwards
    <2>2. merging' = [mode |-> m, at |-> a + 1, step |-> "look", was |-> Guard!Absent] /\ a < Len(writes)
      BY <1>1, <2>1
    <2>3. /\ merging'.mode = m /\ merging'.at = a + 1 /\ merging'.step = "look"
          /\ merging'.was = Guard!Absent /\ merging.at = a
      BY <1>1, <2>2
    <2>4. a + 1 \in DOMAIN writes
      BY <1>2, <2>2
    <2> QED
      BY <1>2, <2>2, <2>3, <2>4
  <1> QED
    BY <1>3, <1>4

\* A step of a run that goes on or ends, having spoken of no write after it.
LEMMA RunStays ==
  ASSUME Guard!TypeOK, Guard!Underway, merging.mode # "none", UNCHANGED <<writes, release, theirs>>,
         merging' = Guard!Idle \/ merging' = Guard!Onwards,
         DOMAIN agentFiles' = DOMAIN writes, \A j \in DOMAIN writes : Guard!IsFile(agentFiles'[j]),
         DOMAIN report' = DOMAIN writes,
         \A j \in DOMAIN writes : j # merging.at => report'[j] = report[j]
  PROVE  Guard!TypeOK' /\ Guard!Underway' /\ \A j \in DOMAIN writes : Guard!Held(j)' = agentFiles'[j]
  <1>1. /\ merging' = [mode |-> merging'.mode, at |-> merging'.at,
                       step |-> merging'.step, was |-> merging'.was]
        /\ merging'.mode # "none" => merging'.at \in DOMAIN writes' /\ merging'.at = merging.at + 1
        /\ merging'.mode = "none" => merging' = Guard!Idle
        /\ merging'.step = "look"
    BY RunGoes
  <1>2. Guard!TypeOK'
    BY <1>1 DEF Guard!TypeOK
  <1>3. ASSUME merging'.mode # "none", NEW j \in DOMAIN writes, j >= merging'.at
        PROVE  report'[j] = Guard!Nothing
    <2>1. merging.at \in Nat /\ j \in Nat /\ merging'.at = merging.at + 1
      BY <1>1, <1>3, ListIs DEF Guard!TypeOK
    <2>2. j >= merging.at /\ j # merging.at
      BY <1>3, <2>1
    <2> QED
      BY <2>2 DEF Guard!Underway
  <1>4. Guard!Underway'
    BY <1>1, <1>3 DEF Guard!Underway
  <1>5. \A j \in DOMAIN writes : Guard!Held(j)' = agentFiles'[j]
    BY <1>1 DEF Guard!Held
  <1> QED
    BY <1>2, <1>4, <1>5

\* The outcome of a write is of its file alone.
LEMMA OutcomeStays ==
  ASSUME NEW i, UNCHANGED <<writes, release>>
  PROVE  /\ Guard!Fragment(i)' = Guard!Fragment(i)
         /\ agentFiles'[i] # Guard!Raw => Guard!Outcome(i)' = Guard!Made(i, agentFiles'[i])
         /\ agentFiles'[i] = agentFiles[i] => Guard!Outcome(i)' = Guard!Outcome(i)
  <1>1. Guard!Fragment(i)' = Guard!Fragment(i)
    BY DEF Guard!Fragment
  <1>2. Guard!Outcome(i)' = Guard!Apply(writes'[i], Guard!Existing(i)', Guard!Fragment(i)')
    BY DEF Guard!Outcome, Guard!Made
  <1>3. Guard!Existing(i)' = IF agentFiles'[i] = Guard!Raw THEN Guard!Absent ELSE agentFiles'[i]
    BY DEF Guard!Existing
  <1>4. agentFiles'[i] # Guard!Raw => Guard!Outcome(i)' = Guard!Made(i, agentFiles'[i])
    BY <1>1, <1>2, <1>3 DEF Guard!Made
  <1>5. agentFiles'[i] = agentFiles[i] => Guard!Outcome(i)' = Guard!Outcome(i)
    BY <1>1, <1>2, <1>3 DEF Guard!Made, Guard!Outcome, Guard!Existing
  <1> QED
    BY <1>1, <1>4, <1>5

\* A step that leaves a file and its report, says nothing of it or what holds of it, keeps
\* what is said.
LEMMA SaysStays ==
  ASSUME Guard!SaysWhatHolds, UNCHANGED <<writes, release>>,
         \A j \in DOMAIN writes :
           \/ agentFiles'[j] = agentFiles[j] /\ report'[j] = report[j]
           \/ report'[j] = Guard!Nothing
           \/ report'[j].mode = "write" \/ report'[j].status = "current" =>
                /\ Guard!Says(writes[j], agentFiles'[j], Guard!Fragment(j), report'[j].blocked)
                /\ Guard!Settles(Guard!Fragment(j)) => ~Guard!Outcome(j)'.changed
  PROVE  Guard!SaysWhatHolds'
  <1> SUFFICES ASSUME NEW j \in DOMAIN writes,
                      report'[j].mode = "write" \/ report'[j].status = "current"
               PROVE  /\ Guard!Says(writes[j], agentFiles'[j], Guard!Fragment(j), report'[j].blocked)
                      /\ Guard!Settles(Guard!Fragment(j)) => ~Guard!Outcome(j)'.changed
    <2>1. \A j \in DOMAIN writes : Guard!Fragment(j)' = Guard!Fragment(j)
      BY OutcomeStays
    <2> QED
      BY <2>1 DEF Guard!SaysWhatHolds
  <1>1. report'[j] # Guard!Nothing
    BY SilentIs
  <1>2. CASE agentFiles'[j] = agentFiles[j] /\ report'[j] = report[j]
    <2>1. Guard!Outcome(j)' = Guard!Outcome(j)
      BY <1>2, OutcomeStays
    <2>2. /\ Guard!Says(writes[j], agentFiles[j], Guard!Fragment(j), report[j].blocked)
          /\ Guard!Settles(Guard!Fragment(j)) => ~Guard!Outcome(j).changed
      BY <1>2 DEF Guard!SaysWhatHolds
    <2> QED
      BY <1>2, <2>1, <2>2
  <1> QED
    BY <1>1, <1>2

\* A step that loses no file it does not name, and holds of each other what it held, keeps
\* what people wrote.
LEMMA KeepsStays ==
  ASSUME Guard!KeepsWhatIsThere, UNCHANGED writes,
         \A j \in DOMAIN writes :
           \/ j \in lost'
           \/ j \notin lost /\ theirs'[j] = theirs[j] /\ Guard!Held(j)' = Guard!Held(j)
           \/ Guard!Keeps(theirs'[j], Guard!Held(j)')
  PROVE  Guard!KeepsWhatIsThere'
  BY DEF Guard!KeepsWhatIsThere

\* The first state.
LEMMA GuardInit ==
  ASSUME Guard!Init
  PROVE  Guard!GuardInv
  <1>1. /\ writes \in GuardWrites /\ release = 1 /\ merging = Guard!Idle
        /\ report = Guard!Silent(Len(writes)) /\ theirs = agentFiles /\ lost = {}
        /\ DOMAIN agentFiles = DOMAIN writes
        /\ \A i \in DOMAIN writes : agentFiles[i] \in GuardEdits[writes[i]]
    BY DEF Guard!Init
  <1>2. writes \in Seq(DOMAIN GuardEdits) /\ writes # <<>>
    BY <1>1, GuardAssumption DEF Guard!GuardAssumption
  <1>3. DOMAIN writes = 1 .. Len(writes) /\ \A i \in DOMAIN writes : writes[i] \in DOMAIN GuardEdits
    BY <1>2
  <1>4. \A i \in DOMAIN writes : Guard!IsFile(agentFiles[i])
    BY <1>1, <1>3, GuardAssumption DEF Guard!GuardAssumption
  <1>5. Len(GuardRendered[writes[1]]) \in Nat \ {0}
    BY <1>1, GuardAssumption DEF Guard!GuardAssumption
  <1>6. DOMAIN report = DOMAIN writes /\ \A i \in DOMAIN writes : report[i] = Guard!Nothing
    BY <1>1, <1>3, SilentIs
  <1>7. /\ merging.mode = "none" /\ merging.step = "look"
        /\ merging = [mode |-> merging.mode, at |-> merging.at, step |-> merging.step, was |-> merging.was]
    BY <1>1 DEF Guard!Idle
  <1>8. Guard!TypeOK
    BY <1>1, <1>4, <1>5, <1>6, <1>7 DEF Guard!TypeOK
  <1>9. Guard!Underway /\ Guard!SaysWhatHolds
    BY <1>6, <1>7, SilentIs DEF Guard!Underway, Guard!SaysWhatHolds
  <1>10. Guard!KeepsWhatIsThere
    BY <1>1, <1>4, <1>7, KeepsSelf DEF Guard!KeepsWhatIsThere, Guard!Held
  <1> QED
    BY <1>8, <1>9, <1>10 DEF Guard!GuardInv

\* A run begins by saying nothing.
LEMMA GuardBegin ==
  ASSUME Guard!GuardInv, NEW mode \in {"write", "check", "init"}, Guard!Begin(mode)
  PROVE  Guard!GuardInv'
  <1>0. Guard!TypeOK /\ Guard!KeepsWhatIsThere /\ Guard!SaysWhatHolds
    BY DEF Guard!GuardInv
  <1>1. /\ merging = Guard!Idle /\ merging' = [Guard!Idle EXCEPT !.mode = mode, !.at = 1]
        /\ report' = Guard!Silent(Len(writes))
        /\ UNCHANGED <<writes, release, agentFiles, theirs, lost>>
    BY DEF Guard!Begin
  <1>2. DOMAIN report' = DOMAIN writes /\ \A i \in DOMAIN writes : report'[i] = Guard!Nothing
    BY <1>0, <1>1, ListIs, SilentIs
  <1>3. mode # "none"
    OBVIOUS
  <1>4. merging' = [mode |-> mode, at |-> 1, step |-> "look", was |-> Guard!Absent]
    BY <1>1 DEF Guard!Idle
  <1>5. /\ merging' = [mode |-> merging'.mode, at |-> merging'.at,
                       step |-> merging'.step, was |-> merging'.was]
        /\ merging'.mode = mode /\ merging'.at = 1 /\ merging'.step = "look"
        /\ 1 \in DOMAIN writes
    BY <1>0, <1>4, ListIs
  <1>6. Guard!TypeOK'
    BY <1>0, <1>1, <1>2, <1>3, <1>5 DEF Guard!TypeOK
  <1>7. Guard!Underway'
    BY <1>1, <1>2, <1>5 DEF Guard!Underway
  <1>8. \A j \in DOMAIN writes : Guard!Held(j)' = Guard!Held(j)
    BY <1>1, <1>5 DEF Guard!Held, Guard!Idle
  <1>9. Guard!KeepsWhatIsThere' /\ Guard!SaysWhatHolds'
    BY <1>0, <1>1, <1>2, <1>8, KeepsStays, SaysStays
  <1> QED
    BY <1>6, <1>7, <1>9 DEF Guard!GuardInv

\* A check, or a run whose file has it all.
LEMMA GuardAnswer ==
  ASSUME Guard!GuardInv, Guard!Answer
  PROVE  Guard!GuardInv'
  <1>0. /\ Guard!TypeOK /\ Guard!Underway /\ Guard!KeepsWhatIsThere /\ Guard!SaysWhatHolds
        /\ merging.mode # "none" /\ merging.step = "look"
    BY DEF Guard!GuardInv, Guard!Answer, Guard!At
  <1>1. PICK i : i = merging.at
    OBVIOUS
  <1>2. PICK e : e = Guard!Existing(i)
    OBVIOUS
  <1>3. /\ i \in DOMAIN writes /\ Guard!Parses(writes[i], e)
        /\ merging.mode = "check" \/ ~Guard!Made(i, e).changed
        /\ Guard!Tell(merging.at, e)
        /\ merging' = Guard!Onwards
        /\ UNCHANGED <<writes, release, agentFiles, theirs, lost>>
    BY <1>0, <1>1, <1>2 DEF Guard!Answer, Guard!Outcome, Guard!TypeOK, Guard!Tell
  <1>4. /\ DOMAIN report' = DOMAIN writes
        /\ \A j \in DOMAIN writes : j # i => report'[j] = report[j]
        /\ report'[i].mode = "write" \/ report'[i].status = "current" =>
             /\ report'[i].blocked = Guard!Made(i, e).blocked
             /\ merging.mode = "write" \/ ~Guard!Made(i, e).changed
    BY <1>0, <1>1, <1>3, TellIs
  <1>5. DOMAIN agentFiles' = DOMAIN writes /\ \A j \in DOMAIN writes : Guard!IsFile(agentFiles'[j])
    BY <1>0, <1>3 DEF Guard!TypeOK
  <1>6. Guard!TypeOK' /\ Guard!Underway' /\ \A j \in DOMAIN writes : Guard!Held(j)' = agentFiles'[j]
    BY <1>0, <1>1, <1>3, <1>4, <1>5, RunStays
  <1>7. \A j \in DOMAIN writes : Guard!Held(j)' = Guard!Held(j)
    BY <1>0, <1>3, <1>6 DEF Guard!Held
  <1>8. Guard!KeepsWhatIsThere'
    BY <1>0, <1>3, <1>7, KeepsStays
  <1>9. ASSUME report'[i].mode = "write" \/ report'[i].status = "current"
        PROVE  /\ Guard!Says(writes[i], agentFiles'[i], Guard!Fragment(i), report'[i].blocked)
               /\ Guard!Settles(Guard!Fragment(i)) => ~Guard!Outcome(i)'.changed
    <2>1. ~Guard!Made(i, e).changed /\ report'[i].blocked = Guard!Made(i, e).blocked
      BY <1>3, <1>4, <1>9
    <2>2. Guard!IsFile(e)
      BY <1>0, <1>2, <1>3, GivenIs
    <2>3. /\ Guard!Made(i, e).content = e /\ e.is = Guard!Shape(writes[i])
          /\ Guard!Says(writes[i], e, Guard!Fragment(i), Guard!Made(i, e).blocked)
      BY <1>0, <1>3, <2>1, <2>2, MadeHolds
    <2>4. e = agentFiles[i]
      BY <1>0, <1>2, <1>3, <2>3, GivenIs
    <2>5. Guard!Outcome(i)' = Guard!Outcome(i)
      BY <1>3, OutcomeStays
    <2> QED
      BY <1>2, <1>3, <2>1, <2>3, <2>4, <2>5 DEF Guard!Outcome
  <1>10. Guard!SaysWhatHolds'
    BY <1>0, <1>3, <1>4, <1>9, SaysStays
  <1> QED
    BY <1>6, <1>8, <1>10 DEF Guard!GuardInv

\* A run that will write: it holds what it read.
LEMMA GuardLook ==
  ASSUME Guard!GuardInv, Guard!Look
  PROVE  Guard!GuardInv'
  <1>0. /\ Guard!TypeOK /\ Guard!Underway /\ Guard!KeepsWhatIsThere /\ Guard!SaysWhatHolds
        /\ merging.mode # "none" /\ merging.step = "look"
    BY DEF Guard!GuardInv, Guard!Look, Guard!At
  <1>1. PICK i : i = merging.at
    OBVIOUS
  <1>2. PICK e : e = Guard!Existing(i)
    OBVIOUS
  <1>3. /\ i \in DOMAIN writes /\ Guard!Parses(writes[i], e)
        /\ merging' = [merging EXCEPT !.step = "write", !.was = e]
        /\ UNCHANGED <<writes, release, agentFiles, theirs, lost, report>>
    BY <1>0, <1>1, <1>2 DEF Guard!Look, Guard!TypeOK
  <1>4. PICK m, t, w : merging = [mode |-> m, at |-> i, step |-> t, was |-> w]
    BY <1>0, <1>1 DEF Guard!TypeOK
  <1>5. merging' = [mode |-> m, at |-> i, step |-> "write", was |-> e] /\ m = merging.mode
    BY <1>3, <1>4
  <1>6. /\ merging' = [mode |-> merging'.mode, at |-> merging'.at,
                       step |-> merging'.step, was |-> merging'.was]
        /\ merging'.mode = m /\ merging'.at = i /\ merging'.step = "write" /\ merging'.was = e
    BY <1>5
  <1>7. Guard!TypeOK'
    BY <1>0, <1>3, <1>5, <1>6 DEF Guard!TypeOK
  <1>8. Guard!IsFile(e)
    BY <1>0, <1>2, <1>3, GivenIs
  <1>9. Guard!Parses(writes[i], e)' <=> Guard!Parses(writes[i], e)
    BY <1>3
  <1>10. Guard!Underway'
    BY <1>0, <1>1, <1>3, <1>6, <1>8 DEF Guard!Underway
  <1>11. \A j \in DOMAIN writes : Guard!Held(j)' = Guard!Held(j)
    BY <1>0, <1>3, <1>6 DEF Guard!Held
  <1>12. Guard!KeepsWhatIsThere' /\ Guard!SaysWhatHolds'
    BY <1>0, <1>3, <1>11, KeepsStays, SaysStays
  <1> QED
    BY <1>7, <1>10, <1>12 DEF Guard!GuardInv

\* An emptied file is a file, and so is one of which only a part was written.
LEMMA PartsAre ==
  ASSUME NEW write, NEW content, Guard!IsFile(content), content.is = Guard!Shape(write),
         NEW part \in Guard!Parts(write, content)
  PROVE  Guard!IsFile(part)
  <1>1. Guard!IsText(<<>>)
    BY DEF Guard!IsText
  <1>2. Guard!IsTree([path \in {<<>>} |-> Guard!Obj])
    <2> DEFINE nodes == [path \in {<<>>} |-> Guard!Obj]
    <2>1. <<>> \in Seq(STRING) /\ Guard!Ancestors(<<>>) = {}
      <3>1. Len(<<>>) = 0 /\ 0 .. (0 - 1) = {}
        OBVIOUS
      <3> QED
        BY <3>1 DEF Guard!Ancestors
    <2>2. DOMAIN nodes = {<<>>} /\ nodes[<<>>] = Guard!Obj
      OBVIOUS
    <2>3. nodes \in [{<<>>} -> Guard!Node]
      BY DEF Guard!Node
    <2> HIDE DEF nodes
    <2>4. Guard!IsTree(nodes)
      BY <2>1, <2>2, <2>3 DEF Guard!IsTree
    <2> QED
      BY <2>4 DEF nodes
  <1>3. Guard!IsFile(Guard!Text(<<>>)) /\ Guard!IsFile(Guard!Emptied(write))
    BY <1>1, <1>2, FileIs DEF Guard!Emptied
  <1>4. ASSUME write.format = "text", NEW n \in 1 .. Len(content.lines)
        PROVE  Guard!IsFile(Guard!Text(SubSeq(content.lines, 1, n)))
    <2> DEFINE lines == content.lines
               few == SubSeq(lines, 1, n)
    <2>1. Guard!IsText(lines)
      BY <1>4 DEF Guard!Shape, Guard!IsFile
    <2>2. /\ lines \in Seq(Guard!Lines) /\ Len(lines) \in Nat
          /\ \A k \in 2 .. Len(lines) : ~Guard!IsShebang(lines[k])
      BY <2>1 DEF Guard!IsText
    <2>3. n \in 1 .. Len(lines)
      BY <1>4
    <2> HIDE DEF lines
    <2>4. few \in Seq(Guard!Lines) /\ Len(few) = n /\ \A k \in 1 .. n : few[k] = lines[k]
      BY <2>2, <2>3
    <2> HIDE DEF few
    <2>5. Guard!IsText(few)
      BY <2>2, <2>3, <2>4 DEF Guard!IsText
    <2>6. Guard!IsFile(Guard!Text(few))
      BY <2>5, FileIs
    <2> QED
      BY <2>6 DEF few, lines
  <1> QED
    BY <1>3, <1>4 DEF Guard!Parts

\* The write empties the file: what it was is what the run read, or is lost.
LEMMA GuardEmpty ==
  ASSUME Guard!GuardInv, Guard!Empty
  PROVE  Guard!GuardInv'
  <1>0. /\ Guard!TypeOK /\ Guard!Underway /\ Guard!KeepsWhatIsThere /\ Guard!SaysWhatHolds
        /\ merging.mode # "none" /\ merging.step = "write"
    BY DEF Guard!GuardInv, Guard!Empty, Guard!At
  <1>1. PICK i : i = merging.at
    OBVIOUS
  <1>2. /\ i \in DOMAIN writes
        /\ agentFiles' = [agentFiles EXCEPT ![i] = Guard!Emptied(writes[i])]
        /\ lost' = IF Guard!Existing(i) = merging.was THEN lost ELSE lost \cup {i}
        /\ merging' = [merging EXCEPT !.step = "emptied"]
        /\ UNCHANGED <<writes, release, theirs, report>>
    BY <1>0, <1>1 DEF Guard!Empty, Guard!TypeOK
  <1>3. PICK m, t, w : merging = [mode |-> m, at |-> i, step |-> t, was |-> w]
    BY <1>0, <1>1 DEF Guard!TypeOK
  <1>4. merging' = [mode |-> m, at |-> i, step |-> "emptied", was |-> w] /\ m = merging.mode
        /\ w = merging.was
    BY <1>2, <1>3
  <1>5. /\ merging' = [mode |-> merging'.mode, at |-> merging'.at,
                       step |-> merging'.step, was |-> merging'.was]
        /\ merging'.mode = m /\ merging'.at = i /\ merging'.step = "emptied" /\ merging'.was = w
    BY <1>4
  <1>6. Guard!IsFile(w) /\ Guard!Parses(writes[i], w) /\ report[i] = Guard!Nothing
    <2>1. i >= merging.at
      BY <1>0, <1>1, <1>2, ListIs
    <2> QED
      BY <1>0, <1>1, <1>2, <1>4, <2>1 DEF Guard!Underway
  <1>7. Guard!IsFile(Guard!Emptied(writes[i]))
    <2>1. Guard!IsFile(Guard!Made(i, w).content) /\ Guard!Made(i, w).content.is = Guard!Shape(writes[i])
      BY <1>0, <1>2, <1>6, MadeHolds
    <2>2. Guard!Emptied(writes[i]) \in Guard!Parts(writes[i], Guard!Made(i, w).content)
      BY DEF Guard!Parts
    <2> QED
      BY <2>1, <2>2, PartsAre
  <1>8. /\ DOMAIN agentFiles' = DOMAIN writes
        /\ \A j \in DOMAIN writes : j # i => agentFiles'[j] = agentFiles[j]
        /\ agentFiles'[i] = Guard!Emptied(writes[i])
    BY <1>0, <1>2 DEF Guard!TypeOK
  <1>9. \A j \in DOMAIN writes : Guard!IsFile(agentFiles'[j])
    BY <1>0, <1>7, <1>8 DEF Guard!TypeOK
  <1>10. Guard!TypeOK'
    BY <1>0, <1>2, <1>4, <1>5, <1>8, <1>9 DEF Guard!TypeOK
  <1>11. Guard!Underway'
    BY <1>0, <1>1, <1>2, <1>5, <1>6 DEF Guard!Underway
  <1>12. Guard!Held(i)' = w /\ \A j \in DOMAIN writes : j # i => Guard!Held(j)' = Guard!Held(j)
    BY <1>0, <1>1, <1>5, <1>8 DEF Guard!Held
  <1>13. ASSUME i \notin lost' PROVE Guard!Keeps(theirs[i], w)
    <2>1. Guard!Existing(i) = w /\ i \notin lost
      BY <1>2, <1>4, <1>13
    <2>2. Guard!Keeps(theirs[i], agentFiles[i])
      BY <1>0, <1>2, <2>1 DEF Guard!KeepsWhatIsThere, Guard!Held
    <2>3. CASE agentFiles[i] = Guard!Raw
      <3>1. theirs[i].is # "tree" /\ theirs[i].is # "lines"
        BY <2>2, <2>3, FileIs DEF Guard!Keeps
      <3> QED
        BY <3>1 DEF Guard!Keeps
    <2>4. CASE agentFiles[i] # Guard!Raw
      BY <2>1, <2>2, <2>4 DEF Guard!Existing
    <2> QED
      BY <2>3, <2>4
  <1>14. lost \subseteq lost'
    BY <1>2
  <1>15. \A j \in DOMAIN writes :
           \/ j \in lost'
           \/ j \notin lost /\ theirs'[j] = theirs[j] /\ Guard!Held(j)' = Guard!Held(j)
           \/ Guard!Keeps(theirs'[j], Guard!Held(j)')
    BY <1>2, <1>12, <1>13, <1>14
  <1>16. Guard!KeepsWhatIsThere'
    BY <1>0, <1>2, <1>15, KeepsStays
  <1>17. Guard!SaysWhatHolds'
    BY <1>0, <1>2, <1>6, <1>8, SaysStays
  <1> QED
    BY <1>10, <1>11, <1>16, <1>17 DEF Guard!GuardInv

\* The merged content is written whole.
LEMMA GuardPut ==
  ASSUME Guard!GuardInv, Guard!Put
  PROVE  Guard!GuardInv'
  <1>0. /\ Guard!TypeOK /\ Guard!Underway /\ Guard!KeepsWhatIsThere /\ Guard!SaysWhatHolds
        /\ merging.mode # "none" /\ merging.step = "emptied"
    BY DEF Guard!GuardInv, Guard!Put, Guard!At
  <1>1. PICK i : i = merging.at
    OBVIOUS
  <1>2. PICK e : e = merging.was
    OBVIOUS
  <1>3. PICK c : c = Guard!Made(i, e).content
    OBVIOUS
  <1>4. /\ i \in DOMAIN writes /\ Guard!IsFile(e) /\ Guard!Parses(writes[i], e)
        /\ agentFiles' = [agentFiles EXCEPT ![i] = c]
        /\ Guard!Tell(merging.at, e)
        /\ merging' = Guard!Onwards
        /\ UNCHANGED <<writes, release, theirs, lost>>
    BY <1>0, <1>1, <1>2, <1>3 DEF Guard!Put, Guard!TypeOK, Guard!Tell, Guard!Underway
  <1>5. /\ Guard!IsFile(c) /\ c.is = Guard!Shape(writes[i]) /\ Guard!Keeps(e, c)
        /\ Guard!Says(writes[i], c, Guard!Fragment(i), Guard!Made(i, e).blocked)
        /\ Guard!Settles(Guard!Fragment(i)) => ~Guard!Made(i, c).changed
    BY <1>0, <1>3, <1>4, MadeHolds
  <1>6. /\ DOMAIN agentFiles' = DOMAIN writes
        /\ \A j \in DOMAIN writes : j # i => agentFiles'[j] = agentFiles[j]
        /\ agentFiles'[i] = c
    BY <1>0, <1>4 DEF Guard!TypeOK
  <1>7. \A j \in DOMAIN writes : Guard!IsFile(agentFiles'[j])
    BY <1>0, <1>5, <1>6 DEF Guard!TypeOK
  <1>8. /\ DOMAIN report' = DOMAIN writes
        /\ \A j \in DOMAIN writes : j # i => report'[j] = report[j]
        /\ report'[i].mode = "write" \/ report'[i].status = "current" =>
             report'[i].blocked = Guard!Made(i, e).blocked
    BY <1>0, <1>1, <1>4, TellIs
  <1>9. Guard!TypeOK' /\ Guard!Underway' /\ \A j \in DOMAIN writes : Guard!Held(j)' = agentFiles'[j]
    BY <1>0, <1>1, <1>4, <1>6, <1>7, <1>8, RunStays
  <1>10. \A j \in DOMAIN writes : j # i => Guard!Held(j)' = Guard!Held(j)
    BY <1>1, <1>6, <1>9 DEF Guard!Held
  <1>11. ASSUME i \notin lost PROVE Guard!Keeps(theirs[i], c)
    <2>1. Guard!Keeps(theirs[i], e)
      BY <1>0, <1>1, <1>2, <1>4, <1>11 DEF Guard!KeepsWhatIsThere, Guard!Held
    <2>2. Guard!IsFile(theirs[i])
      BY <1>0, <1>4 DEF Guard!TypeOK
    <2> QED
      BY <1>4, <1>5, <2>1, <2>2, KeepsOn
  <1>12. \A j \in DOMAIN writes :
           \/ j \in lost'
           \/ j \notin lost /\ theirs'[j] = theirs[j] /\ Guard!Held(j)' = Guard!Held(j)
           \/ Guard!Keeps(theirs'[j], Guard!Held(j)')
    BY <1>4, <1>6, <1>9, <1>10, <1>11
  <1>13. Guard!KeepsWhatIsThere'
    BY <1>0, <1>4, <1>12, KeepsStays
  <1>14. Guard!Outcome(i)' = Guard!Made(i, c)
    <2>1. c # Guard!Raw
      <3>1. Guard!Shape(writes[i]) # "raw"
        BY DEF Guard!Shape
      <3> QED
        BY <1>5, <3>1, FileIs
    <2> QED
      BY <1>4, <1>6, <2>1, OutcomeStays
  <1>15. Guard!SaysWhatHolds'
    BY <1>0, <1>4, <1>5, <1>6, <1>8, <1>14, SaysStays
  <1> QED
    BY <1>9, <1>13, <1>15 DEF Guard!GuardInv

\* The write is cut short: the file is lost.
LEMMA GuardCutShort ==
  ASSUME Guard!GuardInv, Guard!CutShort
  PROVE  Guard!GuardInv'
  <1>0. /\ Guard!TypeOK /\ Guard!Underway /\ Guard!KeepsWhatIsThere /\ Guard!SaysWhatHolds
        /\ merging.mode # "none" /\ merging.step = "emptied"
    BY DEF Guard!GuardInv, Guard!CutShort, Guard!At
  <1>1. PICK i : i = merging.at
    OBVIOUS
  <1>2. PICK e : e = merging.was
    OBVIOUS
  <1>3. PICK part \in Guard!Parts(writes[i], Guard!Made(i, e).content) :
          agentFiles' = [agentFiles EXCEPT ![i] = part]
    BY <1>1, <1>2 DEF Guard!CutShort
  <1>4. /\ i \in DOMAIN writes /\ Guard!IsFile(e) /\ Guard!Parses(writes[i], e)
        /\ lost' = lost \cup {i} /\ (merging' = Guard!Idle \/ merging' = Guard!Onwards)
        /\ UNCHANGED <<writes, release, theirs, report>>
    BY <1>0, <1>1, <1>2 DEF Guard!CutShort, Guard!TypeOK, Guard!Underway
  <1>5. Guard!IsFile(part)
    <2>1. Guard!IsFile(Guard!Made(i, e).content) /\ Guard!Made(i, e).content.is = Guard!Shape(writes[i])
      BY <1>0, <1>4, MadeHolds
    <2> QED
      BY <1>3, <2>1, PartsAre
  <1>6. /\ DOMAIN agentFiles' = DOMAIN writes
        /\ \A j \in DOMAIN writes : j # i => agentFiles'[j] = agentFiles[j]
        /\ agentFiles'[i] = part
    BY <1>0, <1>3, <1>4 DEF Guard!TypeOK
  <1>7. \A j \in DOMAIN writes : Guard!IsFile(agentFiles'[j])
    BY <1>0, <1>5, <1>6 DEF Guard!TypeOK
  <1>8. /\ DOMAIN report' = DOMAIN writes /\ \A j \in DOMAIN writes : report'[j] = report[j]
        /\ report'[i] = Guard!Nothing
    <2>1. i >= merging.at
      BY <1>0, <1>1, <1>4, ListIs
    <2> QED
      BY <1>0, <1>4, <2>1 DEF Guard!TypeOK, Guard!Underway
  <1>9. Guard!TypeOK' /\ Guard!Underway' /\ \A j \in DOMAIN writes : Guard!Held(j)' = agentFiles'[j]
    BY <1>0, <1>1, <1>4, <1>6, <1>7, <1>8, RunStays
  <1>10. \A j \in DOMAIN writes : j # i => Guard!Held(j)' = Guard!Held(j)
    BY <1>1, <1>6, <1>9 DEF Guard!Held
  <1>11. Guard!KeepsWhatIsThere'
    BY <1>0, <1>4, <1>10, KeepsStays
  <1>12. Guard!SaysWhatHolds'
    BY <1>0, <1>4, <1>6, <1>8, SaysStays
  <1> QED
    BY <1>9, <1>11, <1>12 DEF Guard!GuardInv

\* A run that stops, or passes over a write, writes nothing.
LEMMA GuardStop ==
  ASSUME Guard!GuardInv, Guard!Stop
  PROVE  Guard!GuardInv'
  <1>0. /\ Guard!TypeOK /\ Guard!Underway /\ Guard!KeepsWhatIsThere /\ Guard!SaysWhatHolds
    BY DEF Guard!GuardInv
  <1>1. /\ merging.mode # "none" /\ merging.step # "emptied"
        /\ merging' = Guard!Idle \/ merging' = Guard!Onwards
        /\ UNCHANGED <<writes, release, agentFiles, theirs, lost, report>>
    BY DEF Guard!Stop
  <1>2. /\ DOMAIN agentFiles' = DOMAIN writes /\ \A j \in DOMAIN writes : Guard!IsFile(agentFiles'[j])
        /\ DOMAIN report' = DOMAIN writes
    BY <1>0, <1>1 DEF Guard!TypeOK
  <1>3. Guard!TypeOK' /\ Guard!Underway' /\ \A j \in DOMAIN writes : Guard!Held(j)' = agentFiles'[j]
    BY <1>0, <1>1, <1>2, RunStays
  <1>4. \A j \in DOMAIN writes : Guard!Held(j)' = Guard!Held(j)
    BY <1>1, <1>3 DEF Guard!Held
  <1>5. Guard!KeepsWhatIsThere' /\ Guard!SaysWhatHolds'
    BY <1>0, <1>1, <1>4, KeepsStays, SaysStays
  <1> QED
    BY <1>3, <1>5 DEF Guard!GuardInv

\* A person's edit takes back what was said of the file, and is what is kept from then on.
LEMMA GuardEdit ==
  ASSUME Guard!GuardInv, Guard!Edit
  PROVE  Guard!GuardInv'
  <1>0. /\ Guard!TypeOK /\ Guard!Underway /\ Guard!KeepsWhatIsThere /\ Guard!SaysWhatHolds
    BY DEF Guard!GuardInv
  <1>1. PICK i \in DOMAIN writes : \E content \in GuardEdits[writes[i]] :
          /\ ~(merging.step = "emptied" /\ merging.at = i)
          /\ agentFiles' = [agentFiles EXCEPT ![i] = content]
          /\ theirs' = [theirs EXCEPT ![i] = content]
          /\ lost' = lost \ {i}
          /\ report' = [report EXCEPT ![i] = Guard!Nothing]
    BY DEF Guard!Edit
  <1>2. PICK content \in GuardEdits[writes[i]] :
          /\ ~(merging.step = "emptied" /\ merging.at = i)
          /\ agentFiles' = [agentFiles EXCEPT ![i] = content]
          /\ theirs' = [theirs EXCEPT ![i] = content]
          /\ lost' = lost \ {i}
          /\ report' = [report EXCEPT ![i] = Guard!Nothing]
    BY <1>1
  <1>3. UNCHANGED <<writes, release, merging>>
    BY DEF Guard!Edit
  <1>4. Guard!IsFile(content)
    BY <1>0, ListIs
  <1>5. DOMAIN agentFiles = DOMAIN writes /\ DOMAIN theirs = DOMAIN writes /\ DOMAIN report = DOMAIN writes
    BY <1>0 DEF Guard!TypeOK
  <1>6. /\ DOMAIN agentFiles' = DOMAIN writes /\ DOMAIN theirs' = DOMAIN writes
        /\ DOMAIN report' = DOMAIN writes
        /\ \A j \in DOMAIN writes : j # i => /\ agentFiles'[j] = agentFiles[j]
                                             /\ theirs'[j] = theirs[j] /\ report'[j] = report[j]
        /\ agentFiles'[i] = content /\ theirs'[i] = content /\ report'[i] = Guard!Nothing
    BY <1>2, <1>5
  <1>7. \A j \in DOMAIN writes : Guard!IsFile(agentFiles'[j]) /\ Guard!IsFile(theirs'[j])
    BY <1>0, <1>4, <1>6 DEF Guard!TypeOK
  <1>8. Guard!TypeOK'
    BY <1>0, <1>3, <1>6, <1>7 DEF Guard!TypeOK
  <1>9. \A j \in DOMAIN writes : report[j] = Guard!Nothing => report'[j] = Guard!Nothing
    BY <1>6
  <1>10. Guard!Underway'
    BY <1>0, <1>3, <1>9 DEF Guard!Underway
  <1>11. /\ Guard!Held(i)' = content
         /\ \A j \in DOMAIN writes : j # i => Guard!Held(j)' = Guard!Held(j)
    BY <1>2, <1>3, <1>6 DEF Guard!Held
  <1>12. Guard!Keeps(content, content)
    BY <1>4, KeepsSelf
  <1>13. \A j \in DOMAIN writes :
           \/ j \in lost'
           \/ j \notin lost /\ theirs'[j] = theirs[j] /\ Guard!Held(j)' = Guard!Held(j)
           \/ Guard!Keeps(theirs'[j], Guard!Held(j)')
    BY <1>2, <1>6, <1>11, <1>12
  <1>14. Guard!KeepsWhatIsThere'
    BY <1>0, <1>3, <1>13, KeepsStays
  <1>15. Guard!SaysWhatHolds'
    BY <1>0, <1>3, <1>6, SaysStays
  <1> QED
    BY <1>8, <1>10, <1>14, <1>15 DEF Guard!GuardInv

\* A release that renders another fragment takes back what was said of every file.
LEMMA GuardUpgrade ==
  ASSUME Guard!GuardInv, Guard!Upgrade
  PROVE  Guard!GuardInv'
  <1>0. Guard!TypeOK /\ Guard!KeepsWhatIsThere
    BY DEF Guard!GuardInv
  <1>1. /\ merging = Guard!Idle
        /\ release < Len(GuardRendered[writes[1]]) /\ release' = release + 1
        /\ report' = Guard!Silent(Len(writes))
        /\ UNCHANGED <<writes, agentFiles, theirs, lost, merging>>
    BY DEF Guard!Upgrade
  <1>2. DOMAIN report' = DOMAIN writes /\ \A i \in DOMAIN writes : report'[i] = Guard!Nothing
    BY <1>0, <1>1, ListIs, SilentIs
  <1>3. release' \in 1 .. Len(GuardRendered[writes[1]])
    BY <1>0, <1>1, ListIs DEF Guard!TypeOK
  <1>4. Guard!TypeOK'
    BY <1>0, <1>1, <1>2, <1>3 DEF Guard!TypeOK
  <1>5. Guard!SaysWhatHolds'
    BY <1>1, <1>2, SilentIs DEF Guard!SaysWhatHolds
  <1>6. merging'.mode = "none"
    BY <1>1 DEF Guard!Idle
  <1>7. Guard!Underway'
    BY <1>6 DEF Guard!Underway
  <1>8. \A j \in DOMAIN writes : Guard!Held(j)' = Guard!Held(j)
    BY <1>1 DEF Guard!Held
  <1>9. Guard!KeepsWhatIsThere'
    BY <1>0, <1>1, <1>8, KeepsStays
  <1> QED
    BY <1>4, <1>5, <1>7, <1>9 DEF Guard!GuardInv

\* Every step of the guards keeps the invariant.
LEMMA GuardNext ==
  ASSUME Guard!GuardInv, [Guard!Next]_guardVars
  PROVE  Guard!GuardInv'
  <1>1. CASE UNCHANGED guardVars
    <2>1. UNCHANGED <<writes, release, agentFiles, theirs, lost, merging, report>>
      BY <1>1 DEF guardVars
    <2>2. Guard!TypeOK' /\ Guard!Underway'
      BY <2>1 DEF Guard!GuardInv, Guard!TypeOK, Guard!Underway
    <2>3. \A j \in DOMAIN writes : Guard!Held(j)' = Guard!Held(j)
      BY <2>1 DEF Guard!Held
    <2>4. Guard!KeepsWhatIsThere' /\ Guard!SaysWhatHolds'
      BY <2>1, <2>3, KeepsStays, SaysStays DEF Guard!GuardInv
    <2> QED
      BY <2>2, <2>4 DEF Guard!GuardInv
  <1>2. ASSUME NEW mode \in {"write", "check", "init"}, Guard!Begin(mode) PROVE Guard!GuardInv'
    BY <1>2, GuardBegin
  <1> QED
    BY <1>1, <1>2, GuardAnswer, GuardLook, GuardEmpty, GuardPut, GuardCutShort, GuardStop,
       GuardEdit, GuardUpgrade DEF Guard!Next

-----------------------------------------------------------------------------
\* Each step of the folder is a step of its topic, or leaves the topic's part alone.
LEMMA FolderSteps ==
  ASSUME [FolderNext]_folderVars
  PROVE  /\ topic' = topic
         /\ topic = "layers" => [Layers!Next]_layerVars
         /\ topic = "guards" => [Guard!Next]_guardVars
         /\ topic = "target" => [Target!Next]_targetVars
         /\ topic = "editor" => [Editor!Next]_editorVars
         /\ topic = "upgrade" => [Swap!Next]_swapVars
  BY DEF FolderNext, folderVars

\* Whatever upgrades overlap, fail or die, and whoever serves the release: what is
\* installed was signed and picked, `penv` stays where one upgrade runs at a time, and an
\* upgrade that says nothing was replaced replaced nothing (upgrade.rs:214-470).
THEOREM UpgradesHold == FolderSpec => UpgradeHolds
  <1> DEFINE Inv == topic = "upgrade" => Swap!UpgradeInv
  <1>1. FolderInit => Inv
    BY SwapInit DEF FolderInit
  <1>2. Inv /\ [FolderNext]_folderVars => Inv'
    BY FolderSteps, SwapNext
  <1>3. Inv => (topic = "upgrade" => Swap!SignedAndPicked /\ Swap!PenvStays)
    BY SwapHolds
  <1>4. Inv /\ [FolderNext]_folderVars =>
          [topic = "upgrade" => Swap!KeptStep]_folderVars
    BY FolderSteps, SwapNext
  <1> HIDE DEF Inv
  <1> QED
    BY <1>1, <1>2, <1>3, <1>4, PTL DEF FolderSpec, UpgradeHolds

\* An answer, once kept, stands through every step of the run and of those after it, and a
\* crash between any two: the target loads as what was rendered, no later check finds the
\* file stale by penv's own doing, and no run changes its other fields or its template
\* (gen.rs:632-707, settled.rs:52-75).  A write of config.toml or of the moved template
\* that is cut short half-way is no step of those: it leaves no answer (files.rs:51-52).
THEOREM AnswersStand == FolderSpec => AnswerStands
  <1> DEFINE Inv == topic = "target" => Target!TargetInv
  <1>1. FolderInit => Inv
    BY TargetInit DEF FolderInit
  <1>2. Inv /\ [FolderNext]_folderVars => Inv'
    BY FolderSteps, TargetNext
  <1>3. Inv => (topic = "target" => Target!AnswerStands)
    BY DEF Target!TargetInv
  <1>4. Inv /\ [FolderNext]_folderVars =>
          [topic = "target" => Target!FieldsStep]_folderVars
    BY FolderSteps, TargetNext
  <1> HIDE DEF Inv
  <1> QED
    BY <1>1, <1>2, <1>3, <1>4, PTL DEF FolderSpec, AnswerStands

\* Whatever the files, the cloud, a bundle and the process hold: a key known to be
\* write-only is never handed over as missing, empty or defaulted; what replaced the
\* cloud's value last is named, and only that; and penv(env/KEY) reads what a run in that
\* environment would hand over, or refuses with it (source.rs:308-424, 524-604, 667-696,
\* 905-991).
THEOREM LayersAgree == FolderSpec => []LayersHold
  <1> DEFINE Inv == topic = "layers" => Layers!LayersInv
  <1>1. FolderInit => Inv
    BY LayersInit DEF FolderInit
  <1>2. Inv /\ [FolderNext]_folderVars => Inv'
    BY FolderSteps, LayersNext
  <1>3. Inv => LayersHold
    BY LayersSay DEF LayersHold
  <1> HIDE DEF Inv
  <1> QED
    BY <1>1, <1>2, <1>3, PTL DEF FolderSpec

\* Whatever the editor writes ahead of the server, and whatever other programs write under
\* it: once the pipe is read, what is shown for a document is what the text it holds has,
\* on a disk no older than the last time the editor spoke of it, and an answer was about
\* the text the editor held when it asked (lsp.rs:214-286).
THEOREM ShownStaysCurrent == FolderSpec => []ShownIsCurrent
  <1> DEFINE Inv == topic = "editor" => Editor!EditorInv
  <1>1. FolderInit => Inv
    BY EditorInit DEF FolderInit
  <1>2. Inv /\ [FolderNext]_folderVars => Inv'
    BY FolderSteps, EditorNext
  <1>3. Inv => ShownIsCurrent
    BY EditorShows DEF ShownIsCurrent
  <1> HIDE DEF Inv
  <1> QED
    BY <1>1, <1>2, <1>3, PTL DEF FolderSpec

\* Whatever a person leaves in a file of an agent's, whatever the releases render and
\* whatever is edited while a run is under way: the file goes on saying all they wrote, in
\* place and in order, unless it was no text, a write of it was cut short, or they wrote it
\* between the run's read and its write; and what a run wrote or called current says the
\* fragment but for what it named, with nothing to add, except that a script of comments
\* alone is added again (merge.rs:7-19, guard.rs:189-260, files.rs:51-52).
THEOREM GuardsStand == FolderSpec => []GuardsHold
  <1> DEFINE Inv == topic = "guards" => Guard!GuardInv
  <1>1. FolderInit => Inv
    BY GuardInit DEF FolderInit
  <1>2. Inv /\ [FolderNext]_folderVars => Inv'
    BY FolderSteps, GuardNext
  <1>3. Inv => GuardsHold
    BY DEF GuardsHold, Guard!GuardsHold, Guard!GuardInv
  <1> HIDE DEF Inv
  <1> QED
    BY <1>1, <1>2, <1>3, PTL DEF FolderSpec
=============================================================================
