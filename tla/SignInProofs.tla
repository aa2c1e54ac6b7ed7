---------------------------- MODULE SignInProofs ----------------------------
(***************************************************************************)
(* LiveLoginIsHeld, RevealsWereApproved and TriesDiffer for any number of  *)
(* sessions, codes, keys and approvals, any number of commands of a        *)
(* session and of tries of an exchange.  A code is worth a login once, a   *)
(* command that signs out forgets only a login the server ended or could   *)
(* not be told of, one that spends an approval has read it, whose key      *)
(* stays, and a try is signed for a later second than any taken before.    *)
(* TypeOK follows last, from the names a command holds at each step.       *)
(***************************************************************************)
EXTENDS SignIn, TLAPS

-----------------------------------------------------------------------------
(* The invariant.                                                          *)

\* Each approval says what it is for, whose and how it stands.
Listed(list) ==
  /\ DOMAIN list = Approvals
  /\ \A r \in Approvals : DOMAIN list[r] = {"key", "by", "state"}

Typed ==
  /\ DOMAIN me = Sessions
  /\ \A p \in Sessions : DOMAIN me[p] = DOMAIN Fresh
  /\ item \in Codes \cup {None}
  /\ device \in [Codes -> {"free", "pending", "approved", "denied", "expired", "spent"}]
  /\ live \subseteq Codes
  /\ Listed(approval)
  /\ cause \in [Codes -> {None} \cup Faults]
  /\ DOMAIN printed = Approvals /\ DOMAIN spent = Approvals

\* A session that may be granted a login has somewhere to keep it; the code in its
\* hands is a granted one where it is kept, revoked or forgotten; and a login it is
\* about to forget is over or excused.
Signing(p) ==
  /\ me[p].pc \in {"start", "wait", "poll", "granted"} => usable
  /\ me[p].pc \in {"wait", "poll", "granted", "revoke"} => me[p].code \in Codes
  /\ me[p].pc \in {"granted", "revoke"} => device[me[p].code] = "spent"
  /\ me[p].pc = "forget" /\ me[p].code # None =>
       /\ me[p].code \in Codes /\ device[me[p].code] = "spent"
       /\ me[p].code \notin live \/ cause[me[p].code] # None

\* An approval a session names was asked for, and one it spends is its key's.
Revealing(p) ==
  LET id == me[p].id IN
  /\ id # None => id \in Approvals /\ approval[id].state # "free"
  /\ me[p].pc \in {"look", "spend"} => id # None
  /\ me[p].pc = "spend" => approval[id].key = me[p].key

\* A login is made of a code that is spent with it.
Spent ==
  /\ \A c \in live : device[c] = "spent"
  /\ item # None => device[item] = "spent"

Printed ==
  \A r \in Approvals :
    /\ \/ printed[r] = <<>>
       \/ approval[r].state = "redeemed" /\ printed[r] = << approval[r].key >>
    /\ \/ spent[r] = {}
       \/ approval[r].state = "redeemed" /\ spent[r] = {approval[r].key}

IInv ==
  /\ Typed
  /\ \A p \in Sessions : Signing(p) /\ Revealing(p)
  /\ Spent
  /\ LiveLoginIsHeld
  /\ Printed

-----------------------------------------------------------------------------
(* What one command's step leaves of the others.                           *)

\* What the server and the keychain do to whoever does not move.
Moves ==
  /\ usable' = usable
  /\ \A c \in Codes :
       /\ device[c] = "spent" => device'[c] = "spent" /\ (c \in live' => c \in live)
       /\ cause[c] # None => cause'[c] # None
  /\ \A r \in Approvals : approval[r].state # "free" =>
       approval'[r].state # "free" /\ approval'[r].key = approval[r].key

\* The fields the invariant reads.
Same(q) ==
  /\ me'[q].pc = me[q].pc /\ me'[q].code = me[q].code
  /\ me'[q].id = me[q].id /\ me'[q].key = me[q].key

LEMMA Others ==
  ASSUME IInv, Moves, NEW q \in Sessions, Same(q)
  PROVE  Signing(q)' /\ Revealing(q)'
  <1>1. Signing(q)'
    BY DEF IInv, Typed, Moves, Signing, Same
  <1>2. Revealing(q)'
    BY DEF IInv, Typed, Moves, Revealing, Same
  <1> QED
    BY <1>1, <1>2

\* Only p moves.
Alone(p) ==
  /\ DOMAIN me' = Sessions
  /\ \A q \in Sessions : DOMAIN me'[q] = DOMAIN Fresh
  /\ \A q \in Sessions : q # p => me'[q] = me[q]

LEMMA FreshFields ==
  DOMAIN Fresh = {"pc", "key", "id", "code", "interval", "left", "again", "tries",
                  "opened", "began", "last", "until", "clash"}
  BY DEF Fresh

LEMMA SetFields ==
  ASSUME Typed, NEW p \in Sessions, NEW r, Set(p, r), DOMAIN r = DOMAIN Fresh
  PROVE  me'[p] = r /\ Alone(p)
  BY DEF Typed, Set, Alone

LEMMA EndsFields ==
  ASSUME Typed, NEW p \in Sessions, Ends(p)
  PROVE  me'[p].pc = "idle" /\ me'[p].id = None /\ Alone(p)
  <1> DEFINE r == [Fresh EXCEPT !.clash = me[p].clash]
  <1>1. DOMAIN r = DOMAIN Fresh /\ r.pc = "idle" /\ r.id = None
    BY DEF Fresh
  <1>2. Set(p, r)
    BY DEF Ends
  <1> HIDE DEF r
  <1> QED
    BY <1>1, <1>2, SetFields

LEMMA AgainFields ==
  ASSUME Typed, NEW p \in Sessions, Again(p)
  PROVE  Same(p) /\ Alone(p)
  <1> DEFINE r == [me[p] EXCEPT !.again = TRUE]
  <1>1. /\ DOMAIN r = DOMAIN Fresh
        /\ r.pc = me[p].pc /\ r.code = me[p].code /\ r.id = me[p].id /\ r.key = me[p].key
    BY FreshFields DEF Typed
  <1>2. Set(p, r)
    BY DEF Again
  <1> HIDE DEF r
  <1> QED
    BY <1>1, <1>2, SetFields DEF Same

LEMMA UnansweredFields ==
  ASSUME Typed, NEW p \in Sessions, NEW fate, Unanswered(p, fate)
  PROVE  Alone(p) /\ (Same(p) \/ (me'[p].pc = "idle" /\ me'[p].id = None))
  BY EndsFields, AgainFields DEF Unanswered

\* An idle session promises nothing.
LEMMA IdleHolds ==
  ASSUME NEW p \in Sessions, me'[p].pc = "idle", me'[p].id = None
  PROVE  Signing(p)' /\ Revealing(p)'
  BY DEF Signing, Revealing

-----------------------------------------------------------------------------
(* How the invariant is put together again.                                *)

LEMMA Whole ==
  ASSUME IInv, NEW p \in Sessions, Alone(p), Moves, Signing(p)' /\ Revealing(p)',
         item' \in Codes \cup {None},
         device' \in [Codes -> {"free", "pending", "approved", "denied", "expired", "spent"}],
         live' \subseteq Codes, Listed(approval'),
         cause' \in [Codes -> {None} \cup Faults], DOMAIN printed' = Approvals,
         DOMAIN spent' = Approvals, Spent', LiveLoginIsHeld', Printed'
  PROVE  IInv'
  <1>1. Typed'
    BY DEF Alone, Typed
  <1>2. ASSUME NEW q \in Sessions
        PROVE  Signing(q)' /\ Revealing(q)'
    <2>1. CASE q = p
      BY <2>1
    <2>2. CASE q # p
      <3>1. Same(q)
        BY <2>2 DEF Alone, Same
      <3> QED
        BY <3>1, Others
    <2> QED
      BY <2>1, <2>2
  <1> QED
    BY <1>1, <1>2 DEF IInv

\* A step that leaves the server's logins and approvals and the keychain alone, and
\* does not let go of a login.
LEMMA Quiet ==
  ASSUME IInv, NEW p \in Sessions, Alone(p), me[p].pc # "granted",
         UNCHANGED <<usable, item, device, live, approval, cause, printed, spent>>,
         Signing(p)' /\ Revealing(p)'
  PROVE  IInv'
  <1>1. Moves
    BY DEF Moves, IInv, Typed
  <1>2. LiveLoginIsHeld'
    <2> SUFFICES ASSUME NEW c \in live
                 PROVE  \/ item' = c \/ cause'[c] # None
                        \/ \E q \in Sessions : me'[q].code = c /\ me'[q].pc = "granted"
      BY DEF LiveLoginIsHeld
    <2>1. CASE \E q \in Sessions : me[q].code = c /\ me[q].pc = "granted"
      BY <2>1 DEF Alone
    <2> QED
      BY <2>1 DEF IInv, LiveLoginIsHeld
  <1>3. Spent' /\ Printed'
    BY DEF IInv, Spent, Printed
  <1> QED
    BY <1>1, <1>2, <1>3, Whole DEF IInv, Typed

LEMMA QuietEnd ==
  ASSUME IInv, NEW p \in Sessions, Ends(p), me[p].pc # "granted",
         UNCHANGED <<usable, item, device, live, approval, cause, printed, spent>>
  PROVE  IInv'
  <1>1. Alone(p) /\ Signing(p)' /\ Revealing(p)'
    BY EndsFields, IdleHolds DEF IInv
  <1> QED
    BY <1>1, Quiet

-----------------------------------------------------------------------------
(* Signing in.                                                             *)

LEMMA LoginKeeps == ASSUME IInv, NEW p \in Sessions, Login(p) PROVE IInv'
  <1>1. /\ me[p].pc = "idle"
        /\ UNCHANGED <<usable, item, device, live, approval, cause, printed, spent>>
    BY DEF Login, Opens, server
  <1>2. CASE ~MaySignIn(env[p])
    BY <1>1, <1>2, QuietEnd DEF Login
  <1>3. CASE MaySignIn(env[p])
    <2> DEFINE r == [Fresh EXCEPT !.pc = "start"]
    <2>1. DOMAIN r = DOMAIN Fresh /\ r.pc = "start" /\ r.id = None
      BY DEF Fresh
    <2>2. Set(p, r) /\ usable
      BY <1>3 DEF Login, MaySignIn
    <2> HIDE DEF r
    <2>3. me'[p] = r /\ Alone(p)
      BY <2>1, <2>2, SetFields DEF IInv
    <2>4. Signing(p)' /\ Revealing(p)'
      BY <1>1, <2>1, <2>2, <2>3 DEF Signing, Revealing
    <2> QED
      BY <1>1, <2>3, <2>4, Quiet
  <1> QED
    BY <1>2, <1>3

LEMMA DeviceStartKeeps == ASSUME IInv, NEW p \in Sessions, DeviceStart(p) PROVE IInv'
  <1>1. PICK c \in Codes, fate \in Fates :
          /\ device[c] = "free"
          /\ device' = [device EXCEPT ![c] = "pending"]
          /\ IF fate = "answered"
             THEN \E i \in Intervals, l \in Lifetimes :
                    Set(p, [me[p] EXCEPT !.pc = "wait", !.code = c, !.again = FALSE,
                                         !.interval = Clamp(i), !.left = l])
             ELSE Unanswered(p, fate)
    BY DEF DeviceStart
  <1>2. me[p].pc = "start" /\ UNCHANGED <<usable, item, live, approval, cause, printed, spent>>
    BY DEF DeviceStart, At
  <1>3. /\ device' \in [Codes -> {"free", "pending", "approved", "denied", "expired", "spent"}]
        /\ \A d \in Codes : device[d] = "spent" => device'[d] = "spent"
    BY <1>1 DEF IInv, Typed
  <1>4. Moves
    BY <1>2, <1>3 DEF Moves
  <1>5. Alone(p) /\ Signing(p)' /\ Revealing(p)'
    <2>1. CASE fate = "answered"
      <3>1. PICK i \in Intervals, l \in Lifetimes :
              Set(p, [me[p] EXCEPT !.pc = "wait", !.code = c, !.again = FALSE,
                                   !.interval = Clamp(i), !.left = l])
        BY <1>1, <2>1
      <3> DEFINE r == [me[p] EXCEPT !.pc = "wait", !.code = c, !.again = FALSE,
                                    !.interval = Clamp(i), !.left = l]
      <3>2. DOMAIN r = DOMAIN Fresh /\ r.pc = "wait" /\ r.code = c /\ r.id = me[p].id
        BY FreshFields DEF IInv, Typed
      <3>3. Set(p, r)
        BY <3>1
      <3> HIDE DEF r
      <3>4. me'[p] = r /\ Alone(p)
        BY <3>2, <3>3, SetFields DEF IInv
      <3>5. Signing(p)'
        BY <1>2, <3>2, <3>4 DEF Signing, IInv
      <3>6. Revealing(p)'
        BY <1>2, <3>2, <3>4 DEF Revealing, IInv
      <3> QED
        BY <3>4, <3>5, <3>6
    <2>2. CASE fate # "answered"
      BY <1>1, <1>4, <2>2, UnansweredFields, Others, IdleHolds DEF IInv
    <2> QED
      BY <2>1, <2>2
  <1>6. Spent' /\ Printed'
    BY <1>2, <1>3 DEF IInv, Typed, Spent, Printed
  <1>7. LiveLoginIsHeld'
    <2> SUFFICES ASSUME NEW d \in live
                 PROVE  \/ item' = d \/ cause'[d] # None
                        \/ \E q \in Sessions : me'[q].code = d /\ me'[q].pc = "granted"
      BY <1>2 DEF LiveLoginIsHeld
    <2>1. CASE \E q \in Sessions : me[q].code = d /\ me[q].pc = "granted"
      BY <1>2, <1>5, <2>1 DEF Alone
    <2> QED
      BY <1>2, <2>1 DEF IInv, LiveLoginIsHeld
  <1> QED
    BY <1>2, <1>3, <1>4, <1>5, <1>6, <1>7, Whole DEF IInv, Typed

LEMMA SleepKeeps == ASSUME IInv, NEW p \in Sessions, Sleep(p) PROVE IInv'
  <1> DEFINE r == [me[p] EXCEPT !.pc = "poll", !.again = FALSE,
                     !.left = IF @ > me[p].interval THEN @ - me[p].interval ELSE 0]
  <1>1. /\ me[p].pc = "wait" /\ Set(p, r)
        /\ UNCHANGED <<usable, item, device, live, approval, cause, printed, spent>>
    BY DEF Sleep, At, server
  <1>2. DOMAIN r = DOMAIN Fresh /\ r.pc = "poll" /\ r.code = me[p].code /\ r.id = me[p].id
    BY FreshFields DEF IInv, Typed
  <1> HIDE DEF r
  <1>3. me'[p] = r /\ Alone(p)
    BY <1>1, <1>2, SetFields DEF IInv
  <1>4. Signing(p)'
    BY <1>1, <1>2, <1>3 DEF Signing, IInv
  <1>5. Revealing(p)'
    BY <1>1, <1>2, <1>3 DEF Revealing, IInv
  <1> QED
    BY <1>1, <1>3, <1>4, <1>5, Quiet

\* Waiting on.
LEMMA WaitsKeeps ==
  ASSUME IInv, NEW p \in Sessions, NEW i, Waits(p, i), me[p].pc = "poll",
         UNCHANGED <<usable, item, device, live, approval, cause, printed, spent>>
  PROVE  IInv'
  <1>1. CASE me[p].left = 0
    BY <1>1, QuietEnd DEF Waits
  <1>2. CASE me[p].left # 0
    <2> DEFINE r == [me[p] EXCEPT !.pc = "wait", !.interval = i]
    <2>1. DOMAIN r = DOMAIN Fresh /\ r.pc = "wait" /\ r.code = me[p].code /\ r.id = me[p].id
      BY FreshFields DEF IInv, Typed
    <2>2. Set(p, r)
      BY <1>2 DEF Waits
    <2> HIDE DEF r
    <2>3. me'[p] = r /\ Alone(p)
      BY <2>1, <2>2, SetFields DEF IInv
    <2>4. Signing(p)'
      BY <2>1, <2>3 DEF Signing, IInv
    <2>5. Revealing(p)'
      BY <2>1, <2>3 DEF Revealing, IInv
    <2> QED
      BY <2>3, <2>4, <2>5, Quiet
  <1> QED
    BY <1>1, <1>2

LEMMA SlowDownKeeps == ASSUME IInv, NEW p \in Sessions, SlowDown(p) PROVE IInv'
  BY WaitsKeeps DEF SlowDown, At, server

\* A fault's name stays with the code.
LEMMA OrphanStays ==
  ASSUME cause \in [Codes -> {None} \cup Faults], NEW c, NEW why \in Faults, Orphan(c, why)
  PROVE  /\ cause' \in [Codes -> {None} \cup Faults]
         /\ \A d \in Codes : cause[d] # None => cause'[d] # None
         /\ c \in Codes => cause'[c] # None
  BY SignInAssumption DEF Orphan

LEMMA PollKeeps == ASSUME IInv, NEW p \in Sessions, Poll(p) PROVE IInv'
  <1> DEFINE c == me[p].code
  <1>1. /\ me[p].pc = "poll" /\ c \in Codes /\ usable
        /\ UNCHANGED <<usable, item, approval, printed, spent>>
    BY DEF Poll, At, IInv, Signing
  <1>2. CASE device[c] # "approved"
    <2>1. UNCHANGED <<device, live, cause>>
      BY <1>2 DEF Poll
    <2>2. PICK fate \in Fates :
            IF fate = "answered"
            THEN IF device[c] = "pending" THEN Waits(p, me[p].interval) ELSE Ends(p)
            ELSE Unanswered(p, fate)
      BY <1>2 DEF Poll
    <2>3. CASE Waits(p, me[p].interval)
      BY <1>1, <2>1, <2>3, WaitsKeeps
    <2>4. CASE Ends(p)
      BY <1>1, <2>1, <2>4, QuietEnd
    <2>5. CASE Unanswered(p, fate)
      <3>1. Moves
        BY <1>1, <2>1 DEF Moves
      <3>2. Alone(p) /\ Signing(p)' /\ Revealing(p)'
        BY <2>5, <3>1, UnansweredFields, Others, IdleHolds DEF IInv
      <3> QED
        BY <1>1, <2>1, <3>2, Quiet
    <2> QED
      BY <2>2, <2>3, <2>4, <2>5
  <1>3. CASE device[c] = "approved"
    <2>1. PICK fate \in Fates :
            /\ device' = [device EXCEPT ![c] = "spent"]
            /\ live' = live \cup {c}
            /\ IF fate = "answered"
               THEN Set(p, [me[p] EXCEPT !.pc = "granted"]) /\ UNCHANGED cause
               ELSE Unanswered(p, fate) /\ Orphan(c, "lost")
      BY <1>3 DEF Poll
    <2> HIDE DEF c
    <2>2. /\ device' \in [Codes -> {"free", "pending", "approved", "denied", "expired", "spent"}]
          /\ \A d \in Codes : device[d] = "spent" => device'[d] = "spent" /\ d # c
          /\ device'[c] = "spent"
      BY <1>1, <1>3, <2>1 DEF IInv, Typed
    <2>3. /\ cause' \in [Codes -> {None} \cup Faults]
          /\ \A d \in Codes : cause[d] # None => cause'[d] # None
          /\ fate # "answered" => cause'[c] # None
      BY <1>1, <2>1, OrphanStays DEF IInv, Typed, Faults
    <2>4. Moves
      BY <1>1, <2>1, <2>2, <2>3 DEF Moves
    <2>5. /\ Alone(p) /\ Signing(p)' /\ Revealing(p)'
          /\ fate = "answered" => me'[p].pc = "granted" /\ me'[p].code = c
      <3>1. CASE fate = "answered"
        <4> DEFINE r == [me[p] EXCEPT !.pc = "granted"]
        <4>1. DOMAIN r = DOMAIN Fresh /\ r.pc = "granted" /\ r.code = c /\ r.id = me[p].id
          BY FreshFields DEF IInv, Typed, c
        <4>2. Set(p, r)
          BY <2>1, <3>1
        <4> HIDE DEF r
        <4>3. me'[p] = r /\ Alone(p)
          BY <4>1, <4>2, SetFields DEF IInv
        <4>4. Signing(p)'
          BY <1>1, <2>2, <4>1, <4>3 DEF Signing
        <4>5. Revealing(p)'
          BY <1>1, <4>1, <4>3 DEF Revealing, IInv
        <4> QED
          BY <4>1, <4>3, <4>4, <4>5
      <3>2. CASE fate # "answered"
        BY <2>1, <2>4, <3>2, UnansweredFields, Others, IdleHolds DEF IInv
      <3> QED
        BY <3>1, <3>2
    <2>6. Spent' /\ Printed'
      BY <1>1, <2>1, <2>2 DEF IInv, Typed, Spent, Printed
    <2>7. LiveLoginIsHeld'
      <3> SUFFICES ASSUME NEW d \in live'
                   PROVE  \/ item' = d \/ cause'[d] # None
                          \/ \E q \in Sessions : me'[q].code = d /\ me'[q].pc = "granted"
        BY DEF LiveLoginIsHeld
      <3>1. CASE d = c
        BY <2>3, <2>5, <3>1
      <3>2. CASE d # c
        <4>1. d \in live /\ d \in Codes
          BY <2>1, <3>2 DEF IInv, Typed
        <4>2. CASE \E q \in Sessions : me[q].code = d /\ me[q].pc = "granted"
          BY <1>1, <2>5, <4>2 DEF Alone
        <4> QED
          BY <1>1, <2>3, <4>1, <4>2 DEF IInv, LiveLoginIsHeld
      <3> QED
        BY <3>1, <3>2
    <2>8. live' \subseteq Codes
      BY <1>1, <2>1 DEF IInv, Typed
    <2> QED
      BY <1>1, <2>2, <2>3, <2>4, <2>5, <2>6, <2>7, <2>8, Whole DEF IInv, Typed
  <1> QED
    BY <1>2, <1>3

\* A login that leaves a command's hands or the keychain is kept, over or excused.
LEMMA LetGo ==
  ASSUME IInv, NEW p \in Sessions, Ends(p),
         UNCHANGED <<usable, device, live, approval, printed, spent>>,
         item' \in Codes \cup {None}, item' # None => device[item'] = "spent",
         cause' \in [Codes -> {None} \cup Faults],
         \A d \in Codes : cause[d] # None => cause'[d] # None,
         item \in live => item' = item \/ cause'[item] # None,
         me[p].pc = "granted" => item' = me[p].code \/ cause'[me[p].code] # None
  PROVE  IInv'
  <1>1. Alone(p) /\ Signing(p)' /\ Revealing(p)'
    BY EndsFields, IdleHolds DEF IInv
  <1>2. Moves
    BY DEF Moves
  <1>3. Spent' /\ Printed'
    BY DEF IInv, Spent, Printed
  <1>4. LiveLoginIsHeld'
    <2> SUFFICES ASSUME NEW c \in live
                 PROVE  \/ item' = c \/ cause'[c] # None
                        \/ \E q \in Sessions : me'[q].code = c /\ me'[q].pc = "granted"
      BY DEF LiveLoginIsHeld
    <2>1. c \in Codes
      BY DEF IInv, Typed
    <2>2. CASE \E q \in Sessions : me[q].code = c /\ me[q].pc = "granted"
      BY <1>1, <2>2 DEF Alone
    <2>3. CASE item = c \/ cause[c] # None
      BY <2>1, <2>3
    <2> QED
      BY <2>2, <2>3 DEF IInv, LiveLoginIsHeld
  <1> QED
    BY <1>1, <1>2, <1>3, <1>4, Whole DEF IInv, Typed

LEMMA KeepKeeps == ASSUME IInv, NEW p \in Sessions, Keep(p) \/ KeepFails(p) PROVE IInv'
  <1> DEFINE c == me[p].code
  <1>1. /\ me[p].pc = "granted" /\ c \in Codes /\ device[c] = "spent" /\ usable
        /\ Ends(p)
        /\ UNCHANGED <<usable, device, live, approval, printed, spent>>
    BY DEF Keep, KeepFails, At, server, IInv, Signing
  <1>2. CASE Keep(p)
    <2>1. item' = c /\ IF item \in live \ {c} THEN Orphan(item, "replaced") ELSE UNCHANGED cause
      BY <1>2 DEF Keep
    <2>2. /\ cause' \in [Codes -> {None} \cup Faults]
          /\ \A d \in Codes : cause[d] # None => cause'[d] # None
          /\ item \in live => item = c \/ cause'[item] # None
      BY <2>1, OrphanStays DEF IInv, Typed, Faults
    <2> QED
      BY <1>1, <2>1, <2>2, LetGo
  <1>3. CASE KeepFails(p)
    <2>1. item' = item /\ Orphan(c, "refused")
      BY <1>1, <1>3 DEF KeepFails
    <2>2. /\ cause' \in [Codes -> {None} \cup Faults]
          /\ \A d \in Codes : cause[d] # None => cause'[d] # None
          /\ cause'[c] # None
      BY <1>1, <2>1, OrphanStays DEF IInv, Typed, Faults
    <2> QED
      BY <1>1, <2>1, <2>2, LetGo DEF IInv, Typed, Spent
  <1> QED
    BY <1>2, <1>3

LEMMA CrashKeeps == ASSUME IInv, NEW p \in Sessions, Crash(p) PROVE IInv'
  <1>1. Ends(p) /\ UNCHANGED <<usable, item, device, live, approval, printed, spent>>
    BY DEF Crash, server
  <1>2. CASE me[p].pc = "granted"
    <2>1. Orphan(me[p].code, "crash") /\ me[p].code \in Codes
      BY <1>2 DEF Crash, At, IInv, Signing
    <2>2. /\ cause' \in [Codes -> {None} \cup Faults]
          /\ \A d \in Codes : cause[d] # None => cause'[d] # None
          /\ cause'[me[p].code] # None
      BY <2>1, OrphanStays DEF IInv, Typed, Faults
    <2> QED
      BY <1>1, <2>2, LetGo DEF IInv, Typed, Spent
  <1>3. CASE me[p].pc # "granted"
    BY <1>1, <1>3, QuietEnd DEF Crash, At
  <1> QED
    BY <1>2, <1>3

-----------------------------------------------------------------------------
(* Signing out.                                                            *)

LEMMA LogoutKeeps == ASSUME IInv, NEW p \in Sessions, Logout(p) PROVE IInv'
  <1>1. /\ me[p].pc = "idle"
        /\ UNCHANGED <<usable, item, device, live, approval, cause, printed, spent>>
    BY DEF Logout, Opens, server
  <1> DEFINE r == IF item = None THEN [Fresh EXCEPT !.pc = "forget"]
                  ELSE [Fresh EXCEPT !.pc = "revoke", !.code = item]
  <1>2. /\ DOMAIN r = DOMAIN Fresh /\ r.id = None
        /\ item = None => r.pc = "forget" /\ r.code = None
        /\ item # None => r.pc = "revoke" /\ r.code = item
    BY DEF Fresh
  <1>3. Set(p, r)
    BY DEF Logout
  <1> HIDE DEF r
  <1>4. me'[p] = r /\ Alone(p)
    BY <1>2, <1>3, SetFields DEF IInv
  <1>5. Signing(p)'
    BY <1>1, <1>2, <1>4 DEF Signing, IInv, Typed, Spent
  <1>6. Revealing(p)'
    BY <1>2, <1>4 DEF Revealing
  <1> QED
    BY <1>1, <1>4, <1>5, <1>6, Quiet

LEMMA RevokeKeeps == ASSUME IInv, NEW p \in Sessions, Revoke(p) PROVE IInv'
  <1> DEFINE c == me[p].code
  <1>1. /\ me[p].pc = "revoke" /\ c \in Codes /\ device[c] = "spent"
        /\ UNCHANGED <<usable, item, device, approval, printed, spent>>
    BY DEF Revoke, At, IInv, Signing
  <1>2. PICK fate \in Fates \cup {"offline"} :
          /\ live' = IF fate = "offline" THEN live ELSE live \ {c}
          /\ IF fate = "offline" /\ c \in live THEN Orphan(c, "offline") ELSE UNCHANGED cause
          /\ IF fate = "error" /\ ~me[p].again THEN Again(p)
             ELSE Set(p, [me[p] EXCEPT !.pc = "forget"])
    BY DEF Revoke
  <1> HIDE DEF c
  <1>3. /\ cause' \in [Codes -> {None} \cup Faults]
        /\ \A d \in Codes : cause[d] # None => cause'[d] # None
        /\ c \notin live' \/ cause'[c] # None
    BY <1>1, <1>2, OrphanStays DEF IInv, Typed, Faults
  <1>4. Moves
    BY <1>1, <1>2, <1>3 DEF Moves
  <1>5. Alone(p) /\ Signing(p)' /\ Revealing(p)'
    <2>1. CASE Again(p)
      BY <1>4, <2>1, AgainFields, Others DEF IInv
    <2>2. CASE ~Again(p)
      <3> DEFINE r == [me[p] EXCEPT !.pc = "forget"]
      <3>1. DOMAIN r = DOMAIN Fresh /\ r.pc = "forget" /\ r.code = c /\ r.id = me[p].id
        BY FreshFields DEF IInv, Typed, c
      <3>2. Set(p, r)
        BY <1>2, <2>2
      <3> HIDE DEF r
      <3>3. me'[p] = r /\ Alone(p)
        BY <3>1, <3>2, SetFields DEF IInv
      <3>4. Signing(p)'
        BY <1>1, <1>3, <3>1, <3>3 DEF Signing
      <3>5. Revealing(p)'
        BY <1>1, <3>1, <3>3 DEF Revealing, IInv
      <3> QED
        BY <3>3, <3>4, <3>5
    <2> QED
      BY <2>1, <2>2
  <1>6. Spent' /\ Printed' /\ live' \subseteq live
    BY <1>1, <1>2 DEF IInv, Spent, Printed
  <1>7. LiveLoginIsHeld'
    <2> SUFFICES ASSUME NEW d \in live'
                 PROVE  \/ item' = d \/ cause'[d] # None
                        \/ \E q \in Sessions : me'[q].code = d /\ me'[q].pc = "granted"
      BY DEF LiveLoginIsHeld
    <2>1. d \in live /\ d \in Codes
      BY <1>6 DEF IInv, Typed
    <2>2. CASE \E q \in Sessions : me[q].code = d /\ me[q].pc = "granted"
      BY <1>1, <1>5, <2>2 DEF Alone
    <2> QED
      BY <1>1, <1>3, <2>1, <2>2 DEF IInv, LiveLoginIsHeld
  <1> QED
    BY <1>1, <1>3, <1>4, <1>5, <1>6, <1>7, Whole DEF IInv, Typed

LEMMA ForgetKeeps == ASSUME IInv, NEW p \in Sessions, Forget(p) PROVE IInv'
  <1> DEFINE c == me[p].code
  <1>1. /\ me[p].pc = "forget" /\ item' = None /\ Ends(p)
        /\ IF item \in live \ {c} THEN Orphan(item, "overlapped") ELSE UNCHANGED cause
        /\ UNCHANGED <<usable, device, live, approval, printed, spent>>
    BY DEF Forget, At, server
  <1>2. /\ cause' \in [Codes -> {None} \cup Faults]
        /\ \A d \in Codes : cause[d] # None => cause'[d] # None
        /\ item \in live \ {c} => cause'[item] # None
    BY <1>1, OrphanStays DEF IInv, Typed, Faults
  \* The login that was revoked, or could not be.
  <1>3. item \in live /\ item = c => cause'[item] # None
    BY <1>1, <1>2, SignInAssumption DEF IInv, Signing, Typed
  <1> QED
    BY <1>1, <1>2, <1>3, LetGo

-----------------------------------------------------------------------------
(* Revealing.                                                              *)

\* A command on its way to a value: nothing of it is about a login.
LEMMA OnItsWay ==
  ASSUME IInv, NEW p \in Sessions, NEW r, Set(p, r), DOMAIN r = DOMAIN Fresh,
         me[p].pc # "granted",
         r.pc \in {"platform", "exchange", "ask", "look", "spend", "read"},
         r.id # None => r.id \in Approvals /\ approval[r.id].state # "free",
         r.pc \in {"look", "spend"} => r.id # None,
         r.pc = "spend" => approval[r.id].key = r.key,
         UNCHANGED <<usable, item, device, live, approval, cause, printed, spent>>
  PROVE  IInv'
  <1>1. me'[p] = r /\ Alone(p)
    BY SetFields DEF IInv
  <1>2. Signing(p)'
    BY <1>1 DEF Signing
  <1>3. Revealing(p)'
    BY <1>1 DEF Revealing
  <1> QED
    BY <1>1, <1>2, <1>3, Quiet

LEMMA AsksSomewhere ==
  ASSUME NEW e, NEW id
  PROVE  Asks(e, id) \in {"look", "read", "ask"} /\ (Asks(e, id) = "look" => id # None)
  BY DEF Asks

LEMMA RevealKeeps == ASSUME IInv, NEW p \in Sessions, Reveal(p) PROVE IInv'
  <1>1. /\ me[p].pc = "idle"
        /\ UNCHANGED <<usable, item, device, live, approval, cause, printed, spent>>
    BY DEF Reveal, Opens, server
  <1>2. CASE Ends(p)
    BY <1>1, <1>2, QuietEnd
  <1>3. CASE ~Ends(p)
    <2> DEFINE kind == Credential(env[p])
    <2>1. PICK key \in Keys, id \in {None} \cup {r \in Approvals : approval[r].state # "free"} :
            \/ Set(p, [[Fresh EXCEPT !.key = key, !.id = id, !.opened = clock]
                         EXCEPT !.pc = Asks(env[p], id)])
            \/ Set(p, [[Fresh EXCEPT !.key = key, !.id = id, !.opened = clock]
                         EXCEPT !.code = None, !.began = clock,
                                !.pc = IF AsksPlatform(kind) THEN "platform" ELSE "exchange"])
      BY <1>3 DEF Reveal
    <2> DEFINE r == [[Fresh EXCEPT !.key = key, !.id = id, !.opened = clock]
                       EXCEPT !.pc = Asks(env[p], id)]
               s == [[Fresh EXCEPT !.key = key, !.id = id, !.opened = clock]
                       EXCEPT !.code = None, !.began = clock,
                              !.pc = IF AsksPlatform(kind) THEN "platform" ELSE "exchange"]
    <2>2. DOMAIN r = DOMAIN Fresh /\ r.pc = Asks(env[p], id) /\ r.id = id
      BY DEF Fresh
    <2>3. DOMAIN s = DOMAIN Fresh /\ s.pc \in {"platform", "exchange"} /\ s.id = id
      BY DEF Fresh
    <2>4. Set(p, r) \/ Set(p, s)
      BY <2>1
    <2> HIDE DEF r, s
    <2>5. CASE Set(p, r)
      BY <1>1, <2>2, <2>5, AsksSomewhere, OnItsWay
    <2>6. CASE Set(p, s)
      BY <1>1, <2>3, <2>6, OnItsWay
    <2> QED
      BY <2>4, <2>5, <2>6
  <1> QED
    BY <1>2, <1>3

LEMMA PlatformKeeps == ASSUME IInv, NEW p \in Sessions, Platform(p) PROVE IInv'
  <1>1. /\ me[p].pc = "platform"
        /\ UNCHANGED <<usable, item, device, live, approval, cause, printed, spent>>
    BY DEF Platform, At, server
  <1>2. CASE Ends(p)
    BY <1>1, <1>2, QuietEnd
  <1>3. CASE ~Ends(p)
    <2> DEFINE r == [me[p] EXCEPT !.pc = "exchange", !.began = clock]
    <2>1. DOMAIN r = DOMAIN Fresh /\ r.pc = "exchange" /\ r.id = me[p].id
      BY FreshFields DEF IInv, Typed
    <2>2. Set(p, r)
      BY <1>3 DEF Platform
    <2> HIDE DEF r
    <2>3. r.id # None => r.id \in Approvals /\ approval[r.id].state # "free"
      BY <2>1 DEF IInv, Revealing
    <2> QED
      BY <1>1, <2>1, <2>2, <2>3, OnItsWay
  <1> QED
    BY <1>2, <1>3

LEMMA ExchangeKeeps == ASSUME IInv, NEW p \in Sessions, Exchange(p) PROVE IInv'
  <1> DEFINE m == me[p]
             at == Instant(m)
             goes == [m EXCEPT !.pc = Asks(env[p], m.id), !.again = FALSE]
             tried == [m EXCEPT !.last = at, !.tries = @ + 1, !.until = Later(clock, 2 ^ m.tries)]
             clashed == [Fresh EXCEPT !.clash = accepted[at]]
  <1>1. /\ me[p].pc = "exchange"
        /\ UNCHANGED <<usable, item, device, live, approval, cause, printed, spent>>
    BY DEF Exchange, At
  <1>2. Set(p, clashed) \/ Set(p, goes) \/ Set(p, tried) \/ Ends(p)
    BY DEF Exchange
  <1>3. DOMAIN goes = DOMAIN Fresh /\ goes.pc = Asks(env[p], m.id) /\ goes.id = m.id
    BY FreshFields DEF IInv, Typed
  <1>4. DOMAIN tried = DOMAIN Fresh /\ tried.pc = "exchange" /\ tried.id = m.id
    BY <1>1, FreshFields DEF IInv, Typed
  <1>5. DOMAIN clashed = DOMAIN Fresh /\ clashed.pc = "idle" /\ clashed.id = None
    BY DEF Fresh
  <1>6. m.id # None => m.id \in Approvals /\ approval[m.id].state # "free"
    BY DEF IInv, Revealing
  <1> HIDE DEF goes, tried, clashed
  <1>7. CASE Set(p, clashed)
    <2>1. me'[p] = clashed /\ Alone(p)
      BY <1>5, <1>7, SetFields DEF IInv
    <2>2. Signing(p)' /\ Revealing(p)'
      BY <1>5, <2>1, IdleHolds
    <2> QED
      BY <1>1, <2>1, <2>2, Quiet
  <1>8. CASE Set(p, goes)
    BY <1>1, <1>3, <1>6, <1>8, AsksSomewhere, OnItsWay
  <1>9. CASE Set(p, tried)
    BY <1>1, <1>4, <1>6, <1>9, OnItsWay
  <1>10. CASE Ends(p)
    BY <1>1, <1>10, QuietEnd
  <1> QED
    BY <1>2, <1>7, <1>8, <1>9, <1>10

LEMMA LookKeeps == ASSUME IInv, NEW p \in Sessions, Look(p) PROVE IInv'
  <1>1. /\ me[p].pc = "look" /\ me[p].id # None
        /\ UNCHANGED <<usable, item, device, live, approval, cause, printed, spent>>
    BY DEF Look, At, server, IInv, Revealing
  <1>2. CASE Ends(p)
    BY <1>1, <1>2, QuietEnd
  <1>3. CASE ~Ends(p)
    <2> DEFINE r == [me[p] EXCEPT !.pc = "spend", !.again = FALSE]
    <2>1. /\ DOMAIN r = DOMAIN Fresh /\ r.pc = "spend"
          /\ r.id = me[p].id /\ r.key = me[p].key
      BY FreshFields DEF IInv, Typed
    <2>2. Set(p, r) /\ approval[me[p].id].state # "free" /\ approval[me[p].id].key = me[p].key
      BY <1>3 DEF Look, MaySpend
    <2> HIDE DEF r
    <2>3. me[p].id \in Approvals
      BY <1>1 DEF IInv, Revealing
    <2> QED
      BY <1>1, <2>1, <2>2, <2>3, OnItsWay
  <1> QED
    BY <1>2, <1>3

\* A request for approval, and one that is spent.
LEMMA ApprovalKeeps ==
  ASSUME IInv, NEW p \in Sessions, Alone(p), me[p].pc # "granted",
         Same(p) \/ (me'[p].pc = "idle" /\ me'[p].id = None),
         UNCHANGED <<usable, item, device, live, cause>>,
         Listed(approval'), DOMAIN printed' = Approvals, DOMAIN spent' = Approvals,
         \A r \in Approvals : approval[r].state # "free" =>
            approval'[r].state # "free" /\ approval'[r].key = approval[r].key,
         Printed'
  PROVE  IInv'
  <1>1. Moves
    BY DEF Moves
  <1>2. Signing(p)' /\ Revealing(p)'
    BY <1>1, Others, IdleHolds
  <1>3. LiveLoginIsHeld'
    <2> SUFFICES ASSUME NEW d \in live
                 PROVE  \/ item' = d \/ cause'[d] # None
                        \/ \E q \in Sessions : me'[q].code = d /\ me'[q].pc = "granted"
      BY DEF LiveLoginIsHeld
    <2>1. CASE \E q \in Sessions : me[q].code = d /\ me[q].pc = "granted"
      BY <2>1 DEF Alone
    <2> QED
      BY <2>1 DEF IInv, LiveLoginIsHeld
  <1>4. Spent'
    BY DEF IInv, Spent
  <1> QED
    BY <1>1, <1>2, <1>3, <1>4, Whole DEF IInv, Typed

LEMMA AskKeeps == ASSUME IInv, NEW p \in Sessions, Ask(p) PROVE IInv'
  <1>1. /\ me[p].pc = "ask" /\ UNCHANGED <<usable, item, device, live, cause, printed, spent>>
    BY DEF Ask, At
  <1>2. Alone(p) /\ (Same(p) \/ (me'[p].pc = "idle" /\ me'[p].id = None))
    BY EndsFields, UnansweredFields DEF Ask, IInv
  <1>3. CASE UNCHANGED approval
    BY <1>1, <1>2, <1>3, ApprovalKeeps DEF IInv, Typed, Printed
  <1>4. CASE ~UNCHANGED approval
    <2>1. PICK r \in Approvals :
            /\ approval[r].state = "free"
            /\ approval' = [approval EXCEPT ![r] = [key |-> me[p].key, by |-> p, state |-> "pending"]]
      BY <1>4 DEF Ask
    <2>2. /\ Listed(approval') /\ approval'[r].state = "pending"
          /\ \A s \in Approvals : s # r => approval'[s] = approval[s]
      BY <2>1 DEF IInv, Typed, Listed
    <2>3. Printed'
      BY <1>1, <2>1, <2>2 DEF IInv, Printed
    <2> QED
      BY <1>1, <1>2, <2>1, <2>2, <2>3, ApprovalKeeps DEF IInv, Typed
  <1> QED
    BY <1>3, <1>4

LEMMA RedeemKeeps == ASSUME IInv, NEW p \in Sessions, Redeem(p) PROVE IInv'
  <1>0. PICK r \in Approvals : r = me[p].id
    BY DEF Redeem, At, IInv, Revealing
  <1>1. /\ me[p].pc = "spend" /\ approval[r].key = me[p].key
        /\ UNCHANGED <<usable, item, device, live, cause>>
    BY <1>0 DEF Redeem, At, IInv, Revealing
  <1>2. CASE approval[r].state # "approved"
    BY <1>0, <1>1, <1>2, QuietEnd DEF Redeem
  <1>3. CASE approval[r].state = "approved"
    <2>1. /\ approval' = [approval EXCEPT ![r].state = "redeemed"]
          /\ spent' = [spent EXCEPT ![r] = @ \cup {me[p].key}]
          /\ \/ Ends(p) /\ printed' = [printed EXCEPT ![r] = Append(@, me[p].key)]
             \/ (Ends(p) \/ \E fate \in Fates : Unanswered(p, fate)) /\ UNCHANGED printed
      BY <1>0, <1>3 DEF Redeem, MayPrint, Fates
    <2>2. Alone(p) /\ (Same(p) \/ (me'[p].pc = "idle" /\ me'[p].id = None))
      BY <2>1, EndsFields, UnansweredFields DEF IInv
    <2>3. /\ Listed(approval') /\ approval'[r].state = "redeemed"
          /\ approval'[r].key = me[p].key
          /\ \A s \in Approvals : s # r => approval'[s] = approval[s]
      BY <1>1, <2>1 DEF IInv, Typed, Listed
    <2>4. /\ DOMAIN printed' = Approvals
          /\ \A s \in Approvals : s # r => printed'[s] = printed[s]
          /\ printed'[r] = printed[r] \/ printed'[r] = Append(printed[r], me[p].key)
      BY <1>1, <2>1 DEF IInv, Typed
    <2>5. printed[r] = <<>>
      BY <1>1, <1>3 DEF IInv, Printed
    <2>6. printed'[r] = <<>> \/ printed'[r] = << me[p].key >>
      <3>1. Append(<<>>, me[p].key) = << me[p].key >>
        OBVIOUS
      <3> QED
        BY <2>4, <2>5, <3>1
    <2>7. /\ DOMAIN spent' = Approvals
          /\ \A s \in Approvals : s # r => spent'[s] = spent[s]
          /\ spent'[r] = {me[p].key}
      <3>1. spent[r] = {}
        BY <1>3 DEF IInv, Printed
      <3> QED
        BY <2>1, <3>1 DEF IInv, Typed
    <2>8. Printed'
      BY <1>1, <2>3, <2>4, <2>6, <2>7 DEF IInv, Printed
    <2> QED
      BY <1>1, <1>3, <2>2, <2>3, <2>4, <2>7, <2>8, ApprovalKeeps
  <1> QED
    BY <1>2, <1>3

-----------------------------------------------------------------------------
(* The people, the clock, and every step.                                  *)

\* Nobody moves.
LEMMA Outside ==
  ASSUME IInv, UNCHANGED <<me, usable, item, live, cause, printed, spent>>,
         device' \in [Codes -> {"free", "pending", "approved", "denied", "expired", "spent"}],
         \A c \in Codes : device[c] = "spent" => device'[c] = "spent",
         Listed(approval'),
         \A r \in Approvals : approval[r].state # "free" =>
            approval'[r].state # "free" /\ approval'[r].key = approval[r].key,
         Printed'
  PROVE  IInv'
  <1>1. Moves
    BY DEF Moves
  <1>2. Typed'
    BY DEF IInv, Typed
  <1>3. ASSUME NEW q \in Sessions PROVE Signing(q)' /\ Revealing(q)'
    <2>1. Same(q)
      BY DEF Same
    <2> QED
      BY <1>1, <2>1, Others
  <1>4. Spent' /\ LiveLoginIsHeld'
    BY DEF IInv, Typed, Spent, LiveLoginIsHeld
  <1> QED
    BY <1>2, <1>3, <1>4 DEF IInv

LEMMA DecideKeeps == ASSUME IInv, DecideCode \/ DecideApproval PROVE IInv'
  <1>1. CASE DecideCode
    <2>1. PICK c \in Codes, said \in {"approved", "denied", "expired"} :
            /\ device[c] = "pending" /\ device' = [device EXCEPT ![c] = said]
            /\ UNCHANGED <<me, usable, item, live, cause, printed, spent, approval>>
      BY <1>1 DEF DecideCode
    <2>2. /\ device' \in [Codes -> {"free", "pending", "approved", "denied", "expired", "spent"}]
          /\ \A d \in Codes : device[d] = "spent" => device'[d] = "spent"
      BY <2>1 DEF IInv, Typed
    <2> QED
      BY <2>1, <2>2, Outside DEF IInv, Typed, Printed
  <1>2. CASE DecideApproval
    <2>1. PICK r \in Approvals, said \in {"approved", "denied", "expired"} :
            /\ approval[r].state = "pending" /\ approval' = [approval EXCEPT ![r].state = said]
            /\ UNCHANGED <<me, usable, item, live, cause, printed, spent, device>>
      BY <1>2 DEF DecideApproval
    <2>2. /\ Listed(approval') /\ approval'[r].state = said /\ approval'[r].key = approval[r].key
          /\ \A s \in Approvals : s # r => approval'[s] = approval[s]
      BY <2>1 DEF IInv, Typed, Listed
    <2>3. Printed'
      BY <2>1, <2>2 DEF IInv, Printed
    <2> QED
      BY <2>1, <2>2, <2>3, Outside DEF IInv, Typed
  <1> QED
    BY <1>1, <1>2

LEMMA StillKeeps ==
  ASSUME IInv, UNCHANGED <<me, usable, item, device, live, approval, cause, printed, spent>>
  PROVE  IInv'
  BY Outside DEF IInv, Typed, Printed

LEMMA Initially == Init => IInv
  <1> SUFFICES ASSUME Init PROVE IInv
    OBVIOUS
  <1>1. Typed
    BY DEF Init, Typed, Listed, Fresh
  <1>2. ASSUME NEW p \in Sessions PROVE Signing(p) /\ Revealing(p)
    <2>1. me[p].pc = "idle" /\ me[p].id = None
      BY DEF Init, Fresh
    <2> QED
      BY <2>1 DEF Signing, Revealing
  <1>3. Spent /\ LiveLoginIsHeld /\ Printed
    BY DEF Init, Spent, LiveLoginIsHeld, Printed
  <1> QED
    BY <1>1, <1>2, <1>3 DEF IInv

LEMMA Steps == IInv /\ [Next]_vars => IInv'
  <1> SUFFICES ASSUME IInv, [Next]_vars PROVE IInv'
    OBVIOUS
  <1>1. ASSUME NEW p \in Sessions, Login(p) \/ Logout(p) \/ Reveal(p) \/ Crash(p)
        PROVE  IInv'
    BY <1>1, LoginKeeps, LogoutKeeps, RevealKeeps, CrashKeeps
  <1>2. ASSUME NEW p \in Sessions,
               DeviceStart(p) \/ Sleep(p) \/ Poll(p) \/ SlowDown(p) \/ Keep(p) \/ KeepFails(p)
        PROVE  IInv'
    BY <1>2, DeviceStartKeeps, SleepKeeps, PollKeeps, SlowDownKeeps, KeepKeeps
  <1>3. ASSUME NEW p \in Sessions,
               Revoke(p) \/ Forget(p) \/ Platform(p) \/ Exchange(p) \/ Ask(p) \/ Look(p) \/ Redeem(p)
        PROVE  IInv'
    BY <1>3, RevokeKeeps, ForgetKeeps, PlatformKeeps, ExchangeKeeps, AskKeeps, LookKeeps, RedeemKeeps
  <1>4. ASSUME NEW p \in Sessions,
               DeviceStartFails(p) \/ ForgetFails(p) \/ Read(p) \/ Offline(p)
        PROVE  IInv'
    <2>1. /\ Ends(p) /\ me[p].pc # "granted"
          /\ UNCHANGED <<usable, item, device, live, approval, cause, printed, spent>>
      BY <1>4 DEF DeviceStartFails, ForgetFails, Read, Offline, At, server
    <2> QED
      BY <2>1, QuietEnd
  <1>5. CASE DecideCode \/ DecideApproval
    BY <1>5, DecideKeeps
  <1>6. CASE Tick \/ UNCHANGED vars
    <2>1. UNCHANGED <<me, usable, item, device, live, approval, cause, printed, spent>>
      BY <1>6 DEF Tick, vars, server
    <2> QED
      BY <2>1, StillKeeps
  <1> QED
    BY <1>1, <1>2, <1>3, <1>4, <1>5, <1>6 DEF Next, Proceed

LEMMA Invariance == Spec => []IInv
  BY Initially, Steps, PTL DEF Spec

-----------------------------------------------------------------------------
(* What follows.                                                           *)

\* A login the server accepts is kept, in the hands of the command it was granted
\* to, or gone with a fault the code cannot undo (login.rs, logout.rs).
THEOREM Held == Spec => []LiveLoginIsHeld
  <1>1. IInv => LiveLoginIsHeld
    BY DEF IInv
  <1> QED
    BY <1>1, Invariance, PTL

\* An approval prints the key it was asked for, once, whatever key the server
\* names when it is redeemed, and only a command that names it spends it
\* (reveal.rs).
THEOREM Approved == Spec => []RevealsWereApproved
  <1>1. IInv => RevealsWereApproved
    <2> SUFFICES ASSUME Printed, NEW r \in Approvals
                 PROVE  /\ Len(printed[r]) <= 1
                        /\ \A i \in 1..Len(printed[r]) :
                             printed[r][i] = approval[r].key /\ approval[r].state = "redeemed"
                        /\ spent[r] \subseteq {approval[r].key}
      BY DEF IInv, RevealsWereApproved
    <2>1. /\ Len(printed[r]) <= 1
          /\ \A i \in 1..Len(printed[r]) :
               printed[r][i] = approval[r].key /\ approval[r].state = "redeemed"
      <3>1. CASE printed[r] = <<>>
        BY <3>1
      <3>2. CASE approval[r].state = "redeemed" /\ printed[r] = << approval[r].key >>
        BY <3>2
      <3> QED
        BY <3>1, <3>2 DEF Printed
    <2>2. spent[r] \subseteq {approval[r].key}
      BY DEF Printed
    <2> QED
      BY <2>1, <2>2
  <1> QED
    BY <1>1, Invariance, PTL

-----------------------------------------------------------------------------
(* The seconds the tries of one exchange are signed for.                   *)

\* The server took a try of p's command for second t.
Taken(p, t) == accepted[t] = <<p, ran[p]>>

Timed ==
  /\ clock \in 0..MaxClock
  /\ DOMAIN accepted = 0..(MaxClock + MaxTries)
  /\ DOMAIN ran = Sessions /\ \A p \in Sessions : ran[p] \in Nat

\* What the server took of p, and what it refused p for, is of a command p has
\* begun; and it refused p's command for another command's sake.
Numbered(p) ==
  \A n \in Nat :
    /\ \A t \in DOMAIN accepted : accepted[t] = <<p, n>> => n <= ran[p]
    /\ me[p].clash = <<p, n>> => n < ran[p]

\* A try is signed for a second of its own: nothing was taken of the command before
\* its exchange, and nothing after the last second it signed for; and that second is
\* one the server knows.
Timely(p) ==
  LET m == me[p] IN
  /\ m.pc = "platform" =>
       /\ m.last = None /\ m.tries = 0 /\ m.opened \in 0..clock
       /\ \A t \in DOMAIN accepted : ~Taken(p, t)
  /\ m.pc = "exchange" =>
       /\ m.tries \in 0..MaxTries
       /\ m.began \in 0..clock /\ m.opened \in 0..m.began
       /\ m.last = None \/ (m.last \in Nat /\ m.last < MaxClock + m.tries)
       /\ \A t \in DOMAIN accepted : Taken(p, t) => m.last # None /\ t <= m.last

TimeInv == Typed /\ Timed /\ \A p \in Sessions : Numbered(p) /\ Timely(p)

LEMMA TimeInitially == Init => TimeInv
  <1> SUFFICES ASSUME Init PROVE TimeInv
    OBVIOUS
  <1>1. Typed
    BY Initially DEF IInv
  <1>2. Timed
    BY SignInAssumption DEF Init, Timed
  <1>3. ASSUME NEW p \in Sessions PROVE Numbered(p) /\ Timely(p)
    <2>1. me[p].pc = "idle" /\ me[p].clash = None
      BY DEF Init, Fresh
    <2>2. \A n \in Nat : None # <<p, n>>
      BY SignInAssumption
    <2>3. \A t \in DOMAIN accepted : accepted[t] = None
      BY DEF Init
    <2> QED
      BY <2>1, <2>2, <2>3 DEF Numbered, Timely
  <1> QED
    BY <1>1, <1>2, <1>3 DEF TimeInv

\* A session that does not move, while the clock does and others' requests are taken.
LEMMA LeftAlone ==
  ASSUME TimeInv, NEW q \in Sessions, me'[q] = me[q], ran'[q] = ran[q],
         clock' \in Nat, clock <= clock', DOMAIN accepted' = DOMAIN accepted,
         \A t \in DOMAIN accepted, n \in Nat :
            accepted'[t] = <<q, n>> => accepted[t] = <<q, n>>
  PROVE  Numbered(q)' /\ Timely(q)'
  <1>1. ran[q] \in Nat /\ clock \in Nat /\ Numbered(q) /\ Timely(q)
    BY SignInAssumption DEF TimeInv, Timed
  <1>2. Numbered(q)'
    BY <1>1 DEF Numbered
  <1>3. \A t \in DOMAIN accepted : Taken(q, t)' => Taken(q, t)
    BY <1>1 DEF Taken
  <1>4. Timely(q)'
    BY <1>1, <1>3 DEF Timely
  <1> QED
    BY <1>2, <1>4

\* A step of p's that neither reaches nor leaves an exchange's tries, and one that
\* begins a command.
Aside(p) ==
  /\ Alone(p)
  /\ me'[p].pc \notin {"platform", "exchange"}
  /\ me'[p].clash \in {me[p].clash, None}

LEMMA AsideKeeps ==
  ASSUME TimeInv, NEW p \in Sessions, Aside(p), Typed',
         UNCHANGED <<accepted, clock>>,
         ran' = ran \/ ran' = [ran EXCEPT ![p] = @ + 1]
  PROVE  TimeInv'
  <1>1. Timed' /\ ran[p] <= ran'[p] /\ \A q \in Sessions : q # p => ran'[q] = ran[q]
    BY DEF TimeInv, Timed
  <1>2. ASSUME NEW q \in Sessions, q # p PROVE Numbered(q)' /\ Timely(q)'
    <2>1. me'[q] = me[q] /\ ran'[q] = ran[q] /\ clock' \in Nat /\ clock <= clock'
      BY <1>1, <1>2, SignInAssumption DEF Aside, Alone, TimeInv, Timed
    <2> QED
      BY <2>1, LeftAlone
  <1>3. Timely(p)'
    BY DEF Timely, Aside
  <1>4. Numbered(p)'
    <2>1. \A n \in Nat : None # <<p, n>>
      BY SignInAssumption
    <2>2. ran[p] \in Nat /\ ran'[p] \in Nat /\ Numbered(p)
      BY <1>1 DEF TimeInv, Timed
    <2> SUFFICES ASSUME NEW n \in Nat
                 PROVE  /\ \A t \in DOMAIN accepted : accepted[t] = <<p, n>> => n <= ran'[p]
                        /\ me'[p].clash = <<p, n>> => n < ran'[p]
      BY DEF Numbered
    <2>3. ASSUME NEW t \in DOMAIN accepted, accepted[t] = <<p, n>> PROVE n <= ran'[p]
      <3>1. n <= ran[p]
        BY <2>2, <2>3 DEF Numbered
      <3> QED
        BY <1>1, <2>2, <3>1
    <2>4. ASSUME me'[p].clash = <<p, n>> PROVE n < ran'[p]
      <3>1. me[p].clash = <<p, n>>
        BY <2>1, <2>4 DEF Aside
      <3>2. n < ran[p]
        BY <2>2, <3>1 DEF Numbered
      <3> QED
        BY <1>1, <2>2, <3>2
    <2> QED
      BY <2>3, <2>4
  <1> QED
    BY <1>1, <1>2, <1>3, <1>4 DEF TimeInv

LEMMA SetAside ==
  ASSUME Typed, NEW p \in Sessions, NEW r, Set(p, r), DOMAIN r = DOMAIN Fresh,
         r.pc \notin {"platform", "exchange"}, r.clash \in {me[p].clash, None}
  PROVE  Aside(p)
  BY SetFields DEF Aside

LEMMA EndsAside == ASSUME Typed, NEW p \in Sessions, Ends(p) PROVE Aside(p)
  <1> DEFINE r == [Fresh EXCEPT !.clash = me[p].clash]
  <1>1. DOMAIN r = DOMAIN Fresh /\ r.pc = "idle" /\ r.clash = me[p].clash
    BY DEF Fresh
  <1>2. Set(p, r)
    BY DEF Ends
  <1> HIDE DEF r
  <1> QED
    BY <1>1, <1>2, SetAside

LEMMA UnansweredAside ==
  ASSUME Typed, NEW p \in Sessions, NEW fate, Unanswered(p, fate),
         me[p].pc \notin {"platform", "exchange"}
  PROVE  Aside(p)
  <1>1. CASE Ends(p)
    BY <1>1, EndsAside
  <1>2. CASE Again(p)
    <2> DEFINE r == [me[p] EXCEPT !.again = TRUE]
    <2>1. DOMAIN r = DOMAIN Fresh /\ r.pc = me[p].pc /\ r.clash = me[p].clash
      BY FreshFields DEF Typed
    <2>2. Set(p, r)
      BY <1>2 DEF Again
    <2> HIDE DEF r
    <2> QED
      BY <2>1, <2>2, SetAside
  <1> QED
    BY <1>1, <1>2 DEF Unanswered

LEMMA WaitsAside == ASSUME Typed, NEW p \in Sessions, NEW i, Waits(p, i) PROVE Aside(p)
  <1>1. CASE Ends(p)
    BY <1>1, EndsAside
  <1>2. CASE ~Ends(p)
    <2> DEFINE r == [me[p] EXCEPT !.pc = "wait", !.interval = i]
    <2>1. DOMAIN r = DOMAIN Fresh /\ r.pc = "wait" /\ r.clash = me[p].clash
      BY FreshFields DEF Typed
    <2>2. Set(p, r)
      BY <1>2 DEF Waits
    <2> HIDE DEF r
    <2> QED
      BY <2>1, <2>2, SetAside
  <1> QED
    BY <1>1, <1>2

\* The steps that never sign anything.
LEMMA SigningInAside ==
  ASSUME Typed, NEW p \in Sessions,
         DeviceStart(p) \/ Sleep(p) \/ Poll(p) \/ SlowDown(p)
  PROVE  Aside(p)
  <1>1. CASE DeviceStart(p)
    <2>1. PICK c \in Codes, fate \in Fates :
            IF fate = "answered"
            THEN \E i \in Intervals, l \in Lifetimes :
                   Set(p, [me[p] EXCEPT !.pc = "wait", !.code = c, !.again = FALSE,
                                        !.interval = Clamp(i), !.left = l])
            ELSE Unanswered(p, fate)
      BY <1>1 DEF DeviceStart
    <2>2. CASE fate = "answered"
      <3>1. PICK i \in Intervals, l \in Lifetimes :
              Set(p, [me[p] EXCEPT !.pc = "wait", !.code = c, !.again = FALSE,
                                   !.interval = Clamp(i), !.left = l])
        BY <2>1, <2>2
      <3> DEFINE r == [me[p] EXCEPT !.pc = "wait", !.code = c, !.again = FALSE,
                                    !.interval = Clamp(i), !.left = l]
      <3>2. DOMAIN r = DOMAIN Fresh /\ r.pc = "wait" /\ r.clash = me[p].clash
        BY FreshFields DEF Typed
      <3>3. Set(p, r)
        BY <3>1
      <3> HIDE DEF r
      <3> QED
        BY <3>2, <3>3, SetAside
    <2>3. CASE fate # "answered"
      BY <1>1, <2>1, <2>3, UnansweredAside DEF DeviceStart, At
    <2> QED
      BY <2>2, <2>3
  <1>2. CASE Sleep(p)
    <2> DEFINE r == [me[p] EXCEPT !.pc = "poll", !.again = FALSE,
                       !.left = IF @ > me[p].interval THEN @ - me[p].interval ELSE 0]
    <2>1. DOMAIN r = DOMAIN Fresh /\ r.pc = "poll" /\ r.clash = me[p].clash
      BY FreshFields DEF Typed
    <2>2. Set(p, r)
      BY <1>2 DEF Sleep
    <2> HIDE DEF r
    <2> QED
      BY <2>1, <2>2, SetAside
  <1>3. CASE Poll(p)
    <2> DEFINE r == [me[p] EXCEPT !.pc = "granted"]
    <2>1. PICK fate \in Fates :
            \/ Set(p, r) \/ Unanswered(p, fate) \/ Waits(p, me[p].interval) \/ Ends(p)
      BY <1>3 DEF Poll
    <2>2. DOMAIN r = DOMAIN Fresh /\ r.pc = "granted" /\ r.clash = me[p].clash
      BY FreshFields DEF Typed
    <2>3. me[p].pc = "poll"
      BY <1>3 DEF Poll, At
    <2> HIDE DEF r
    <2> QED
      BY <2>1, <2>2, <2>3, SetAside, UnansweredAside, WaitsAside, EndsAside
  <1>4. CASE SlowDown(p)
    BY <1>4, WaitsAside DEF SlowDown
  <1> QED
    BY <1>1, <1>2, <1>3, <1>4

LEMMA OthersAside ==
  ASSUME Typed, NEW p \in Sessions,
         \/ DeviceStartFails(p) \/ Keep(p) \/ KeepFails(p)
         \/ Revoke(p) \/ Forget(p) \/ ForgetFails(p)
         \/ Ask(p) \/ Look(p) \/ Redeem(p) \/ Read(p) \/ Offline(p) \/ Crash(p)
  PROVE  Aside(p)
  <1>1. CASE Ends(p)
    BY <1>1, EndsAside
  <1>2. CASE Revoke(p) \/ Look(p)
    <2> DEFINE r == [me[p] EXCEPT !.pc = "forget"]
               s == [me[p] EXCEPT !.pc = "spend", !.again = FALSE]
               u == [me[p] EXCEPT !.again = TRUE]
    <2>1. /\ DOMAIN r = DOMAIN Fresh /\ r.pc = "forget" /\ r.clash = me[p].clash
          /\ DOMAIN s = DOMAIN Fresh /\ s.pc = "spend" /\ s.clash = me[p].clash
          /\ DOMAIN u = DOMAIN Fresh /\ u.pc = me[p].pc /\ u.clash = me[p].clash
      BY FreshFields DEF Typed
    <2>2. me[p].pc \in {"revoke", "look"}
      BY <1>2 DEF Revoke, Look, At
    <2>3. Set(p, r) \/ Set(p, s) \/ Set(p, u) \/ Ends(p)
      BY <1>2 DEF Revoke, Look, Again
    <2> HIDE DEF r, s, u
    <2> QED
      BY <2>1, <2>2, <2>3, SetAside, EndsAside
  <1>3. CASE Ask(p) \/ Redeem(p)
    <2>1. Ends(p) \/ \E fate \in Fates : Unanswered(p, fate)
      BY <1>3 DEF Ask, Redeem, Fates
    <2>2. me[p].pc \in {"ask", "spend"}
      BY <1>3 DEF Ask, Redeem, At
    <2> QED
      BY <2>1, <2>2, EndsAside, UnansweredAside
  <1> QED
    BY <1>1, <1>2, <1>3 DEF DeviceStartFails, Keep, KeepFails, Forget, ForgetFails, Read, Offline, Crash

LEMMA SignsInOrOut ==
  ASSUME TimeInv, NEW p \in Sessions, Login(p) \/ Logout(p)
  PROVE  Aside(p)
  <1> DEFINE r == [Fresh EXCEPT !.pc = "start"]
             s == [Fresh EXCEPT !.pc = "forget"]
             u == [Fresh EXCEPT !.pc = "revoke", !.code = item]
  <1>1. /\ DOMAIN r = DOMAIN Fresh /\ r.pc = "start" /\ r.clash = None
        /\ DOMAIN s = DOMAIN Fresh /\ s.pc = "forget" /\ s.clash = None
        /\ DOMAIN u = DOMAIN Fresh /\ u.pc = "revoke" /\ u.clash = None
    BY DEF Fresh
  <1>2. Set(p, r) \/ Set(p, s) \/ Set(p, u) \/ Ends(p)
    BY DEF Login, Logout
  <1> HIDE DEF r, s, u
  <1> QED
    BY <1>1, <1>2, SetAside, EndsAside DEF TimeInv

-----------------------------------------------------------------------------
(* The steps that sign, or are about to.                                   *)

LEMMA RevealTimes ==
  ASSUME TimeInv, Typed', NEW p \in Sessions, Reveal(p) PROVE TimeInv'
  <1>1. UNCHANGED <<accepted, clock>> /\ ran' = [ran EXCEPT ![p] = @ + 1]
    BY DEF Reveal, Opens, server
  <1>2. CASE Aside(p)
    BY <1>1, <1>2, AsideKeeps
  <1>3. CASE ~Aside(p)
    <2> DEFINE kind == Credential(env[p])
    <2>1. PICK key \in Keys, id \in {None} \cup {r \in Approvals : approval[r].state # "free"} :
            \/ Ends(p)
            \/ Set(p, [[Fresh EXCEPT !.key = key, !.id = id, !.opened = clock]
                         EXCEPT !.pc = Asks(env[p], id)])
            \/ Set(p, [[Fresh EXCEPT !.key = key, !.id = id, !.opened = clock]
                         EXCEPT !.code = None, !.began = clock,
                                !.pc = IF AsksPlatform(kind) THEN "platform" ELSE "exchange"])
      BY DEF Reveal
    <2> DEFINE r == [[Fresh EXCEPT !.key = key, !.id = id, !.opened = clock]
                       EXCEPT !.pc = Asks(env[p], id)]
               s == [[Fresh EXCEPT !.key = key, !.id = id, !.opened = clock]
                       EXCEPT !.code = None, !.began = clock,
                              !.pc = IF AsksPlatform(kind) THEN "platform" ELSE "exchange"]
    <2>2. DOMAIN r = DOMAIN Fresh /\ r.pc = Asks(env[p], id) /\ r.clash = None
      BY DEF Fresh
    <2>3. /\ DOMAIN s = DOMAIN Fresh /\ s.pc \in {"platform", "exchange"} /\ s.clash = None
          /\ s.last = None /\ s.tries = 0 /\ s.opened = clock /\ s.began = clock
      BY DEF Fresh
    <2>4. Ends(p) \/ Set(p, r) \/ Set(p, s)
      BY <2>1
    <2> HIDE DEF r, s
    <2>5. Set(p, s)
      BY <1>3, <2>2, <2>4, AsksSomewhere, EndsAside, SetAside DEF TimeInv
    <2>6. me'[p] = s /\ Alone(p)
      BY <2>3, <2>5, SetFields DEF TimeInv
    <2>7. /\ Timed' /\ ran'[p] = ran[p] + 1 /\ ran[p] \in Nat /\ clock \in Nat
          /\ \A q \in Sessions : q # p => ran'[q] = ran[q]
      BY <1>1, SignInAssumption DEF TimeInv, Timed
    <2>8. ASSUME NEW q \in Sessions, q # p PROVE Numbered(q)' /\ Timely(q)'
      BY <1>1, <2>6, <2>7, <2>8, LeftAlone DEF Alone
    <2>9. Numbered(p)'
      <3>1. \A n \in Nat : None # <<p, n>>
        BY SignInAssumption
      <3>2. Numbered(p)
        BY DEF TimeInv
      <3> QED
        BY <1>1, <2>3, <2>6, <2>7, <3>1, <3>2 DEF Numbered
    <2>10. \A t \in DOMAIN accepted : ~Taken(p, t)'
      <3>1. Numbered(p)
        BY DEF TimeInv
      <3> QED
        BY <1>1, <2>7, <3>1 DEF Numbered, Taken
    <2>11. Timely(p)'
      BY <1>1, <2>3, <2>6, <2>7, <2>10, SignInAssumption DEF Timely
    <2> QED
      BY <2>7, <2>8, <2>9, <2>11 DEF TimeInv
  <1> QED
    BY <1>2, <1>3

LEMMA PlatformTimes ==
  ASSUME TimeInv, Typed', NEW p \in Sessions, Platform(p) PROVE TimeInv'
  <1>1. UNCHANGED <<accepted, clock, ran>> /\ me[p].pc = "platform"
    BY DEF Platform, At, server
  <1>2. CASE Ends(p)
    BY <1>1, <1>2, EndsAside, AsideKeeps DEF TimeInv
  <1>3. CASE ~Ends(p)
    <2> DEFINE r == [me[p] EXCEPT !.pc = "exchange", !.began = clock]
    <2>1. /\ DOMAIN r = DOMAIN Fresh /\ r.pc = "exchange" /\ r.began = clock
          /\ r.clash = me[p].clash /\ r.last = me[p].last /\ r.tries = me[p].tries
          /\ r.opened = me[p].opened
      BY FreshFields DEF TimeInv, Typed
    <2>2. Set(p, r)
      BY <1>3 DEF Platform
    <2> HIDE DEF r
    <2>3. me'[p] = r /\ Alone(p)
      BY <2>1, <2>2, SetFields DEF TimeInv
    <2>4. Timed' /\ clock \in Nat
      BY <1>1, SignInAssumption DEF TimeInv, Timed
    <2>5. ASSUME NEW q \in Sessions, q # p PROVE Numbered(q)' /\ Timely(q)'
      BY <1>1, <2>3, <2>4, <2>5, LeftAlone DEF Alone
    <2>6. Numbered(p)'
      BY <1>1, <2>1, <2>3 DEF TimeInv, Numbered
    <2>7. /\ me[p].last = None /\ me[p].tries = 0 /\ me[p].opened \in 0..clock
          /\ \A t \in DOMAIN accepted : ~Taken(p, t)
      BY <1>1 DEF TimeInv, Timely
    <2>8. \A t \in DOMAIN accepted' : ~Taken(p, t)'
      BY <1>1, <2>7 DEF Taken
    <2>9. Timely(p)'
      BY <1>1, <2>1, <2>3, <2>4, <2>7, <2>8, SignInAssumption DEF Timely
    <2> QED
      BY <2>4, <2>5, <2>6, <2>9 DEF TimeInv
  <1> QED
    BY <1>2, <1>3

\* The second a try is signed for: one the server knows, and later than the last.
LEMMA InstantGrows ==
  ASSUME TimeInv, NEW p \in Sessions, me[p].pc = "exchange"
  PROVE  /\ Instant(me[p]) \in DOMAIN accepted /\ Instant(me[p]) # None
         /\ Instant(me[p]) \in Nat /\ Instant(me[p]) <= MaxClock + me[p].tries
         /\ \A t \in DOMAIN accepted : Taken(p, t) => t < Instant(me[p])
  <1> DEFINE m == me[p]
             elapsed == m.opened + (clock - m.began)
  <1>1. /\ m.tries \in 0..MaxTries /\ clock \in 0..MaxClock
        /\ m.began \in 0..clock /\ m.opened \in 0..m.began
        /\ m.last = None \/ (m.last \in Nat /\ m.last < MaxClock + m.tries)
        /\ \A t \in DOMAIN accepted : Taken(p, t) => m.last # None /\ t <= m.last
        /\ DOMAIN accepted = 0..(MaxClock + MaxTries)
    BY DEF TimeInv, Timely, Timed
  <1>2. Instant(m) = IF m.last = None \/ elapsed > m.last THEN elapsed ELSE m.last + 1
    BY DEF Instant
  <1> HIDE DEF m
  <1>3. elapsed \in Nat /\ elapsed <= MaxClock
    BY <1>1, SignInAssumption
  <1> HIDE DEF elapsed
  <1>4. MaxTries \in Nat /\ MaxClock \in Nat /\ None \notin Nat
    BY SignInAssumption
  <1>5. /\ Instant(m) \in Nat /\ Instant(m) <= MaxClock + m.tries
        /\ m.last # None => m.last < Instant(m)
    BY <1>1, <1>2, <1>3, <1>4
  <1>6. Instant(m) \in DOMAIN accepted /\ Instant(m) # None
    BY <1>1, <1>4, <1>5
  <1>7. \A t \in DOMAIN accepted : Taken(p, t) => t < Instant(m)
    BY <1>1, <1>4, <1>5
  <1> QED
    BY <1>5, <1>6, <1>7 DEF m

LEMMA RetriesEnd ==
  ASSUME NEW answer PROVE Retries(answer) \in Nat /\ Retries(answer) <= MaxTries
  BY SignInAssumption DEF Retries

LEMMA ExchangeTimes ==
  ASSUME TimeInv, Typed', NEW p \in Sessions, Exchange(p) PROVE TimeInv'
  <1> DEFINE m == me[p]
             at == Instant(m)
             goes == [m EXCEPT !.pc = Asks(env[p], m.id), !.again = FALSE]
             tried == [m EXCEPT !.last = at, !.tries = @ + 1, !.until = Later(clock, 2 ^ m.tries)]
             clashed == [Fresh EXCEPT !.clash = accepted[at]]
  <1>1. /\ m.pc = "exchange" /\ UNCHANGED <<clock, ran>>
        /\ ran[p] \in Nat /\ clock \in Nat /\ clock \in 0..MaxClock
        /\ Numbered(p) /\ Timely(p)
    BY SignInAssumption DEF Exchange, At, TimeInv, Timed
  <1>2. /\ at \in DOMAIN accepted /\ at # None /\ at \in Nat /\ at <= MaxClock + m.tries
        /\ \A t \in DOMAIN accepted : Taken(p, t) => t < at
    BY <1>1, InstantGrows
  <1>3. \/ UNCHANGED accepted /\ Set(p, clashed)
        \/ /\ accepted' = accepted \/ accepted' = [accepted EXCEPT ![at] = <<p, ran[p]>>]
           /\ Set(p, goes) \/ (Set(p, tried) /\ m.tries < MaxTries) \/ Ends(p)
    <2>1. CASE UNCHANGED accepted /\ Set(p, clashed)
      BY <2>1
    <2>2. CASE ~(UNCHANGED accepted /\ Set(p, clashed))
      <3>1. PICK answer \in {"granted", "unavailable", "error", "refused"} :
              /\ accepted' = accepted \/ accepted' = [accepted EXCEPT ![at] = <<p, ran[p]>>]
              /\ Set(p, goes) \/ (Set(p, tried) /\ m.tries < Retries(answer)) \/ Ends(p)
        BY <2>2, Zenon DEF Exchange
      <3> HIDE DEF m, at, goes, tried
      <3>2. m.tries \in Nat
        BY <1>1, SignInAssumption DEF Timely, m
      <3>3. m.tries < Retries(answer) => m.tries < MaxTries
        BY <3>2, RetriesEnd, SignInAssumption
      <3> QED
        BY <3>1, <3>3
    <2> QED
      BY <2>1, <2>2
  <1>4. DOMAIN goes = DOMAIN Fresh /\ goes.pc = Asks(env[p], m.id) /\ goes.clash = m.clash
    BY FreshFields DEF TimeInv, Typed
  <1>5. /\ DOMAIN tried = DOMAIN Fresh /\ tried.pc = "exchange" /\ tried.clash = m.clash
        /\ tried.last = at /\ tried.tries = m.tries + 1
        /\ tried.opened = m.opened /\ tried.began = m.began
    BY <1>1, FreshFields DEF TimeInv, Typed
  <1>6. DOMAIN clashed = DOMAIN Fresh /\ clashed.pc = "idle" /\ clashed.clash = accepted[at]
    BY DEF Fresh
  <1> HIDE DEF goes, tried, clashed, at, m
  <1>7. /\ DOMAIN accepted' = DOMAIN accepted
        /\ \A t \in DOMAIN accepted : t # at => accepted'[t] = accepted[t]
        /\ accepted'[at] \in {accepted[at], <<p, ran[p]>>}
    BY <1>2, <1>3
  <1>8. Timed' /\ Alone(p)
    <2>1. Alone(p)
      BY <1>3, <1>4, <1>5, <1>6, SetFields, EndsFields DEF TimeInv
    <2> QED
      BY <1>1, <1>7, <2>1 DEF TimeInv, Timed
  <1>9. ASSUME NEW q \in Sessions, q # p PROVE Numbered(q)' /\ Timely(q)'
    <2>1. \A n \in Nat : <<q, n>> # <<p, ran[p]>>
      BY <1>9
    <2>2. \A t \in DOMAIN accepted, n \in Nat :
            accepted'[t] = <<q, n>> => accepted[t] = <<q, n>>
      BY <1>7, <2>1
    <2>3. me'[q] = me[q] /\ ran'[q] = ran[q] /\ clock' \in Nat /\ clock <= clock'
      BY <1>1, <1>8, <1>9 DEF Alone
    <2> QED
      BY <1>7, <2>2, <2>3, LeftAlone
  <1>10. \A t \in DOMAIN accepted, n \in Nat : accepted'[t] = <<p, n>> => n <= ran[p]
    BY <1>1, <1>7 DEF Numbered
  <1>11. CASE Set(p, clashed) /\ UNCHANGED accepted
    <2>1. me'[p] = clashed
      BY <1>6, <1>11, SetFields DEF TimeInv
    <2>2. ~Taken(p, at)
      BY <1>2
    <2>3. \A n \in Nat : me'[p].clash = <<p, n>> => n < ran[p]
      <3> SUFFICES ASSUME NEW n \in Nat, accepted[at] = <<p, n>> PROVE n < ran[p]
        BY <1>6, <2>1
      <3>1. n <= ran[p]
        BY <1>1, <1>2 DEF Numbered
      <3>2. n # ran[p]
        BY <2>2 DEF Taken
      <3> QED
        BY <1>1, <3>1, <3>2
    <2>4. Numbered(p)'
      BY <1>1, <1>7, <1>10, <2>3 DEF Numbered
    <2>5. Timely(p)'
      BY <1>6, <2>1 DEF Timely
    <2> QED
      BY <1>8, <1>9, <2>4, <2>5 DEF TimeInv
  <1>12. CASE ~(Set(p, clashed) /\ UNCHANGED accepted)
    <2>1. CASE Set(p, goes) \/ Ends(p)
      <3>1. Aside(p)
        BY <1>4, <2>1, AsksSomewhere, SetAside, EndsAside DEF TimeInv, m
      <3>2. Timely(p)'
        BY <3>1 DEF Aside, Timely
      <3>3. \A n \in Nat : None # <<p, n>>
        BY SignInAssumption
      <3>4. Numbered(p)'
        BY <1>1, <1>7, <1>10, <3>1, <3>3 DEF Aside, Numbered
      <3> QED
        BY <1>8, <1>9, <3>2, <3>4 DEF TimeInv
    <2>2. CASE Set(p, tried) /\ m.tries < MaxTries
      <3>1. me'[p] = tried
        BY <1>5, <2>2, SetFields DEF TimeInv
      <3>2. Numbered(p)'
        BY <1>1, <1>5, <1>7, <1>10, <3>1 DEF Numbered, m
      <3>3. \A t \in DOMAIN accepted' : Taken(p, t)' => t <= at
        <4> SUFFICES ASSUME NEW t \in DOMAIN accepted, Taken(p, t)', t # at PROVE t <= at
          BY <1>2, <1>7
        <4>1. Taken(p, t)
          BY <1>1, <1>7 DEF Taken
        <4>2. t \in Nat
          BY SignInAssumption DEF TimeInv, Timed
        <4> QED
          BY <1>2, <4>1, <4>2
      <3>4. /\ m.tries \in 0..MaxTries /\ m.began \in 0..clock /\ m.opened \in 0..m.began
        BY <1>1 DEF Timely, m
      <3>5. tried.tries \in 0..MaxTries /\ at < MaxClock + tried.tries
        BY <1>2, <1>5, <2>2, <3>4, SignInAssumption
      <3>6. Timely(p)'
        BY <1>1, <1>2, <1>5, <3>1, <3>3, <3>4, <3>5 DEF Timely
      <3> QED
        BY <1>8, <1>9, <3>2, <3>6 DEF TimeInv
    <2> QED
      BY <1>3, <1>12, <2>1, <2>2
  <1> QED
    BY <1>11, <1>12

LEMMA TimeSteps == IInv /\ TimeInv /\ [Next]_vars => TimeInv'
  <1> SUFFICES ASSUME IInv, TimeInv, [Next]_vars PROVE TimeInv'
    OBVIOUS
  <1>1. Typed' /\ Typed
    BY Steps DEF IInv
  <1>2. ASSUME NEW p \in Sessions, Reveal(p) \/ Platform(p) \/ Exchange(p) PROVE TimeInv'
    BY <1>1, <1>2, RevealTimes, PlatformTimes, ExchangeTimes
  <1>3. ASSUME NEW p \in Sessions, Login(p) \/ Logout(p) PROVE TimeInv'
    <2>1. UNCHANGED <<accepted, clock>> /\ ran' = [ran EXCEPT ![p] = @ + 1]
      BY <1>3 DEF Login, Logout, Opens, server
    <2> QED
      BY <1>1, <1>3, <2>1, SignsInOrOut, AsideKeeps
  <1>4. ASSUME NEW p \in Sessions, DeviceStart(p) \/ Sleep(p) \/ Poll(p) \/ SlowDown(p)
        PROVE  TimeInv'
    <2>1. UNCHANGED <<accepted, clock, ran>>
      BY <1>4 DEF DeviceStart, Sleep, Poll, SlowDown, server
    <2> QED
      BY <1>1, <1>4, <2>1, SigningInAside, AsideKeeps
  <1>5. ASSUME NEW p \in Sessions,
               \/ DeviceStartFails(p) \/ Keep(p) \/ KeepFails(p)
               \/ Revoke(p) \/ Forget(p) \/ ForgetFails(p)
               \/ Ask(p) \/ Look(p) \/ Redeem(p) \/ Read(p) \/ Offline(p) \/ Crash(p)
        PROVE  TimeInv'
    <2>1. UNCHANGED <<accepted, clock, ran>>
      BY <1>5 DEF DeviceStartFails, Keep, KeepFails, Revoke, Forget, ForgetFails, Ask, Look,
                  Redeem, Read, Offline, Crash, server
    <2> QED
      BY <1>1, <1>5, <2>1, OthersAside, AsideKeeps
  <1>6. CASE DecideCode \/ DecideApproval \/ Tick \/ UNCHANGED vars
    <2>1. /\ UNCHANGED <<me, ran, accepted>>
          /\ clock' = clock \/ (clock < MaxClock /\ clock' = clock + 1)
      BY <1>6 DEF DecideCode, DecideApproval, Tick, vars, server
    <2>2. Timed' /\ clock' \in Nat /\ clock <= clock'
      BY <2>1, SignInAssumption DEF TimeInv, Timed
    <2>3. ASSUME NEW q \in Sessions PROVE Numbered(q)' /\ Timely(q)'
      BY <2>1, <2>2, LeftAlone
    <2> QED
      BY <1>1, <2>2, <2>3 DEF TimeInv
  <1> QED
    BY <1>2, <1>3, <1>4, <1>5, <1>6 DEF Next, Proceed

\* No try of an exchange is refused because an earlier try of the same command was
\* taken for the same second (exchange.rs, api.rs).
THEOREM Differing == Spec => []TriesDiffer
  <1>1. TimeInv => TriesDiffer
    <2> SUFFICES ASSUME TimeInv, NEW p \in Sessions, me[p].clash = <<p, ran[p]>> PROVE FALSE
      BY DEF TriesDiffer
    <2>1. ran[p] \in Nat /\ Numbered(p)
      BY DEF TimeInv, Timed
    <2> QED
      BY <2>1 DEF Numbered
  <1> QED
    BY <1>1, TimeInitially, TimeSteps, Invariance, PTL DEF Spec

-----------------------------------------------------------------------------
(* Types.                                                                  *)

\* A command holds names of what there is, and a key where it is after one.
Holding(m) ==
  /\ m.pc \in Pcs /\ DOMAIN m = DOMAIN Fresh
  /\ m.code \in Codes \cup {None}
  /\ m.key \in Keys \cup {None} /\ m.id \in Approvals \cup {None}
  /\ m.pc \in {"platform", "exchange", "ask", "look", "spend", "read"} => m.key \in Keys

Requests == [key : Keys \cup {None}, by : Sessions \cup {None},
             state : {"free", "pending", "approved", "denied", "expired", "redeemed"}]

TInv ==
  /\ env \in Environments /\ usable \in BOOLEAN
  /\ approval \in [Approvals -> Requests]
  /\ accepted \in [0..(MaxClock + MaxTries) -> (Sessions \X Nat) \cup {None}]
  /\ \A p \in Sessions : Holding(me[p])
  /\ ran \in [Sessions -> 0..MaxCommands]
  /\ \A r \in Approvals : printed[r] \in Seq(Keys)
  /\ spent \in [Approvals -> SUBSET Keys]

LEMMA EndsHolding == ASSUME Typed, NEW p \in Sessions, Ends(p) PROVE Holding(me'[p])
  <1> DEFINE r == [Fresh EXCEPT !.clash = me[p].clash]
  <1>1. /\ DOMAIN r = DOMAIN Fresh /\ r.pc = "idle"
        /\ r.code = None /\ r.key = None /\ r.id = None
    BY DEF Fresh
  <1>2. Set(p, r)
    BY DEF Ends
  <1> HIDE DEF r
  <1>3. me'[p] = r
    BY <1>1, <1>2, SetFields
  <1> QED
    BY <1>1, <1>3 DEF Holding, Pcs

\* A command that goes on keeps its names.
LEMMA SetHolding ==
  ASSUME Typed, NEW p \in Sessions, NEW r, Set(p, r), DOMAIN r = DOMAIN Fresh,
         Holding(me[p]), r.pc \in Pcs, r.key = me[p].key, r.id = me[p].id,
         r.code \in Codes \/ r.code = me[p].code,
         r.pc \in {"platform", "exchange", "ask", "look", "spend", "read"} =>
           me[p].pc \in {"platform", "exchange", "ask", "look", "spend", "read"}
  PROVE  Holding(me'[p])
  <1>1. me'[p] = r
    BY SetFields
  <1> QED
    BY <1>1 DEF Holding

LEMMA UnansweredHolding ==
  ASSUME Typed, NEW p \in Sessions, NEW fate, Unanswered(p, fate), Holding(me[p])
  PROVE  Holding(me'[p])
  <1>1. CASE Ends(p)
    BY <1>1, EndsHolding
  <1>2. CASE Again(p)
    <2> DEFINE r == [me[p] EXCEPT !.again = TRUE]
    <2>1. /\ DOMAIN r = DOMAIN Fresh /\ r.pc = me[p].pc
          /\ r.code = me[p].code /\ r.id = me[p].id /\ r.key = me[p].key
      BY FreshFields DEF Typed
    <2>2. Set(p, r)
      BY <1>2 DEF Again
    <2> HIDE DEF r
    <2> QED
      BY <2>1, <2>2, SetHolding DEF Holding
  <1> QED
    BY <1>1, <1>2 DEF Unanswered

LEMMA WaitsHolding ==
  ASSUME Typed, NEW p \in Sessions, NEW i, Waits(p, i), Holding(me[p])
  PROVE  Holding(me'[p])
  <1>1. CASE Ends(p)
    BY <1>1, EndsHolding
  <1>2. CASE ~Ends(p)
    <2> DEFINE r == [me[p] EXCEPT !.pc = "wait", !.interval = i]
    <2>1. /\ DOMAIN r = DOMAIN Fresh /\ r.pc = "wait"
          /\ r.code = me[p].code /\ r.id = me[p].id /\ r.key = me[p].key
      BY FreshFields DEF Typed
    <2>2. Set(p, r)
      BY <1>2 DEF Waits
    <2> HIDE DEF r
    <2> QED
      BY <2>1, <2>2, SetHolding DEF Pcs
  <1> QED
    BY <1>1, <1>2

\* Signing in and out.
LEMMA LoginHolding ==
  ASSUME Typed, NEW p \in Sessions, Holding(me[p]),
         \/ Login(p) \/ DeviceStart(p) \/ DeviceStartFails(p) \/ Sleep(p) \/ Poll(p)
         \/ SlowDown(p) \/ Keep(p) \/ KeepFails(p)
  PROVE  Holding(me'[p])
  <1>1. CASE Ends(p)
    BY <1>1, EndsHolding
  <1>2. CASE \E fate : Unanswered(p, fate)
    BY <1>2, UnansweredHolding
  <1>3. CASE \E i : Waits(p, i)
    BY <1>3, WaitsHolding
  <1>4. CASE Login(p) /\ ~Ends(p)
    <2> DEFINE r == [Fresh EXCEPT !.pc = "start"]
    <2>1. /\ DOMAIN r = DOMAIN Fresh /\ r.pc = "start"
          /\ r.code = None /\ r.key = None /\ r.id = None
      BY DEF Fresh
    <2>2. Set(p, r)
      BY <1>4 DEF Login
    <2> HIDE DEF r
    <2>3. me'[p] = r
      BY <2>1, <2>2, SetFields
    <2> QED
      BY <2>1, <2>3 DEF Holding, Pcs
  <1>5. CASE DeviceStart(p) /\ ~\E fate : Unanswered(p, fate)
    <2>1. PICK c \in Codes, i \in Intervals, l \in Lifetimes :
            Set(p, [me[p] EXCEPT !.pc = "wait", !.code = c, !.again = FALSE,
                                 !.interval = Clamp(i), !.left = l])
      BY <1>5 DEF DeviceStart
    <2> DEFINE r == [me[p] EXCEPT !.pc = "wait", !.code = c, !.again = FALSE,
                                  !.interval = Clamp(i), !.left = l]
    <2>2. /\ DOMAIN r = DOMAIN Fresh /\ r.pc = "wait"
          /\ r.code = c /\ r.id = me[p].id /\ r.key = me[p].key
      BY FreshFields DEF Typed
    <2>3. Set(p, r)
      BY <2>1
    <2> HIDE DEF r
    <2> QED
      BY <2>2, <2>3, SetHolding DEF Pcs
  <1>6. CASE Sleep(p)
    <2> DEFINE r == [me[p] EXCEPT !.pc = "poll", !.again = FALSE,
                       !.left = IF @ > me[p].interval THEN @ - me[p].interval ELSE 0]
    <2>1. /\ DOMAIN r = DOMAIN Fresh /\ r.pc = "poll"
          /\ r.code = me[p].code /\ r.id = me[p].id /\ r.key = me[p].key
      BY FreshFields DEF Typed
    <2>2. Set(p, r)
      BY <1>6 DEF Sleep
    <2> HIDE DEF r
    <2> QED
      BY <2>1, <2>2, SetHolding DEF Pcs
  <1>7. CASE Poll(p) /\ ~Ends(p) /\ ~(\E fate : Unanswered(p, fate)) /\ ~\E i : Waits(p, i)
    <2> DEFINE r == [me[p] EXCEPT !.pc = "granted"]
    <2>1. /\ DOMAIN r = DOMAIN Fresh /\ r.pc = "granted"
          /\ r.code = me[p].code /\ r.id = me[p].id /\ r.key = me[p].key
      BY FreshFields DEF Typed
    <2>2. Set(p, r)
      BY <1>7 DEF Poll
    <2> HIDE DEF r
    <2> QED
      BY <2>1, <2>2, SetHolding DEF Pcs
  <1> QED
    BY <1>1, <1>2, <1>3, <1>4, <1>5, <1>6, <1>7
       DEF DeviceStartFails, SlowDown, Keep, KeepFails

LEMMA LogoutHolding ==
  ASSUME Typed, NEW p \in Sessions, Holding(me[p]),
         Logout(p) \/ Revoke(p) \/ Forget(p) \/ ForgetFails(p) \/ Crash(p)
  PROVE  Holding(me'[p])
  <1>1. CASE Ends(p)
    BY <1>1, EndsHolding
  <1>2. CASE Again(p)
    <2> DEFINE r == [me[p] EXCEPT !.again = TRUE]
    <2>2. /\ DOMAIN r = DOMAIN Fresh /\ r.pc = me[p].pc
          /\ r.code = me[p].code /\ r.id = me[p].id /\ r.key = me[p].key
      BY FreshFields DEF Typed
    <2>3. Set(p, r)
      BY <1>2 DEF Again
    <2> HIDE DEF r
    <2> QED
      BY <2>2, <2>3, SetHolding DEF Holding
  <1>3. CASE Logout(p)
    <2> DEFINE r == [Fresh EXCEPT !.pc = "forget"]
               s == [Fresh EXCEPT !.pc = "revoke", !.code = item]
    <2>1. /\ DOMAIN r = DOMAIN Fresh /\ r.pc = "forget"
          /\ r.code = None /\ r.key = None /\ r.id = None
      BY DEF Fresh
    <2>2. /\ DOMAIN s = DOMAIN Fresh /\ s.pc = "revoke"
          /\ s.code = item /\ s.key = None /\ s.id = None
      BY DEF Fresh
    <2>3. Set(p, r) \/ Set(p, s)
      BY <1>3 DEF Logout
    <2> HIDE DEF r, s
    <2>4. me'[p] = r \/ me'[p] = s
      BY <2>1, <2>2, <2>3, SetFields
    <2> QED
      BY <2>1, <2>2, <2>4 DEF Holding, Pcs, Typed
  <1>4. CASE Revoke(p) /\ ~Again(p)
    <2> DEFINE r == [me[p] EXCEPT !.pc = "forget"]
    <2>1. /\ DOMAIN r = DOMAIN Fresh /\ r.pc = "forget"
          /\ r.code = me[p].code /\ r.id = me[p].id /\ r.key = me[p].key
      BY FreshFields DEF Typed
    <2>2. Set(p, r)
      BY <1>4 DEF Revoke
    <2> HIDE DEF r
    <2> QED
      BY <2>1, <2>2, SetHolding DEF Pcs
  <1> QED
    BY <1>1, <1>2, <1>3, <1>4 DEF Forget, ForgetFails, Crash

\* A value on its way: what is asked for is named from the beginning.
LEMMA RevealHolding == ASSUME Typed, NEW p \in Sessions, Reveal(p) PROVE Holding(me'[p])
  <1>1. CASE Ends(p)
    BY <1>1, EndsHolding
  <1>2. CASE ~Ends(p)
    <2> DEFINE kind == Credential(env[p])
    <2>1. PICK key \in Keys, id \in {None} \cup {r \in Approvals : approval[r].state # "free"} :
            \/ Set(p, [[Fresh EXCEPT !.key = key, !.id = id, !.opened = clock]
                         EXCEPT !.pc = Asks(env[p], id)])
            \/ Set(p, [[Fresh EXCEPT !.key = key, !.id = id, !.opened = clock]
                         EXCEPT !.code = None, !.began = clock,
                                !.pc = IF AsksPlatform(kind) THEN "platform" ELSE "exchange"])
      BY <1>2 DEF Reveal
    <2> DEFINE r == [[Fresh EXCEPT !.key = key, !.id = id, !.opened = clock]
                       EXCEPT !.pc = Asks(env[p], id)]
               s == [[Fresh EXCEPT !.key = key, !.id = id, !.opened = clock]
                       EXCEPT !.code = None, !.began = clock,
                              !.pc = IF AsksPlatform(kind) THEN "platform" ELSE "exchange"]
    <2>2. /\ DOMAIN r = DOMAIN Fresh /\ r.pc = Asks(env[p], id)
          /\ r.id = id /\ r.key = key /\ r.code = None
      BY DEF Fresh
    <2>3. /\ DOMAIN s = DOMAIN Fresh /\ s.pc \in {"platform", "exchange"}
          /\ s.id = id /\ s.key = key /\ s.code = None
      BY DEF Fresh
    <2>4. Set(p, r) \/ Set(p, s)
      BY <2>1
    <2> HIDE DEF r, s
    <2>5. me'[p] = r \/ me'[p] = s
      BY <2>2, <2>3, <2>4, SetFields
    <2> QED
      BY <2>2, <2>3, <2>5, AsksSomewhere DEF Holding, Pcs
  <1> QED
    BY <1>1, <1>2

LEMMA ExchangeHolding ==
  ASSUME Typed, NEW p \in Sessions, Holding(me[p]), Exchange(p)
  PROVE  Holding(me'[p])
  <1> DEFINE m     == me[p]
             goes  == [m EXCEPT !.pc = Asks(env[p], m.id), !.again = FALSE]
             tried == [m EXCEPT !.last = Instant(m), !.tries = @ + 1,
                                !.until = Later(clock, 2 ^ m.tries)]
             fails == [Fresh EXCEPT !.clash = accepted[Instant(m)]]
  <1>1. m.pc = "exchange"
    BY DEF Exchange, At
  <1>2. Set(p, goes) \/ Set(p, tried) \/ Set(p, fails) \/ Ends(p)
    BY DEF Exchange
  <1>3. /\ DOMAIN goes = DOMAIN Fresh /\ goes.pc = Asks(env[p], m.id)
        /\ goes.code = m.code /\ goes.id = m.id /\ goes.key = m.key
    BY FreshFields DEF Typed
  <1>4. /\ DOMAIN tried = DOMAIN Fresh /\ tried.pc = "exchange"
        /\ tried.code = m.code /\ tried.id = m.id /\ tried.key = m.key
    BY <1>1, FreshFields DEF Typed
  <1>5. /\ DOMAIN fails = DOMAIN Fresh /\ fails.pc = "idle"
        /\ fails.code = None /\ fails.id = None /\ fails.key = None
    BY DEF Fresh
  <1> HIDE DEF goes, tried, fails
  <1>6. CASE Set(p, goes)
    BY <1>1, <1>3, <1>6, AsksSomewhere, SetHolding DEF Pcs
  <1>7. CASE Set(p, tried)
    BY <1>1, <1>4, <1>7, SetHolding DEF Pcs
  <1>8. CASE Set(p, fails)
    <2>1. me'[p] = fails
      BY <1>5, <1>8, SetFields
    <2> QED
      BY <1>5, <2>1 DEF Holding, Pcs
  <1> QED
    BY <1>2, <1>6, <1>7, <1>8, EndsHolding

LEMMA AskHolding ==
  ASSUME Typed, NEW p \in Sessions, Holding(me[p]),
         Platform(p) \/ Ask(p) \/ Look(p) \/ Redeem(p) \/ Read(p) \/ Offline(p)
  PROVE  Holding(me'[p])
  <1>1. CASE Ends(p)
    BY <1>1, EndsHolding
  <1>2. CASE \E fate : Unanswered(p, fate)
    BY <1>2, UnansweredHolding
  <1>3. CASE Platform(p) /\ ~Ends(p)
    <2> DEFINE r == [me[p] EXCEPT !.pc = "exchange", !.began = clock]
    <2>1. /\ DOMAIN r = DOMAIN Fresh /\ r.pc = "exchange"
          /\ r.code = me[p].code /\ r.id = me[p].id /\ r.key = me[p].key
      BY FreshFields DEF Typed
    <2>2. Set(p, r) /\ me[p].pc = "platform"
      BY <1>3 DEF Platform, At
    <2> HIDE DEF r
    <2> QED
      BY <2>1, <2>2, SetHolding DEF Pcs
  <1>4. CASE Look(p) /\ ~Ends(p)
    <2> DEFINE r == [me[p] EXCEPT !.pc = "spend", !.again = FALSE]
    <2>1. /\ DOMAIN r = DOMAIN Fresh /\ r.pc = "spend"
          /\ r.code = me[p].code /\ r.id = me[p].id /\ r.key = me[p].key
      BY FreshFields DEF Typed
    <2>2. Set(p, r) /\ me[p].pc = "look"
      BY <1>4 DEF Look, At
    <2> HIDE DEF r
    <2> QED
      BY <2>1, <2>2, SetHolding DEF Pcs
  <1> QED
    BY <1>1, <1>2, <1>3, <1>4 DEF Ask, Redeem, Read, Offline

\* Only p moves.
LEMMA StepAlone ==
  ASSUME Typed, NEW p \in Sessions, NEW q \in Sessions \ {p},
         Login(p) \/ Logout(p) \/ Reveal(p) \/ Proceed(p) \/ Crash(p)
  PROVE  me'[q] = me[q]
  <1>1. (\E r : Set(p, r)) => me'[q] = me[q]
    BY DEF Typed, Set
  <1>2. Ends(p) \/ Again(p) => \E r : Set(p, r)
    BY DEF Ends, Again
  <1>3. \A fate : Unanswered(p, fate) => \E r : Set(p, r)
    BY <1>2 DEF Unanswered
  <1>4. \A i : Waits(p, i) => \E r : Set(p, r)
    BY <1>2 DEF Waits
  <1>5. CASE Login(p) \/ Logout(p) \/ Crash(p)
    BY <1>1, <1>2, <1>5 DEF Login, Logout, Crash
  <1>6. CASE Reveal(p)
    BY <1>1, <1>2, <1>6 DEF Reveal
  <1>7. CASE DeviceStart(p) \/ DeviceStartFails(p) \/ Sleep(p) \/ Poll(p) \/ SlowDown(p)
             \/ Keep(p) \/ KeepFails(p)
    BY <1>1, <1>2, <1>3, <1>4, <1>7
       DEF DeviceStart, DeviceStartFails, Sleep, Poll, SlowDown, Keep, KeepFails
  <1>8. CASE Revoke(p) \/ Forget(p) \/ ForgetFails(p)
    BY <1>1, <1>2, <1>8 DEF Revoke, Forget, ForgetFails
  <1>9. CASE Platform(p) \/ Exchange(p) \/ Ask(p) \/ Look(p) \/ Redeem(p) \/ Read(p) \/ Offline(p)
    BY <1>1, <1>2, <1>3, <1>9 DEF Platform, Exchange, Ask, Look, Redeem, Read, Offline
  <1> QED
    BY <1>5, <1>6, <1>7, <1>8, <1>9 DEF Proceed

LEMMA StepHolding ==
  ASSUME Typed, TInv, NEW p \in Sessions,
         Login(p) \/ Logout(p) \/ Reveal(p) \/ Proceed(p) \/ Crash(p)
  PROVE  \A q \in Sessions : Holding(me'[q])
  <1>1. Holding(me[p])
    BY DEF TInv
  <1>2. Holding(me'[p])
    BY <1>1, LoginHolding, LogoutHolding, RevealHolding, ExchangeHolding, AskHolding DEF Proceed
  <1> QED
    BY <1>2, StepAlone DEF TInv

\* What the server and the commands write down.
LEMMA Recorded ==
  ASSUME Typed, TimeInv, TInv, NEW p \in Sessions,
         Login(p) \/ Logout(p) \/ Reveal(p) \/ Proceed(p) \/ Crash(p)
  PROVE  /\ approval' \in [Approvals -> Requests]
         /\ accepted' \in [0..(MaxClock + MaxTries) -> (Sessions \X Nat) \cup {None}]
         /\ ran' \in [Sessions -> 0..MaxCommands]
         /\ \A r \in Approvals : printed'[r] \in Seq(Keys)
         /\ spent' \in [Approvals -> SUBSET Keys]
         /\ env' \in Environments /\ usable' \in BOOLEAN
  <1>0. /\ Holding(me[p]) /\ ran[p] \in 0..MaxCommands /\ MaxCommands \in Nat
        /\ approval \in [Approvals -> Requests]
    BY SignInAssumption DEF TInv
  <1>1. env' \in Environments /\ usable' \in BOOLEAN
    BY DEF TInv, Login, Logout, Reveal, Proceed, Crash, DeviceStart, DeviceStartFails, Sleep, Poll,
           SlowDown, Keep, KeepFails, Revoke, Forget, ForgetFails, Platform, Exchange, Ask, Look,
           Redeem, Read, Offline
  <1>2. ran' \in [Sessions -> 0..MaxCommands]
    <2>1. CASE Login(p) \/ Logout(p) \/ Reveal(p)
      <3>1. ran[p] < MaxCommands /\ ran' = [ran EXCEPT ![p] = @ + 1]
        BY <2>1 DEF Login, Logout, Reveal, Opens
      <3>2. ran[p] + 1 \in 0..MaxCommands
        BY <1>0, <3>1
      <3> QED
        BY <3>1, <3>2 DEF TInv
    <2>2. CASE Proceed(p) \/ Crash(p)
      <3>1. ran' = ran
        BY <2>2 DEF Proceed, Crash, DeviceStart, DeviceStartFails, Sleep, Poll, SlowDown, Keep,
             KeepFails, Revoke, Forget, ForgetFails, Platform, Exchange, Ask, Look, Redeem, Read,
             Offline
      <3> QED
        BY <3>1 DEF TInv
    <2> QED
      BY <2>1, <2>2
  <1>3. CASE Exchange(p)
    <2>1. approval' = approval /\ printed' = printed /\ spent' = spent /\ me[p].pc = "exchange"
          /\ (accepted' = accepted \/ accepted' = [accepted EXCEPT ![Instant(me[p])] = <<p, ran[p]>>])
      BY <1>3 DEF Exchange, At
    <2>2. <<p, ran[p]>> \in Sessions \X Nat
      BY <1>0
    <2>3. accepted' \in [0..(MaxClock + MaxTries) -> (Sessions \X Nat) \cup {None}]
      BY <2>1, <2>2 DEF TInv
    <2> QED
      BY <1>1, <1>2, <2>1, <2>3 DEF TInv
  <1>4. CASE Ask(p)
    <2>1. /\ accepted' = accepted /\ printed' = printed /\ spent' = spent
          /\ \/ approval' = approval
             \/ \E r \in Approvals : approval' =
                  [approval EXCEPT ![r] = [key |-> me[p].key, by |-> p, state |-> "pending"]]
      BY <1>4 DEF Ask
    <2>2. [key |-> me[p].key, by |-> p, state |-> "pending"] \in Requests
      BY <1>0 DEF Holding, Requests
    <2>3. approval' \in [Approvals -> Requests]
      BY <1>0, <2>1, <2>2
    <2> QED
      BY <1>1, <1>2, <2>1, <2>3 DEF TInv
  <1>5. CASE Redeem(p)
    <2> DEFINE id == me[p].id
    <2>1. /\ accepted' = accepted /\ me[p].pc = "spend"
          /\ approval' = approval \/ approval' = [approval EXCEPT ![id].state = "redeemed"]
          /\ printed' = printed \/ printed' = [printed EXCEPT ![id] = Append(@, me[p].key)]
          /\ spent' = spent \/ spent' = [spent EXCEPT ![id] = @ \cup {me[p].key}]
      BY <1>5 DEF Redeem, MayPrint, At
    <2>2. me[p].key \in Keys
      BY <1>0, <2>1 DEF Holding
    <2>3. approval' \in [Approvals -> Requests]
      <3>1. \A r \in Approvals : [approval[r] EXCEPT !.state = "redeemed"] \in Requests
        BY <1>0 DEF Requests
      <3> QED
        BY <1>0, <2>1, <3>1
    <2>4. \A r \in Approvals : printed'[r] \in Seq(Keys)
      <3>1. \A r \in Approvals : Append(printed[r], me[p].key) \in Seq(Keys)
        BY <2>2 DEF TInv
      <3>2. DOMAIN printed = Approvals
        BY DEF Typed
      <3>3. CASE printed' = printed
        BY <3>3 DEF TInv
      <3>4. CASE printed' = [printed EXCEPT ![id] = Append(printed[id], me[p].key)]
        <4> SUFFICES ASSUME NEW r \in Approvals PROVE printed'[r] \in Seq(Keys)
          OBVIOUS
        <4>1. printed[r] \in Seq(Keys)
          BY DEF TInv
        <4> HIDE DEF id
        <4>2. CASE r = id
          BY <3>1, <3>2, <3>4, <4>2
        <4>3. CASE r # id
          BY <3>2, <3>4, <4>1, <4>3
        <4> QED
          BY <4>2, <4>3
      <3> QED
        BY <2>1, <3>3, <3>4
    <2>5. spent' \in [Approvals -> SUBSET Keys]
      BY <2>1, <2>2 DEF TInv
    <2> QED
      BY <1>1, <1>2, <2>1, <2>3, <2>4, <2>5 DEF TInv
  <1>6. CASE ~Exchange(p) /\ ~Ask(p) /\ ~Redeem(p)
    <2>1. UNCHANGED <<approval, accepted, printed, spent>>
      BY <1>6 DEF server, Login, Logout, Reveal, Proceed, Crash, DeviceStart, DeviceStartFails, Sleep,
           Poll, SlowDown, Keep, KeepFails, Revoke, Forget, ForgetFails, Platform, Look, Read, Offline
    <2> QED
      BY <1>1, <1>2, <2>1 DEF TInv
  <1> QED
    BY <1>3, <1>4, <1>5, <1>6

LEMMA TInvSteps == IInv /\ TimeInv /\ TInv /\ [Next]_vars => TInv'
  <1> SUFFICES ASSUME IInv, TimeInv, TInv, [Next]_vars PROVE TInv'
    OBVIOUS
  <1>1. ASSUME NEW p \in Sessions,
               Login(p) \/ Logout(p) \/ Reveal(p) \/ Proceed(p) \/ Crash(p)
        PROVE  TInv'
    <2>1. \A q \in Sessions : Holding(me'[q])
      BY <1>1, StepHolding DEF IInv
    <2>2. /\ approval' \in [Approvals -> Requests]
          /\ accepted' \in [0..(MaxClock + MaxTries) -> (Sessions \X Nat) \cup {None}]
          /\ ran' \in [Sessions -> 0..MaxCommands]
          /\ \A r \in Approvals : printed'[r] \in Seq(Keys)
          /\ spent' \in [Approvals -> SUBSET Keys]
          /\ env' \in Environments /\ usable' \in BOOLEAN
      BY <1>1, Recorded DEF IInv
    <2> QED
      BY <2>1, <2>2 DEF TInv
  <1>2. CASE DecideApproval
    <2>1. PICK r \in Approvals, said \in {"approved", "denied", "expired"} :
            approval' = [approval EXCEPT ![r].state = said]
      BY <1>2 DEF DecideApproval
    <2>2. [approval[r] EXCEPT !.state = said] \in Requests
      BY DEF TInv, Requests
    <2>3. approval' \in [Approvals -> Requests]
      BY <2>1, <2>2 DEF TInv
    <2> QED
      BY <1>2, <2>3 DEF DecideApproval, TInv
  <1>3. CASE DecideCode \/ Tick \/ UNCHANGED vars
    BY <1>3 DEF DecideCode, Tick, vars, server, TInv
  <1> QED
    BY <1>1, <1>2, <1>3 DEF Next

\* The host, the server and the commands of every session keep their types, however
\* requests are answered and commands die (device.rs, exchange.rs, reveal.rs).
THEOREM Typing == Spec => []TypeOK
  <1>1. Init => TInv
    <2> SUFFICES ASSUME Init PROVE TInv
      OBVIOUS
    <2>1. \A p \in Sessions : Holding(me[p])
      BY DEF Init, Holding, Fresh, Pcs
    <2>2. ran \in [Sessions -> 0..MaxCommands]
      BY SignInAssumption DEF Init
    <2> QED
      BY <2>1, <2>2 DEF Init, TInv, Requests
  <1>2. IInv /\ TimeInv /\ TInv => TypeOK
    BY DEF IInv, Typed, TimeInv, Timed, TInv, Holding, Requests, TypeOK
  <1> QED
    BY <1>1, <1>2, TInvSteps, TimeInitially, TimeSteps, Invariance, PTL DEF Spec


=============================================================================
