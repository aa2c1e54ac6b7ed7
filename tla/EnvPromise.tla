----------------------------- MODULE EnvPromise -----------------------------
(***************************************************************************)
(* What reading an environment promises, whatever is cached underneath:    *)
(* every answer is one the server itself would have given the same         *)
(* credential at some instant inside the window the environment allows.    *)
(* The cache of penv-cloud/src/cache.rs is shown to keep it by EnvCache.   *)
(***************************************************************************)
EXTENDS Naturals, Sequences

CONSTANTS
  Readers,      \* commands that read the environment once each
  Credentials,  \* what a reader proves itself with
  Ttl,          \* how old a development answer may be
  NotBegun,     \* the time of a reader that has not begun
  Unanswered,   \* a reader without its answer yet
  Refused,      \* a reader that was answered with an error
  MaxClock,     \* bound: the clock stops here
  MaxEpochs     \* bound: how often the server's state changes

VARIABLES
  development,  \* TRUE iff the environment is development, fixed from the start
  clock,    \* seconds, the same on every machine
  epochs,   \* the server's states in order, each with the time it began
  began,    \* when each reader read the clock
  answers   \* what each reader was answered

vars == <<development, clock, epochs, began, answers>>

\* `live` are the credentials the server accepts in an epoch, `version` the body
\* it answers them with.
Epoch == [from : 0..MaxClock, version : Nat, live : SUBSET Credentials]

Answer == [version : Nat, to : Credentials, offline : BOOLEAN]

\* The last instant of epoch i so far.
Until(i) == IF i = Len(epochs) THEN clock ELSE epochs[i + 1].from

\* The epochs an answer may come from: still running when the reader began, or in
\* development less than Ttl before that.  A development reader that cannot reach
\* the server is answered from any epoch.
Allowed(r, answer) ==
  \E i \in 1..Len(epochs) :
    /\ answer.version = epochs[i].version
    /\ answer.to \in epochs[i].live
    /\ IF development
         THEN answer.offline \/ Until(i) + Ttl > began[r]
         ELSE ~answer.offline /\ Until(i) >= began[r]

Init ==
  /\ development \in BOOLEAN
  /\ clock = 0
  /\ \E live \in SUBSET Credentials : epochs = << [from |-> 0, version |-> 0, live |-> live] >>
  /\ began = [r \in Readers |-> NotBegun]
  /\ answers = [r \in Readers |-> Unanswered]

Tick ==
  /\ clock < MaxClock
  /\ clock' = clock + 1
  /\ UNCHANGED <<development, epochs, began, answers>>

\* The body, or who may read it, changes on the server.
Change ==
  /\ Len(epochs) < MaxEpochs
  /\ \E version \in 0..MaxEpochs, live \in SUBSET Credentials :
       epochs' = Append(epochs, [from |-> clock, version |-> version, live |-> live])
  /\ UNCHANGED <<development, clock, began, answers>>

\* A reader with no credential is refused as it begins.
Begin(r) ==
  /\ began[r] = NotBegun
  /\ began' = [began EXCEPT ![r] = clock]
  /\ answers' \in {answers, [answers EXCEPT ![r] = Refused]}
  /\ UNCHANGED <<development, clock, epochs>>

Answered(r) ==
  /\ began[r] # NotBegun
  /\ answers[r] = Unanswered
  /\ \E version \in 0..MaxEpochs, to \in Credentials, offline \in BOOLEAN :
       LET answer == [version |-> version, to |-> to, offline |-> offline] IN
       /\ Allowed(r, answer)
       /\ answers' = [answers EXCEPT ![r] = answer]
  /\ UNCHANGED <<development, clock, epochs, began>>

Refuse(r) ==
  /\ answers[r] = Unanswered
  /\ answers' = [answers EXCEPT ![r] = Refused]
  /\ UNCHANGED <<development, clock, epochs, began>>

Next ==
  \/ Tick
  \/ Change
  \/ \E r \in Readers : Begin(r) \/ Answered(r) \/ Refuse(r)

Spec == Init /\ [][Next]_vars

=============================================================================
