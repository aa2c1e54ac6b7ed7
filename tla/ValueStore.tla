----------------------------- MODULE ValueStore -----------------------------
(***************************************************************************)
(* What the value files promise, whatever form the values have in them:    *)
(* each command changes the files at most once, at one instant and as its  *)
(* job says, and converting a file between plain and encrypted changes     *)
(* nothing a reader sees.  The promise ends with a command that wrote what *)
(* another had changed meanwhile: the files have no lock.                  *)
(***************************************************************************)
CONSTANTS
  Processes,  \* commands, each run once
  Names,      \* the keys of the schema
  Sources,    \* who a value is from: the commands, and whoever wrote the first ones
  Absent      \* a key without a value

Files == {".env", ".env.local"}

VARIABLES
  store,  \* what each file says of each key
  job,    \* what each command was asked to do
  wrote,  \* the commands that changed the store
  raced   \* TRUE once a command wrote over what another had changed

vars == <<store, job, wrote, raced>>

Stores == [Files -> [Names -> Sources \cup {Absent}]]

Jobs ==
  [cmd : {"set", "unset", "run"}, name : Names]
    \cup [cmd : {"encrypt", "decrypt"}, name : {Absent}]

Init ==
  /\ store \in Stores
  /\ job \in [Processes -> Jobs]
  /\ wrote = {}
  /\ raced = FALSE

\* p's only change: file says `source` of p's key.
Change(p, file, source) ==
  /\ p \notin wrote
  /\ wrote' = wrote \cup {p}
  /\ store' = [store EXCEPT ![file][job[p].name] = source]
  /\ UNCHANGED <<job, raced>>

Set(p) == job[p].cmd = "set" /\ Change(p, ".env", p)

Unset(p) ==
  /\ job[p].cmd = "unset"
  /\ store[".env"][job[p].name] # Absent
  /\ Change(p, ".env", Absent)

\* random() makes a value only for a key that has none anywhere.
Generate(p) ==
  /\ job[p].cmd = "run"
  /\ \A file \in Files : store[file][job[p].name] = Absent
  /\ Change(p, ".env.local", p)

Race ==
  /\ raced' = TRUE
  /\ store' \in Stores
  /\ wrote' \in SUBSET Processes
  /\ UNCHANGED job

Next == Race \/ \E p \in Processes : Set(p) \/ Unset(p) \/ Generate(p)

Spec == Init /\ [][Next]_vars

=============================================================================
