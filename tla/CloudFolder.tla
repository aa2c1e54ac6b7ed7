---------------------------- MODULE CloudFolder -----------------------------
(***************************************************************************)
(* One folder and the project it is linked to: `push` moves the shared     *)
(* value files to penv.cloud and removes them, `pull` writes one of them   *)
(* back, `set` writes one value wherever the header of .env.schema points, *)
(* and `project` and `env` change what the server holds.  Commands of the  *)
(* same folder run at the same time with nothing to keep them apart: every *)
(* file is read and written in separate steps, .env.schema is emptied       *)
(* before it is written, every request may fail before or after the server *)
(* acted on it, and a process may die.                                     *)
(*                                                                         *)
(* A value is a model value.  .env.schema is its header and the keys it    *)
(* declares.  The project is named after the directory; the server derives *)
(* its slug.  Local encryption and rotation dates are ValueFiles' subject. *)
(***************************************************************************)
EXTENDS Naturals, FiniteSets, Sequences, Functions

CONSTANTS
  Procs,      \* commands, each run once
  Commands,   \* what a command may be asked to do
  KeySeq,     \* the keys, in the order a push sends them
  Envs,       \* the environments
  Dev,        \* development
  WriteOnly,  \* those whose values the server withholds from this identity
  Values,     \* the values a file or the server may hold
  Huge,       \* those over 256 KiB
  Unholdable, \* those no value file can hold
  Projects,   \* the slugs
  Slug,       \* the slug the server derives from the directory's name
  MaxBatch,   \* MAX_BATCH
  Folders,    \* the folders at the start: [files, link, declared, cloud]
  Unlinked, NoProject, NoEnv

Keys  == Range(KeySeq)
Files == {".env"} \cup Envs     \* an environment stands for .env.<env>

\* What a file may say of a key besides a value: nothing, `K=`, `K=random(..)`,
\* an expression that does not compute, `# penv:redacted K`.
Special == {"absent", "empty", "random", "broken", "marker"}
Text    == Values \cup Special
\* What the server holds: nothing, a declared key without a value, a value.
Stored  == Values \cup {"absent", "unset"}
Contents == [Keys -> Stored]
Server   == [Projects -> [Envs -> Contents \cup {NoEnv}] \cup {NoProject}]

\* What a command is given; most use a part of it.
Command == [
  op     : {"push", "pull", "set", "unset", "project-new", "project-rename", "project-rm",
            "env-new", "env-rename", "env-rm"},
  env    : Envs,
  erases : BOOLEAN,     \* push --prune, or a delete
  agent  : BOOLEAN,
  key    : Keys,
  value  : Values]

ASSUME FolderAssumption ==
  /\ Dev \in Envs /\ WriteOnly \subseteq Envs /\ Slug \in Projects
  /\ Huge \cup Unholdable \subseteq Values
  /\ MaxBatch \in Nat \ {0}
  /\ Projects \ {Slug} # {} /\ Unlinked \notin Projects

\* `schema` is not the name of an environment (check_environment); the rest keeps
\* apart what the model names.
ASSUME NameAssumption ==
  /\ "schema" \notin Files
  /\ Values \cap (Special \cup {"unset"}) = {}
  /\ NoEnv \notin Contents
  /\ NoProject \notin [Envs -> Contents \cup {NoEnv}]

ASSUME InputAssumption ==
  /\ KeySeq \in Seq(Keys) /\ IsInjective(KeySeq)
  /\ Commands \subseteq Command
  /\ \A f \in Folders :
       /\ f.files \in [Files -> [Keys -> Text]] /\ f.link \in Projects \cup {Unlinked}
       /\ f.declared \subseteq Keys /\ f.cloud \in Server

VARIABLES
  file,     \* the shared value files
  link,     \* the project the header names
  declared, \* the keys .env.schema declares
  ignored,  \* git ignores the value files
  cloud,    \* the projects of the server
  job,      \* each command
  made,     \* history: the projects the server ever had
  excuse,   \* history: those whose maker died, failed or was overtaken before its header
  kept      \* history: what was ever declared, less what a write that was cut short or
            \* that another overlapped took

vars == <<file, link, declared, ignored, cloud, job, made, excuse, kept>>

Pcs == {"idle", "open", "layers", "check", "account", "header", "send",
        "remove", "write", "emptied", "ignore", "append", "relink", "pushed", "ended", "failed"}

Job == [
  cmd   : Commands,
  pc    : Pcs,
  link  : Projects \cup {Unlinked},   \* the header as it was read, or written
  keys  : SUBSET Keys,                \* the declarations as they were read
  source : SUBSET Keys,               \* as they were read again, to be written back
  read  : SUBSET Files,               \* the layers read so far
  text  : [Keys -> Text],             \* what they say together
  from  : [Keys -> Files],            \* the layer each came from
  todo  : SUBSET Keys,                \* the keys still to send
  acked : [Keys -> Stored],           \* what the server took
  tries : 0..1,                       \* a server error answered already
  stale : SUBSET (Files \cup {"schema"})] \* what another command wrote since it was read

TypeOK ==
  /\ file \in [Files -> [Keys -> Text]]
  /\ link \in Projects \cup {Unlinked}
  /\ declared \subseteq Keys
  /\ ignored \in BOOLEAN
  /\ cloud \in Server
  /\ job \in [Procs -> Job]
  /\ made \subseteq Projects /\ excuse \subseteq made
  /\ kept \subseteq Keys

Nothing == [k \in Keys |-> "absent"]

Init ==
  /\ \E f \in Folders :
       /\ file = f.files /\ link = f.link /\ declared = f.declared /\ cloud = f.cloud
  /\ ignored = FALSE
  /\ job \in [Procs ->
       {[cmd |-> c, pc |-> "idle", link |-> Unlinked, keys |-> {}, source |-> {}, read |-> {},
         text |-> Nothing, from |-> [k \in Keys |-> ".env"], todo |-> {},
         acked |-> Nothing, tries |-> 0, stale |-> {}] : c \in Commands}]
  /\ made = {p \in Projects : cloud[p] # NoProject}
  /\ excuse = made \ {link}
  /\ kept = declared

-----------------------------------------------------------------------------
\* How a command moves.

At(p, pc)    == job[p].pc = pc
Does(p, ops) == job[p].cmd.op \in ops
Env(p)       == job[p].cmd.env
Goes(p, pc)  == job' = [job EXCEPT ![p].pc = pc, ![p].tries = 0]
Running(p)   == job[p].pc \notin {"idle", "ended", "failed"}

\* The others that have read `what` hold something old from here on.
Overtakes(j, p, what) ==
  [q \in Procs |-> IF q # p /\ Running(q) THEN [j[q] EXCEPT !.stale = @ \cup {what}] ELSE j[q]]

\* The file `set` and `pull` write.
TargetFile(env) == IF env = Dev THEN ".env" ELSE env

\* The project a command addresses, and whether the server has its environment.
Address(p) == job[p].link
Reachable(p) ==
  /\ Address(p) # Unlinked
  /\ cloud[Address(p)] # NoProject
  /\ cloud[Address(p)][Env(p)] # NoEnv

\* One request: `attempt` sends it a second time when the server answered with
\* an error of its own, having done `effect` or not, and gives up on a second
\* one, on a refusal and on an answer that never came.
Attempt(p, effect, nothing, answered) ==
  \/ effect /\ answered
  \/ /\ job[p].tries = 0
     /\ effect \/ nothing
     /\ job' = [job EXCEPT ![p].tries = 1]
  \/ /\ effect \/ nothing
     /\ Goes(p, "failed")

-----------------------------------------------------------------------------
\* push.

\* The schema is read; --prune from an agent and an --org that is not the
\* header's are refused.
Open(p) ==
  /\ At(p, "idle")
  /\ IF \/ Does(p, {"push", "project-rm", "env-rm"}) /\ job[p].cmd.erases /\ job[p].cmd.agent
        \/ Does(p, {"pull"}) /\ job[p].cmd.agent
     THEN Goes(p, "failed")
     ELSE job' = [job EXCEPT ![p].pc = "open", ![p].link = link, ![p].keys = declared]
  /\ UNCHANGED <<file, link, declared, ignored, cloud, made, excuse, kept>>

\* One layer, .env and then the environment's own; what a later one sets wins.
ReadLayer(p) ==
  /\ Does(p, {"push"}) /\ job[p].pc \in {"open", "layers"}
  /\ LET f   == IF At(p, "open") THEN ".env" ELSE Env(p)
         own == {k \in Keys : file[f][k] \notin {"absent", "marker"}}
     IN job' = [job EXCEPT
          ![p].pc   = IF At(p, "open") THEN "layers" ELSE "check",
          ![p].read = @ \cup {f},
          ![p].stale = @ \ {f},
          ![p].text = [k \in Keys |-> IF k \in own THEN file[f][k] ELSE @[k]],
          ![p].from = [k \in Keys |-> IF k \in own THEN f ELSE @[k]]]
  /\ UNCHANGED <<file, link, declared, ignored, cloud, made, excuse, kept>>

\* The keys a file gives a value, random() apart.
Pushed(p)  == {k \in Keys : job[p].text[k] \in Values \cup {"broken"}}
\* Every declared key, with a value or not, and every value never declared.
Payload(p) == job[p].keys \cup Pushed(p)

Prunable(prune, keys) == ~prune \/ Cardinality(keys) <= MaxBatch

Sendable(p) ==
  /\ \A k \in Pushed(p) : job[p].text[k] # "broken"
  /\ Pushed(p) # {}
  /\ \A k \in Pushed(p) : job[p].text[k] \notin Huge
  /\ Prunable(job[p].cmd.erases, Payload(p))

\* Everything that can be refused is refused before the server hears of it.
Check(p) ==
  /\ At(p, "check")
  /\ IF ~Sendable(p)
     THEN Goes(p, "failed")
     ELSE job' = [job EXCEPT ![p].pc = "account", ![p].todo = Payload(p)]
  /\ UNCHANGED <<file, link, declared, ignored, cloud, made, excuse, kept>>

\* ensure_environment: a project the listing lacks, or one with no environment
\* listed, is left to the request.
EnsureEnvironment(p) ==
  /\ At(p, "account") /\ job[p].link # Unlinked /\ Does(p, {"push"})
  /\ LET there == cloud[job[p].link]
         passes == there # NoProject =>
                     (there[Env(p)] # NoEnv \/ \A e \in Envs : there[e] = NoEnv)
     IN \/ passes = TRUE /\ Goes(p, "send")
        \/ Goes(p, "failed")  \* no such environment, or the listing failed
  /\ UNCHANGED <<file, link, declared, ignored, cloud, made, excuse, kept>>

\* A schema without a header gets a project, with the environment of this push.
\* A name already taken is refused, the one this very request made included.
CreateProject(p) ==
  /\ At(p, "account") /\ job[p].link = Unlinked /\ Does(p, {"push"})
  /\ \/ /\ cloud[Slug] = NoProject
        /\ Attempt(p,
             /\ cloud' = [cloud EXCEPT ![Slug] =
                            [e \in Envs |-> IF e \in {Dev, Env(p)} THEN Nothing ELSE NoEnv]]
             /\ made' = made \cup {Slug},
             UNCHANGED <<cloud, made>>,
             job' = [job EXCEPT ![p].pc = "header", ![p].link = Slug, ![p].tries = 0])
     \/ /\ cloud[Slug] # NoProject
        /\ Goes(p, "failed")
        /\ UNCHANGED <<cloud, made>>
  /\ excuse' = IF cloud'[Slug] # NoProject /\ ~At(p, "header")' /\ link # Slug
               THEN excuse \cup {Slug} ELSE excuse
  /\ UNCHANGED <<file, link, declared, ignored, kept>>

\* BUG: what is written back is the schema the command began with.
MutantReadSource(p, from) ==
  /\ At(p, from)
  /\ job' = [job EXCEPT
       ![p].pc = "write", ![p].source = job[p].keys, ![p].stale = @ \ {"schema"},
       ![p].link = IF Does(p, {"set"}) THEN link ELSE @]
  /\ UNCHANGED <<file, link, declared, ignored, cloud, made, excuse, kept>>

\* The schema as a command reads it to write it back.
ReadSource(p, from) ==
  /\ At(p, from)
  /\ job' = [job EXCEPT
       ![p].pc = "write", ![p].source = declared, ![p].stale = @ \ {"schema"},
       ![p].link = IF Does(p, {"set"}) THEN link ELSE @]
  /\ UNCHANGED <<file, link, declared, ignored, cloud, made, excuse, kept>>

\* The schema becomes `to` and `keys` in one step of a write by p.  If another wrote
\* it since p read it, what that named and declared is excused; a header of another
\* project is excused too.
Replace(p, to, keys) ==
  /\ link' = to /\ declared' = keys
  /\ excuse' = excuse \cup (made \cap
       (IF "schema" \in job[p].stale THEN Projects ELSE {link} \ {job[p].link}))
  /\ kept' = (IF "schema" \in job[p].stale THEN kept \cap job[p].source ELSE kept) \cup keys
  /\ UNCHANGED <<file, ignored, cloud, made>>

\* std::fs::write: the file is emptied, then written.
EmptySource(p) ==
  /\ At(p, "write")
  /\ Replace(p, Unlinked, {})
  /\ job' = Overtakes([job EXCEPT ![p].pc = "emptied"], p, "schema")

WriteSource(p, keys, pc) ==
  /\ At(p, "emptied")
  /\ Replace(p, job[p].link, keys)
  /\ job' = Overtakes([job EXCEPT ![p].pc = pc], p, "schema")

HeaderThen(p) == IF Does(p, {"push"}) THEN "send" ELSE "account"

WriteHeader(p) == Does(p, {"push", "pull"}) /\ WriteSource(p, job[p].source, HeaderThen(p))

\* What the server makes of one request of `push`.
Put(content, batch, text, prune) ==
  [k \in Keys |->
    IF k \notin batch THEN (IF prune THEN "absent" ELSE content[k])
    ELSE IF text[k] \in Values THEN text[k]
    ELSE IF content[k] = "absent" THEN "unset"
    ELSE content[k]]

Before(j, k) == \E m, n \in DOMAIN KeySeq : m < n /\ KeySeq[m] = j /\ KeySeq[n] = k

\* The first MaxBatch of the keys still to send.
Batch(p) ==
  LET todo == job[p].todo IN {k \in todo : Cardinality({j \in todo : Before(j, k)}) < MaxBatch}

SendBatch(p) ==
  /\ At(p, "send") /\ job[p].todo # {}
  /\ \/ /\ Reachable(p)
        /\ Attempt(p,
             cloud' = [cloud EXCEPT ![Address(p)][Env(p)] =
                         Put(@, Batch(p), job[p].text, job[p].cmd.erases)],
             UNCHANGED cloud,
             job' = [job EXCEPT
               ![p].tries = 0,
               ![p].todo  = @ \ Batch(p),
               ![p].acked = [k \in Keys |-> IF k \in Batch(p) /\ job[p].text[k] \in Values
                                            THEN job[p].text[k] ELSE @[k]]])
     \/ /\ ~Reachable(p) /\ Goes(p, "failed") /\ UNCHANGED cloud
  /\ UNCHANGED <<file, link, declared, ignored, made, excuse, kept>>

\* BUG: the files go as soon as a request was answered.
MutantSent(p) == Cardinality(job[p].todo) < Cardinality(Payload(p))

\* Every batch was answered.
Sent(p) == job[p].todo = {}

\* The files that were read are removed, one after the other; one that cannot be stays.
RemoveFile(p) ==
  /\ job[p].pc \in {"send", "remove"} /\ Does(p, {"push"}) /\ Sent(p)
  /\ IF job[p].read = {}
     THEN /\ Goes(p, "ended") /\ UNCHANGED file
     ELSE \E f \in job[p].read :
       /\ \/ file' = [file EXCEPT ![f] = Nothing]
          \/ UNCHANGED file
       /\ job' = Overtakes([job EXCEPT ![p].pc = "remove", ![p].read = @ \ {f}], p, f)
  /\ UNCHANGED <<link, declared, ignored, cloud, made, excuse, kept>>

-----------------------------------------------------------------------------
\* pull.

\* A schema without a header is linked to one of the projects this account has.
Link(p) ==
  /\ At(p, "open") /\ Does(p, {"pull"})
  /\ IF job[p].link # Unlinked
     THEN Goes(p, "account")
     ELSE \/ \E s \in Projects : /\ cloud[s] # NoProject
                                 /\ job' = [job EXCEPT ![p].pc = "header", ![p].link = s]
          \/ Goes(p, "failed")
  /\ UNCHANGED <<file, link, declared, ignored, cloud, made, excuse, kept>>

\* What one pulled file says: no value the identity is not given, none the file
\* cannot hold.
Written(content, env) ==
  [k \in Keys |->
    IF content[k] \notin Values THEN "absent"
    ELSE IF env \in WriteOnly THEN "marker"
    ELSE IF content[k] \in Unholdable THEN "absent"
    ELSE content[k]]

Fetch(p) ==
  /\ At(p, "account") /\ Does(p, {"pull"})
  /\ \/ /\ Reachable(p)
        /\ job' = [job EXCEPT ![p].pc = "pushed",
                              ![p].text = Written(cloud[Address(p)][Env(p)], Env(p))]
     \/ Goes(p, "failed")
  /\ UNCHANGED <<file, link, declared, ignored, cloud, made, excuse, kept>>

\* The file is replaced; one that now holds a value is then left out of git.
WriteFile(p) ==
  /\ At(p, "pushed")
  /\ \/ /\ file' = [file EXCEPT ![TargetFile(Env(p))] = job[p].text]
        /\ job' = Overtakes(
             [job EXCEPT ![p].pc = IF Does(p, {"unset"}) THEN "ended" ELSE "ignore"],
             p, TargetFile(Env(p)))
     \/ /\ Goes(p, "failed")
        /\ UNCHANGED file
  /\ UNCHANGED <<link, declared, ignored, cloud, made, excuse, kept>>

Ignore(p) ==
  /\ At(p, "ignore")
  /\ ignored' = TRUE
  /\ Goes(p, IF Does(p, {"set"}) /\ job[p].cmd.key \notin job[p].keys THEN "append" ELSE "ended")
  /\ UNCHANGED <<file, link, declared, cloud, made, excuse, kept>>

-----------------------------------------------------------------------------
\* set and unset: the file where there is no header, the server where there is.

Key(p)    == job[p].cmd.key
Chosen(p) == IF Does(p, {"unset"}) THEN "absent" ELSE job[p].cmd.value

SetLocal(p) ==
  /\ At(p, "open") /\ Does(p, {"set", "unset"}) /\ job[p].link = Unlinked
  /\ job' = [job EXCEPT
       ![p].pc    = "pushed",
       ![p].stale = @ \ {TargetFile(Env(p))},
       ![p].text  = [file[TargetFile(Env(p))] EXCEPT ![Key(p)] = Chosen(p)]]
  /\ UNCHANGED <<file, link, declared, ignored, cloud, made, excuse, kept>>

SetCloud(p) ==
  /\ At(p, "open") /\ Does(p, {"set", "unset"}) /\ job[p].link # Unlinked
  /\ \/ /\ Reachable(p) /\ Chosen(p) \notin Huge
        /\ Attempt(p,
             cloud' = [cloud EXCEPT ![Address(p)][Env(p)][Key(p)] = Chosen(p)],
             UNCHANGED cloud,
             Goes(p, IF Does(p, {"set"}) /\ Key(p) \notin job[p].keys THEN "append" ELSE "ended"))
     \/ /\ Goes(p, "failed") /\ UNCHANGED cloud
  /\ UNCHANGED <<file, link, declared, ignored, made, excuse, kept>>

\* A key the schema never declared gets a block, after every line of the file.
AppendBlock(p) == Does(p, {"set"}) /\ WriteSource(p, job[p].source \cup {Key(p)}, "ended")

-----------------------------------------------------------------------------
\* project and env.

Other == CHOOSE s \in Projects \ {Slug} : TRUE

ProjectNew(p) ==
  /\ At(p, "open") /\ Does(p, {"project-new"})
  /\ \/ /\ cloud[Slug] = NoProject
        /\ Attempt(p,
             /\ cloud' = [cloud EXCEPT ![Slug] = [e \in Envs |-> IF e = Dev THEN Nothing ELSE NoEnv]]
             /\ made' = made \cup {Slug} /\ excuse' = excuse \cup {Slug},
             UNCHANGED <<cloud, made, excuse>>,
             Goes(p, "ended"))
     \/ /\ cloud[Slug] # NoProject /\ Goes(p, "failed") /\ UNCHANGED <<cloud, made, excuse>>
  /\ UNCHANGED <<file, link, declared, ignored, kept>>

\* The new slug is in the answer, and goes in the header of a folder that named the old.
ProjectRename(p) ==
  /\ At(p, "open") /\ Does(p, {"project-rename"})
  /\ \/ /\ cloud[Slug] # NoProject /\ cloud[Other] = NoProject
        /\ cloud' = [cloud EXCEPT ![Other] = cloud[Slug], ![Slug] = NoProject]
        /\ made' = made \cup {Other}
        /\ \/ /\ job' = [job EXCEPT ![p].pc = "relink", ![p].link = Other]
              /\ UNCHANGED excuse
           \/ /\ Goes(p, "failed")   \* the answer was lost
              /\ excuse' = excuse \cup {Other}
     \/ /\ Goes(p, "failed") /\ UNCHANGED <<cloud, made, excuse>>
  /\ UNCHANGED <<file, link, declared, ignored, kept>>

\* BUG: the folder keeps the old name in its header.
MutantRelink(p) ==
  /\ At(p, "relink")
  /\ Goes(p, "ended")
  /\ UNCHANGED <<file, link, declared, ignored, cloud, made, excuse, kept>>

Relink(p) ==
  \/ link = Slug /\ ReadSource(p, "relink")
  \/ /\ At(p, "relink") /\ link # Slug
     /\ Goes(p, "ended")
     /\ excuse' = excuse \cup {Other}
     /\ UNCHANGED <<file, link, declared, ignored, cloud, made, kept>>

WriteRelinked(p) == Does(p, {"project-rename"}) /\ WriteSource(p, job[p].source, "ended")

\* A delete takes a person who typed the name.
ProjectRm(p) ==
  /\ At(p, "open") /\ Does(p, {"project-rm"})
  /\ \/ cloud' = [cloud EXCEPT ![Slug] = NoProject]
     \/ UNCHANGED cloud
  /\ \E to \in {"ended", "failed"} : Goes(p, to)
  /\ UNCHANGED <<file, link, declared, ignored, made, excuse, kept>>

\* An environment made, made with another's keys and none of its values, renamed, deleted.
Environments(p, there) ==
  {[there EXCEPT ![Env(p)] = Nothing]} \cup
  {[there EXCEPT ![Env(p)] = [k \in Keys |-> IF there[e][k] = "absent" THEN "absent" ELSE "unset"]] :
     e \in {e \in Envs : there[e] # NoEnv}}

ChangeEnvironment(p) ==
  /\ At(p, "open") /\ Does(p, {"env-new", "env-rename", "env-rm"})
  /\ \/ /\ Address(p) # Unlinked /\ cloud[Address(p)] # NoProject
        /\ \/ /\ Does(p, {"env-new"}) /\ ~Reachable(p)
              /\ \E there \in Environments(p, cloud[Address(p)]) :
                   cloud' = [cloud EXCEPT ![Address(p)] = there]
           \/ /\ Does(p, {"env-rename"}) /\ Reachable(p)
              /\ \E e \in Envs :
                   /\ cloud[Address(p)][e] = NoEnv
                   /\ cloud' = [cloud EXCEPT ![Address(p)][e] = cloud[Address(p)][Env(p)],
                                             ![Address(p)][Env(p)] = NoEnv]
           \/ /\ Does(p, {"env-rm"}) /\ Reachable(p)
              /\ cloud' = [cloud EXCEPT ![Address(p)][Env(p)] = NoEnv]
        /\ \E to \in {"ended", "failed"} : Goes(p, to)
     \/ /\ Goes(p, "failed") /\ UNCHANGED cloud
  /\ UNCHANGED <<file, link, declared, ignored, made, excuse, kept>>

\* The process dies between two steps, or the disk refuses to write: an emptied
\* schema stays as it is.
Crash(p) ==
  /\ Running(p)
  /\ Goes(p, "failed")
  /\ excuse' = excuse \cup ((made \cap {job[p].link}) \ {link})
  /\ kept' = IF At(p, "emptied") THEN kept \ (job[p].source \ declared) ELSE kept
  /\ UNCHANGED <<file, link, declared, ignored, cloud, made>>

Step(p) ==
  \/ Open(p)
  \/ ReadLayer(p) \/ Check(p) \/ EnsureEnvironment(p) \/ CreateProject(p)
  \/ ReadSource(p, "header") \/ EmptySource(p) \/ WriteHeader(p) \/ SendBatch(p) \/ RemoveFile(p)
  \/ Link(p) \/ Fetch(p) \/ WriteFile(p) \/ Ignore(p)
  \/ SetLocal(p) \/ SetCloud(p) \/ ReadSource(p, "append") \/ AppendBlock(p)
  \/ ProjectNew(p) \/ ProjectRename(p) \/ Relink(p) \/ WriteRelinked(p) \/ ProjectRm(p)
  \/ ChangeEnvironment(p)
  \/ Crash(p)

Next == \E p \in Procs : Step(p)
Spec == Init /\ [][Next]_vars

-----------------------------------------------------------------------------
\* A push takes a value away with its file only when the server holds it for
\* that environment, when the environment's own layer replaced it, or when
\* another command wrote the file after it was read: whatever failed on the
\* way, in however many requests (push.rs 172-176).
RemovedWasSent ==
  [][\A p \in Procs, f \in Files :
       f \in job[p].read /\ f \notin job'[p].read /\ file'[f] # file[f] =>
         \A k \in Keys : file[f][k] \in Values \cup {"broken"} =>
           \/ job[p].acked[k] = file[f][k]
           \/ job[p].from[k] # f
           \/ f \in job[p].stale]_vars

\* A push that prunes deletes no key it sends or declares: no request of it
\* takes what another wrote (push.rs 302-316, MAX_BATCH).
PruneSparesPayload ==
  [][\A p \in Procs, k \in Keys :
       At(p, "send") /\ job'[p] # job[p] /\ k \in Payload(p) /\ Reachable(p)
         /\ cloud[Address(p)][Env(p)][k] # "absent"
         => cloud'[Address(p)][Env(p)][k] # "absent"]_vars

\* A push loses no value: neither of a file it takes away nor of a key it prunes.
PushLosesNothing == RemovedWasSent /\ PruneSparesPayload

\* Every project of this folder is named by its header, is about to be, or lost
\* it to a command that died, failed after the server acted or overlapped
\* another: a push with nothing to send, or refused, makes none (push.rs 73-74).
LinkedOrExcused ==
  \A s \in made :
    cloud[s] # NoProject =>
      \/ s = link \/ s \in excuse
      \/ \E p \in Procs : At(p, "header") /\ job[p].link = s
      \/ \E p \in Procs : job[p].pc \in {"write", "emptied", "relink"} /\ job[p].link = s

\* Every key .env.schema ever declared it still declares, or a command that emptied
\* the file is about to write it back (push.rs 147-151, set.rs 312-331).  What takes a
\* declaration is named: a process killed, or a disk that refused, between the two
\* halves of one write (files.rs 51-52), and a write by a command that another's
\* overlapped.
DeclarationsKept ==
  \A k \in kept \ declared : \E p \in Procs : At(p, "emptied") /\ k \in job[p].source

=============================================================================
