------------------------- MODULE CloudFolderProofs -------------------------
(***************************************************************************)
(* CloudFolder for any number of commands, keys, environments and          *)
(* projects.                                                               *)
(*                                                                         *)
(* The schema: it is emptied and written back by a command that read it,   *)
(* and either nobody has written it since or the command is known to be    *)
(* late (IInv).                                                            *)
(* Types and the projects there are (TInv).  A push: what it read is what  *)
(* it sends unless another wrote the file since, every value is still to   *)
(* send or was taken, and one that prunes is a single request (PInv).      *)
(***************************************************************************)
EXTENDS CloudFolder, FiniteSetTheorems, TLAPS

-----------------------------------------------------------------------------
(* The schema: the invariant.                                              *)

Fields == {"cmd", "pc", "link", "keys", "source", "read", "text", "from",
           "todo", "acked", "tries", "stale"}

Typed ==
  /\ DOMAIN job = Procs
  /\ \A p \in Procs : DOMAIN job[p] = Fields
  /\ DOMAIN cloud = Projects
  /\ made \subseteq Projects

\* About to name a project in the header.
Linking == {"header", "write", "emptied", "relink"}

\* Who is on the way to write the schema, to which header, and from what it read.
Writing(p) ==
  LET op == job[p].cmd.op IN
  /\ job[p].pc = "header" => op \in {"push", "pull"}
  /\ job[p].pc = "append" => op = "set"
  /\ job[p].pc = "relink" => op = "project-rename" /\ job[p].link = Other
  /\ job[p].pc = "write" => "schema" \in job[p].stale \/ declared = job[p].source
  /\ job[p].pc = "emptied" => "schema" \in job[p].stale \/ declared = {}

IInv == Typed /\ (\A p \in Procs : Writing(p)) /\ LinkedOrExcused

-----------------------------------------------------------------------------
(* What one command's step leaves of the others.                           *)

\* Only p moves; the others may find that something they read is old.
Alone(p) ==
  /\ DOMAIN job' = Procs
  /\ \A q \in Procs : DOMAIN job'[q] = Fields
  /\ job'[p].cmd = job[p].cmd
  /\ \A q \in Procs : q # p =>
       /\ job'[q].cmd = job[q].cmd /\ job'[q].pc = job[q].pc
       /\ job'[q].link = job[q].link /\ job'[q].source = job[q].source
       /\ "schema" \in job[q].stale => "schema" \in job'[q].stale

\* The schema was written, and the others that had read it are told.
Told(p) == \A q \in Procs : q # p /\ job[q].pc \in {"write", "emptied"} => "schema" \in job'[q].stale

LEMMA Whole ==
  ASSUME IInv, NEW p \in Procs, Alone(p), Writing(p)',
         declared' = declared \/ Told(p),
         DOMAIN cloud' = Projects, made' \subseteq Projects,
         \A s \in made' : cloud'[s] # NoProject =>
           \/ s = link' \/ s \in excuse'
           \/ \E q \in Procs : job'[q].pc \in Linking /\ job'[q].link = s
  PROVE  IInv'
  <1>1. Typed'
    BY DEF Typed, Alone
  <1>2. ASSUME NEW q \in Procs PROVE Writing(q)'
    <2>1. CASE q = p
      BY <2>1
    <2>2. CASE q # p
      BY <2>2 DEF IInv, Writing, Alone, Told
    <2> QED
      BY <2>1, <2>2
  <1>3. LinkedOrExcused'
    <2> SUFFICES ASSUME NEW s \in made', cloud'[s] # NoProject
                 PROVE  \/ s = link' \/ s \in excuse'
                        \/ \E q \in Procs : job'[q].pc = "header" /\ job'[q].link = s
                        \/ \E q \in Procs : job'[q].pc \in {"write", "emptied", "relink"} /\ job'[q].link = s
      BY DEF LinkedOrExcused, At
    <2> QED
      BY DEF Linking
  <1> QED
    BY <1>1, <1>2, <1>3 DEF IInv

\* What LinkedOrExcused says of one project, with the three places as one.
LEMMA LinkedNow ==
  ASSUME IInv, NEW s \in made, cloud[s] # NoProject
  PROVE  \/ s = link \/ s \in excuse
         \/ \E q \in Procs : job[q].pc \in Linking /\ job[q].link = s
  BY DEF IInv, LinkedOrExcused, Linking, At

\* A step that makes no project, and leaves none it was about to name.
LEMMA Calm ==
  ASSUME IInv, NEW p \in Procs, Alone(p), Writing(p)',
         UNCHANGED <<link, declared, made>>, excuse \subseteq excuse', DOMAIN cloud' = Projects,
         \A s \in Projects : cloud'[s] # NoProject => cloud[s] # NoProject,
         job[p].pc \in Linking => \/ job'[p].pc \in Linking /\ job'[p].link = job[p].link
                                  \/ job[p].link \in excuse' \cup {link}
                                  \/ job[p].link \notin made
  PROVE  IInv'
  <1>1. ASSUME NEW s \in made', cloud'[s] # NoProject
        PROVE  \/ s = link' \/ s \in excuse'
               \/ \E q \in Procs : job'[q].pc \in Linking /\ job'[q].link = s
    <2>1. s \in made /\ cloud[s] # NoProject
      BY <1>1 DEF IInv, Typed
    <2>2. CASE s = link \/ s \in excuse
      BY <2>2
    <2>3. CASE \E q \in Procs : job[q].pc \in Linking /\ job[q].link = s
      <3> PICK q \in Procs : job[q].pc \in Linking /\ job[q].link = s
        BY <2>3
      <3> QED
        BY <2>1 DEF Alone
    <2> QED
      BY <2>1, <2>2, <2>3, LinkedNow
  <1> QED
    BY <1>1, Whole DEF IInv, Typed

LEMMA GoesFields ==
  ASSUME Typed, NEW p \in Procs, NEW pc, Goes(p, pc)
  PROVE  /\ Alone(p) /\ job'[p].pc = pc /\ job'[p].link = job[p].link
         /\ job'[p].source = job[p].source /\ job'[p].stale = job[p].stale
  BY DEF Typed, Fields, Goes, Alone

LEMMA OvertakesFields ==
  ASSUME NEW p \in Procs, NEW j, NEW what, job' = Overtakes(j, p, what),
         DOMAIN job = Procs, \A q \in Procs : DOMAIN j[q] = Fields, j[p].cmd = job[p].cmd,
         \A q \in Procs : q # p => j[q] = job[q]
  PROVE  /\ Alone(p) /\ job'[p] = j[p]
         /\ what = "schema" => Told(p)
  <1>1. \A q \in Procs : job'[q] = IF q # p /\ Running(q)
                                   THEN [j[q] EXCEPT !.stale = @ \cup {what}] ELSE j[q]
    BY DEF Overtakes
  <1>2. DOMAIN job' = Procs
    BY DEF Overtakes
  <1>3. ASSUME NEW q \in Procs, q # p
        PROVE  /\ DOMAIN job'[q] = Fields
               /\ job'[q].cmd = job[q].cmd /\ job'[q].pc = job[q].pc
               /\ job'[q].link = job[q].link /\ job'[q].source = job[q].source
               /\ "schema" \in job[q].stale => "schema" \in job'[q].stale
               /\ Running(q) => what \in job'[q].stale
    <2>1. j[q] = job[q] /\ DOMAIN job[q] = Fields
      BY <1>3
    <2>2. CASE Running(q)
      <3>1. job'[q] = [job[q] EXCEPT !.stale = @ \cup {what}]
        BY <1>1, <1>3, <2>1, <2>2
      <3> QED
        BY <2>1, <3>1 DEF Fields
    <2>3. CASE ~Running(q)
      BY <1>1, <2>1, <2>3
    <2> QED
      BY <2>2, <2>3
  <1>4. job'[p] = j[p]
    BY <1>1
  <1>5. \A q \in Procs : job[q].pc \in {"write", "emptied"} => Running(q)
    BY DEF Running
  <1> QED
    BY <1>2, <1>3, <1>4, <1>5 DEF Alone, Told

\* A step of a command that neither is nor comes near the schema.
LEMMA Elsewhere ==
  ASSUME IInv, NEW p \in Procs, Alone(p), job[p].pc \notin Linking, job'[p].pc \notin Linking,
         job'[p].pc = "append" => job[p].cmd.op = "set",
         UNCHANGED <<link, declared, made>>, excuse \subseteq excuse', DOMAIN cloud' = Projects,
         \A s \in Projects : cloud'[s] # NoProject => cloud[s] # NoProject
  PROVE  IInv'
  <1>1. Writing(p)'
    BY DEF Writing, Linking, Alone
  <1> QED
    BY <1>1, Calm

\* Most steps leave all the projects as they are.
LEMMA Nearby ==
  ASSUME IInv, NEW p \in Procs, Alone(p), job[p].pc \notin Linking, job'[p].pc \notin Linking,
         job'[p].pc = "append" => job[p].cmd.op = "set",
         UNCHANGED <<link, declared, made, excuse, cloud>>
  PROVE  IInv'
  BY Elsewhere DEF IInv, Typed

LEMMA NearbyGoes ==
  ASSUME IInv, NEW p \in Procs, NEW pc, Goes(p, pc), job[p].pc \notin Linking,
         pc \notin Linking, pc = "append" => job[p].cmd.op = "set",
         UNCHANGED <<link, declared, made, excuse, cloud>>
  PROVE  IInv'
  BY GoesFields, Nearby DEF IInv

-----------------------------------------------------------------------------
(* Away from the schema.                                                   *)

LEMMA OpenKeeps == ASSUME IInv, NEW p \in Procs, Open(p) PROVE IInv'
  <1>1. job[p].pc = "idle" /\ UNCHANGED <<link, declared, made, excuse, cloud>>
    BY DEF Open, At
  <1>2. CASE Goes(p, "failed")
    BY <1>1, <1>2, NearbyGoes DEF Linking
  <1>3. CASE job' = [job EXCEPT ![p].pc = "open", ![p].link = link, ![p].keys = declared]
    <2>1. Alone(p) /\ job'[p].pc = "open"
      BY <1>3 DEF IInv, Typed, Fields, Alone
    <2> QED
      BY <1>1, <2>1, Nearby DEF Linking
  <1> QED
    BY <1>2, <1>3 DEF Open

LEMMA ReadLayerKeeps == ASSUME IInv, NEW p \in Procs, ReadLayer(p) PROVE IInv'
  <1> DEFINE f   == IF At(p, "open") THEN ".env" ELSE Env(p)
             own == {k \in Keys : file[f][k] \notin {"absent", "marker"}}
  <1>1. /\ job[p].pc \in {"open", "layers"}
        /\ job' = [job EXCEPT
             ![p].pc   = IF At(p, "open") THEN "layers" ELSE "check",
             ![p].read = @ \cup {f},
             ![p].stale = @ \ {f},
             ![p].text = [k \in Keys |-> IF k \in own THEN file[f][k] ELSE @[k]],
             ![p].from = [k \in Keys |-> IF k \in own THEN f ELSE @[k]]]
        /\ UNCHANGED <<link, declared, made, excuse, cloud>>
    BY DEF ReadLayer
  <1> HIDE DEF f, own
  <1>2. Alone(p) /\ job'[p].pc \in {"layers", "check"}
    BY <1>1 DEF IInv, Typed, Fields, Alone
  <1> QED
    BY <1>1, <1>2, Nearby DEF Linking

LEMMA CheckKeeps == ASSUME IInv, NEW p \in Procs, Check(p) PROVE IInv'
  <1>1. job[p].pc = "check" /\ UNCHANGED <<link, declared, made, excuse, cloud>>
    BY DEF Check, At
  <1>2. CASE Goes(p, "failed")
    BY <1>1, <1>2, NearbyGoes DEF Linking
  <1>3. CASE ~Goes(p, "failed")
    <2>1. PICK todo : job' = [job EXCEPT ![p].pc = "account", ![p].todo = todo]
      BY <1>3 DEF Check
    <2>2. Alone(p) /\ job'[p].pc = "account"
      BY <2>1 DEF IInv, Typed, Fields, Alone
    <2> QED
      BY <1>1, <2>2, Nearby DEF Linking
  <1> QED
    BY <1>2, <1>3

LEMMA EnsureKeeps == ASSUME IInv, NEW p \in Procs, EnsureEnvironment(p) PROVE IInv'
  <1>1. /\ job[p].pc = "account" /\ UNCHANGED <<link, declared, made, excuse, cloud>>
        /\ Goes(p, "send") \/ Goes(p, "failed")
    BY DEF EnsureEnvironment, At
  <1> QED
    BY <1>1, NearbyGoes DEF Linking

LEMMA SendBatchKeeps == ASSUME IInv, NEW p \in Procs, SendBatch(p) PROVE IInv'
  <1>1. job[p].pc = "send" /\ UNCHANGED <<link, declared, made, excuse>>
    BY DEF SendBatch, At
  <1>2. /\ DOMAIN cloud' = Projects
        /\ \A s \in Projects : cloud'[s] # NoProject => cloud[s] # NoProject
    <2>1. CASE UNCHANGED cloud
      BY <2>1 DEF IInv, Typed
    <2>2. CASE ~UNCHANGED cloud
      <3>1. PICK x : cloud' = [cloud EXCEPT ![Address(p)] = x]
        BY <2>2 DEF SendBatch, Attempt
      <3>2. cloud[Address(p)] # NoProject
        BY <2>2 DEF SendBatch, Reachable
      <3> QED
        BY <3>1, <3>2 DEF IInv, Typed
    <2> QED
      BY <2>1, <2>2
  <1>3. Alone(p) /\ job'[p].pc \in {"send", "failed"}
    <2>1. CASE Goes(p, "failed")
      BY <2>1, GoesFields DEF IInv
    <2>2. CASE job' = [job EXCEPT ![p].tries = 1]
      BY <1>1, <2>2 DEF IInv, Typed, Fields, Alone
    <2>3. CASE ~Goes(p, "failed") /\ job' # [job EXCEPT ![p].tries = 1]
      <3>1. PICK todo, acked :
              job' = [job EXCEPT ![p].tries = 0, ![p].todo = todo, ![p].acked = acked]
        BY <2>3 DEF SendBatch, Attempt
      <3> QED
        BY <1>1, <3>1 DEF IInv, Typed, Fields, Alone
    <2> QED
      BY <2>1, <2>2, <2>3
  <1> QED
    BY <1>1, <1>2, <1>3, Elsewhere DEF Linking

LEMMA RemoveFileKeeps == ASSUME IInv, NEW p \in Procs, RemoveFile(p) PROVE IInv'
  <1>1. job[p].pc \in {"send", "remove"} /\ UNCHANGED <<link, declared, made, excuse, cloud>>
    BY DEF RemoveFile
  <1>2. CASE Goes(p, "ended")
    BY <1>1, <1>2, NearbyGoes DEF Linking
  <1>3. CASE ~Goes(p, "ended")
    <2>1. PICK f : job' = Overtakes([job EXCEPT ![p].pc = "remove", ![p].read = @ \ {f}], p, f)
      BY <1>3 DEF RemoveFile
    <2> DEFINE j == [job EXCEPT ![p].pc = "remove", ![p].read = @ \ {f}]
    <2>2. /\ \A q \in Procs : DOMAIN j[q] = Fields /\ (q # p => j[q] = job[q])
          /\ j[p].cmd = job[p].cmd /\ j[p].pc = "remove"
      BY DEF IInv, Typed, Fields
    <2>3. job' = Overtakes(j, p, f)
      BY <2>1
    <2> HIDE DEF j
    <2>4. Alone(p) /\ job'[p] = j[p]
      BY <2>2, <2>3, OvertakesFields DEF IInv, Typed
    <2> QED
      BY <1>1, <2>2, <2>4, Nearby DEF Linking
  <1> QED
    BY <1>2, <1>3

LEMMA PulledKeeps ==
  ASSUME IInv, NEW p \in Procs, Fetch(p) \/ WriteFile(p) \/ Ignore(p) \/ SetLocal(p)
  PROVE  IInv'
  <1>1. /\ job[p].pc \in {"account", "pushed", "ignore", "open"}
        /\ UNCHANGED <<link, declared, made, excuse, cloud>>
    BY DEF Fetch, WriteFile, Ignore, SetLocal, At
  <1>2. CASE Fetch(p)
    <2>1. CASE Goes(p, "failed")
      BY <1>1, <2>1, NearbyGoes DEF Linking
    <2>2. CASE ~Goes(p, "failed")
      <3>1. PICK text : job' = [job EXCEPT ![p].pc = "pushed", ![p].text = text]
        BY <1>2, <2>2 DEF Fetch
      <3>2. Alone(p) /\ job'[p].pc = "pushed"
        BY <3>1 DEF IInv, Typed, Fields, Alone
      <3> QED
        BY <1>1, <3>2, Nearby DEF Linking
    <2> QED
      BY <2>1, <2>2
  <1>3. CASE WriteFile(p)
    <2>1. CASE Goes(p, "failed")
      BY <1>1, <2>1, NearbyGoes DEF Linking
    <2>2. CASE ~Goes(p, "failed")
      <3> DEFINE x == IF Does(p, {"unset"}) THEN "ended" ELSE "ignore"
                 j == [job EXCEPT ![p].pc = x]
      <3>1. job' = Overtakes(j, p, TargetFile(Env(p)))
        BY <1>3, <2>2 DEF WriteFile
      <3>2. /\ \A q \in Procs : DOMAIN j[q] = Fields /\ (q # p => j[q] = job[q])
            /\ j[p].cmd = job[p].cmd /\ j[p].pc \in {"ended", "ignore"}
        BY DEF IInv, Typed, Fields
      <3> HIDE DEF j
      <3>3. Alone(p) /\ job'[p] = j[p]
        BY <3>1, <3>2, OvertakesFields DEF IInv, Typed
      <3> QED
        BY <1>1, <3>2, <3>3, Nearby DEF Linking
    <2> QED
      BY <2>1, <2>2
  <1>4. CASE Ignore(p)
    <2>1. Goes(p, "ended") \/ (job[p].cmd.op = "set" /\ Goes(p, "append"))
      BY <1>4 DEF Ignore, Does
    <2> QED
      BY <1>1, <2>1, NearbyGoes DEF Linking
  <1>5. CASE SetLocal(p)
    <2>1. PICK stale, text :
            job' = [job EXCEPT ![p].pc = "pushed", ![p].stale = stale, ![p].text = text]
      BY <1>5 DEF SetLocal
    <2>2. Alone(p) /\ job'[p].pc = "pushed"
      BY <2>1 DEF IInv, Typed, Fields, Alone
    <2> QED
      BY <1>1, <2>2, Nearby DEF Linking
  <1> QED
    BY <1>2, <1>3, <1>4, <1>5

LEMMA SetCloudKeeps == ASSUME IInv, NEW p \in Procs, SetCloud(p) PROVE IInv'
  <1>1. job[p].pc = "open" /\ UNCHANGED <<link, declared, made, excuse>>
    BY DEF SetCloud, At
  <1>2. /\ DOMAIN cloud' = Projects
        /\ \A s \in Projects : cloud'[s] # NoProject => cloud[s] # NoProject
    <2>1. CASE UNCHANGED cloud
      BY <2>1 DEF IInv, Typed
    <2>2. CASE ~UNCHANGED cloud
      <3>1. PICK x : cloud' = [cloud EXCEPT ![Address(p)] = x]
        BY <2>2 DEF SetCloud, Attempt
      <3>2. cloud[Address(p)] # NoProject
        BY <2>2 DEF SetCloud, Reachable
      <3> QED
        BY <3>1, <3>2 DEF IInv, Typed
    <2> QED
      BY <2>1, <2>2
  <1>3. /\ Alone(p) /\ job'[p].pc \notin Linking
        /\ job'[p].pc = "append" => job[p].cmd.op = "set"
    <2>1. CASE job' = [job EXCEPT ![p].tries = 1]
      BY <1>1, <2>1 DEF IInv, Typed, Fields, Alone, Linking
    <2>2. CASE job' # [job EXCEPT ![p].tries = 1]
      <3>1. PICK pc \in {"append", "ended", "failed"} :
              Goes(p, pc) /\ (pc = "append" => job[p].cmd.op = "set")
        BY <2>2 DEF SetCloud, Attempt, Does
      <3> QED
        BY <3>1, GoesFields DEF IInv, Linking
    <2> QED
      BY <2>1, <2>2
  <1> QED
    BY <1>1, <1>2, <1>3, Elsewhere DEF Linking

LEMMA RemovalKeeps ==
  ASSUME IInv, NEW p \in Procs, ProjectRm(p) \/ ChangeEnvironment(p)
  PROVE  IInv'
  <1>1. /\ job[p].pc = "open" /\ UNCHANGED <<link, declared, made, excuse>>
        /\ \E to \in {"ended", "failed"} : Goes(p, to)
    BY DEF ProjectRm, ChangeEnvironment, At
  <1>2. /\ DOMAIN cloud' = Projects
        /\ \A s \in Projects : cloud'[s] # NoProject => cloud[s] # NoProject
    <2>1. CASE UNCHANGED cloud \/ cloud' = [cloud EXCEPT ![Slug] = NoProject]
      BY <2>1 DEF IInv, Typed
    <2>2. CASE ChangeEnvironment(p) /\ ~UNCHANGED cloud
      <3>1. cloud[Address(p)] # NoProject
        BY <2>2 DEF ChangeEnvironment
      <3>2. PICK x, y : \/ cloud' = [cloud EXCEPT ![Address(p)] = x]
                        \/ cloud' = [[cloud EXCEPT ![Address(p)] = x] EXCEPT ![Address(p)] = y]
        BY <2>2 DEF ChangeEnvironment
      <3> QED
        BY <3>1, <3>2 DEF IInv, Typed
    <2> QED
      BY <2>1, <2>2 DEF ProjectRm
  <1>3. Alone(p) /\ job'[p].pc \in {"ended", "failed"}
    BY <1>1, GoesFields DEF IInv
  <1> QED
    BY <1>1, <1>2, <1>3, Elsewhere DEF Linking

-----------------------------------------------------------------------------
(* A project is made, or its header looked for.                            *)

LEMMA LinkKeeps == ASSUME IInv, NEW p \in Procs, Link(p) PROVE IInv'
  <1>1. /\ job[p].pc = "open" /\ job[p].cmd.op = "pull"
        /\ UNCHANGED <<link, declared, made, excuse, cloud>>
    BY DEF Link, At, Does
  <1>2. CASE Goes(p, "account") \/ Goes(p, "failed")
    BY <1>1, <1>2, NearbyGoes DEF Linking
  <1>3. CASE \E s \in Projects : job' = [job EXCEPT ![p].pc = "header", ![p].link = s]
    <2>1. PICK s \in Projects : job' = [job EXCEPT ![p].pc = "header", ![p].link = s]
      BY <1>3
    <2>2. Alone(p) /\ job'[p].pc = "header"
      BY <2>1 DEF IInv, Typed, Fields, Alone
    <2>3. Writing(p)'
      BY <1>1, <2>2 DEF Writing, Alone
    <2> QED
      BY <1>1, <2>2, <2>3, Calm DEF IInv, Typed, Linking
  <1> QED
    BY <1>2, <1>3 DEF Link

\* A step that makes a project, and excuses it or is about to link it.
LEMMA Making ==
  ASSUME IInv, NEW p \in Procs, Alone(p), Writing(p)', NEW new \in Projects,
         UNCHANGED <<link, declared>>, made \subseteq made', made' \subseteq made \cup {new},
         excuse \subseteq excuse', DOMAIN cloud' = Projects, job[p].pc \notin Linking,
         \A s \in Projects \ {new} : cloud'[s] # NoProject => cloud[s] # NoProject,
         \/ new = link \/ new \in excuse' \/ cloud'[new] = NoProject
         \/ job'[p].pc \in Linking /\ job'[p].link = new
  PROVE  IInv'
  <1>1. ASSUME NEW s \in made', cloud'[s] # NoProject
        PROVE  \/ s = link' \/ s \in excuse'
               \/ \E q \in Procs : job'[q].pc \in Linking /\ job'[q].link = s
    <2>1. CASE s \in made /\ cloud[s] # NoProject
      <3>1. CASE s = link \/ s \in excuse
        BY <3>1
      <3>2. CASE \E q \in Procs : job[q].pc \in Linking /\ job[q].link = s
        <4> PICK q \in Procs : job[q].pc \in Linking /\ job[q].link = s
          BY <3>2
        <4> QED
          BY DEF Alone
      <3> QED
        BY <2>1, <3>1, <3>2, LinkedNow
    <2>2. CASE ~(s \in made /\ cloud[s] # NoProject)
      BY <1>1, <2>2 DEF IInv, Typed
    <2> QED
      BY <2>1, <2>2
  <1> QED
    BY <1>1, Whole DEF IInv, Typed

LEMMA CreateProjectKeeps == ASSUME IInv, NEW p \in Procs, CreateProject(p) PROVE IInv'
  <1>1. /\ job[p].pc = "account" /\ job[p].cmd.op = "push" /\ Slug \in Projects
        /\ UNCHANGED <<link, declared>>
        /\ excuse' = IF cloud'[Slug] # NoProject /\ job'[p].pc # "header" /\ link # Slug
                     THEN excuse \cup {Slug} ELSE excuse
    BY FolderAssumption DEF CreateProject, At, Does
  <1>2. /\ made \subseteq made' /\ made' \subseteq made \cup {Slug} /\ DOMAIN cloud' = Projects
        /\ \A s \in Projects \ {Slug} : cloud'[s] # NoProject => cloud[s] # NoProject
    BY DEF CreateProject, Attempt, IInv, Typed
  <1>3. /\ Alone(p)
        /\ \/ job'[p].pc = "header" /\ job'[p].link = Slug
           \/ job'[p].pc \in {"account", "failed"}
    <2>1. CASE Goes(p, "failed")
      BY <2>1, GoesFields DEF IInv
    <2>2. CASE job' = [job EXCEPT ![p].tries = 1]
      BY <1>1, <2>2 DEF IInv, Typed, Fields, Alone
    <2>3. CASE job' = [job EXCEPT ![p].pc = "header", ![p].link = Slug, ![p].tries = 0]
      BY <2>3 DEF IInv, Typed, Fields, Alone
    <2> QED
      BY <2>1, <2>2, <2>3 DEF CreateProject, Attempt
  <1>4. Writing(p)'
    BY <1>1, <1>3 DEF Writing, Alone
  <1>5. \/ Slug = link \/ Slug \in excuse' \/ cloud'[Slug] = NoProject
        \/ job'[p].pc \in Linking /\ job'[p].link = Slug
    BY <1>1, <1>3 DEF Linking
  <1> QED
    BY <1>1, <1>2, <1>3, <1>4, <1>5, Making DEF Linking

LEMMA ProjectNewKeeps == ASSUME IInv, NEW p \in Procs, ProjectNew(p) PROVE IInv'
  <1>1. /\ job[p].pc = "open" /\ Slug \in Projects /\ UNCHANGED <<link, declared>>
    BY FolderAssumption DEF ProjectNew, At
  <1>2. Alone(p) /\ job'[p].pc \in {"open", "ended", "failed"}
    <2>1. CASE Goes(p, "failed") \/ Goes(p, "ended")
      BY <2>1, GoesFields DEF IInv
    <2>2. CASE job' = [job EXCEPT ![p].tries = 1]
      BY <1>1, <2>2 DEF IInv, Typed, Fields, Alone
    <2> QED
      BY <2>1, <2>2 DEF ProjectNew, Attempt
  <1>3. Writing(p)'
    BY <1>2 DEF Writing
  <1>4. CASE UNCHANGED <<cloud, made, excuse>>
    BY <1>1, <1>2, <1>4, Nearby DEF Linking
  <1>5. CASE ~UNCHANGED <<cloud, made, excuse>>
    <2>1. /\ \E x : cloud' = [cloud EXCEPT ![Slug] = x]
          /\ made' = made \cup {Slug} /\ excuse' = excuse \cup {Slug}
      BY <1>5 DEF ProjectNew, Attempt
    <2>2. /\ DOMAIN cloud' = Projects
          /\ \A s \in Projects \ {Slug} : cloud'[s] # NoProject => cloud[s] # NoProject
      BY <2>1 DEF IInv, Typed
    <2> QED
      BY <1>1, <1>2, <1>3, <2>1, <2>2, Making DEF Linking
  <1> QED
    BY <1>4, <1>5

LEMMA ProjectRenameKeeps == ASSUME IInv, NEW p \in Procs, ProjectRename(p) PROVE IInv'
  <1>1. /\ job[p].pc = "open" /\ job[p].cmd.op = "project-rename"
        /\ UNCHANGED <<link, declared>>
    BY DEF ProjectRename, At, Does
  <1>2. Slug \in Projects /\ Other \in Projects /\ Other # Slug
    BY FolderAssumption DEF Other
  <1>3. CASE UNCHANGED <<cloud, made, excuse>> /\ Goes(p, "failed")
    BY <1>1, <1>3, NearbyGoes DEF Linking
  <1>4. CASE ~(UNCHANGED <<cloud, made, excuse>> /\ Goes(p, "failed"))
    <2>1. /\ cloud' = [cloud EXCEPT ![Other] = cloud[Slug], ![Slug] = NoProject]
          /\ made' = made \cup {Other}
          /\ \/ /\ job' = [job EXCEPT ![p].pc = "relink", ![p].link = Other]
                /\ UNCHANGED excuse
             \/ Goes(p, "failed") /\ excuse' = excuse \cup {Other}
      BY <1>4 DEF ProjectRename
    <2>2. /\ DOMAIN cloud' = Projects
          /\ \A s \in Projects \ {Other} : cloud'[s] # NoProject => cloud[s] # NoProject
      BY <1>2, <2>1 DEF IInv, Typed
    <2>3. /\ Alone(p)
          /\ \/ job'[p].pc = "relink" /\ job'[p].link = Other
             \/ job'[p].pc = "failed" /\ Other \in excuse'
      <3>1. CASE job' = [job EXCEPT ![p].pc = "relink", ![p].link = Other]
        BY <3>1 DEF IInv, Typed, Fields, Alone
      <3> QED
        BY <2>1, <3>1, GoesFields DEF IInv
    <2>4. Writing(p)'
      BY <1>1, <2>3 DEF Writing, Alone
    <2> QED
      BY <1>1, <1>2, <2>1, <2>2, <2>3, <2>4, Making DEF Linking
  <1> QED
    BY <1>3, <1>4

-----------------------------------------------------------------------------
(* The schema is read and written back.                                    *)

LEMMA ReadSourceKeeps ==
  ASSUME IInv, NEW p \in Procs, NEW from \in {"header", "append", "relink"}, ReadSource(p, from)
  PROVE  IInv'
  <1>1. /\ job[p].pc = from
        /\ job' = [job EXCEPT
             ![p].pc = "write", ![p].source = declared, ![p].stale = @ \ {"schema"},
             ![p].link = IF Does(p, {"set"}) THEN link ELSE @]
        /\ UNCHANGED <<link, declared, cloud, made, excuse>>
    BY DEF ReadSource, At
  <1>2. /\ Alone(p) /\ job'[p].pc = "write" /\ job'[p].source = declared
        /\ job'[p].link = IF Does(p, {"set"}) THEN link ELSE job[p].link
    BY <1>1 DEF IInv, Typed, Fields, Alone
  \* Only `set` takes the header as it is now.
  <1>3. /\ from # "append" => ~Does(p, {"set"})
        /\ from = "append" => Does(p, {"set"})
    BY <1>1 DEF IInv, Writing, Does
  <1>4. Writing(p)'
    BY <1>1, <1>2, <1>3 DEF Writing, Alone
  <1> QED
    BY <1>1, <1>2, <1>3, <1>4, Calm DEF IInv, Typed, Linking

\* A schema replaced by one that was not read since another wrote it, or by another
\* header, excuses what it named; the project it was to name is named, or about to be.
LEMMA ReplaceKeeps ==
  ASSUME IInv, NEW p \in Procs, job[p].pc \in {"write", "emptied"}, NEW to, NEW keys,
         Replace(p, to, keys), Alone(p), Told(p), Writing(p)', job'[p].link = job[p].link,
         to = job[p].link \/ job'[p].pc = "emptied"
  PROVE  IInv'
  <1>1. /\ link' = to
        /\ excuse' = excuse \cup (made \cap
             (IF "schema" \in job[p].stale THEN Projects ELSE {link} \ {job[p].link}))
        /\ UNCHANGED <<cloud, made>>
    BY DEF Replace
  <1>2. job[p].link = link' \/ (job'[p].pc \in Linking /\ job'[p].link = job[p].link)
    BY <1>1 DEF Linking
  <1>3. link \in made => link = job[p].link \/ link \in excuse'
    BY <1>1 DEF IInv, Typed
  <1>4. ASSUME NEW s \in made', cloud'[s] # NoProject
        PROVE  \/ s = link' \/ s \in excuse'
               \/ \E q \in Procs : job'[q].pc \in Linking /\ job'[q].link = s
    <2>1. s \in made /\ cloud[s] # NoProject
      BY <1>1, <1>4
    <2>2. CASE s = link \/ s \in excuse
      BY <1>1, <1>2, <1>3, <2>1, <2>2
    <2>3. CASE \E q \in Procs : job[q].pc \in Linking /\ job[q].link = s
      <3> PICK q \in Procs : job[q].pc \in Linking /\ job[q].link = s
        BY <2>3
      <3>1. CASE q = p
        BY <1>2, <3>1
      <3>2. CASE q # p
        BY <3>2 DEF Alone
      <3> QED
        BY <3>1, <3>2
    <2> QED
      BY <2>1, <2>2, <2>3, LinkedNow
  <1> QED
    BY <1>1, <1>4, Whole DEF IInv, Typed

\* What a command does when it wrote the schema.
LEMMA Wrote ==
  ASSUME Typed, NEW p \in Procs, NEW x, job' = Overtakes([job EXCEPT ![p].pc = x], p, "schema")
  PROVE  /\ Alone(p) /\ Told(p) /\ job'[p].pc = x
         /\ job'[p].link = job[p].link /\ job'[p].source = job[p].source
  <1> DEFINE j == [job EXCEPT ![p].pc = x]
  <1>1. /\ \A q \in Procs : DOMAIN j[q] = Fields /\ (q # p => j[q] = job[q])
        /\ j[p].cmd = job[p].cmd /\ j[p].pc = x
        /\ j[p].link = job[p].link /\ j[p].source = job[p].source
    BY DEF Typed, Fields
  <1>2. job' = Overtakes(j, p, "schema")
    OBVIOUS
  <1> HIDE DEF j
  <1> QED
    BY <1>1, <1>2, OvertakesFields DEF Typed

LEMMA EmptySourceKeeps == ASSUME IInv, NEW p \in Procs, EmptySource(p) PROVE IInv'
  <1>1. /\ job[p].pc = "write" /\ Replace(p, Unlinked, {}) /\ declared' = {}
        /\ job' = Overtakes([job EXCEPT ![p].pc = "emptied"], p, "schema")
    BY DEF EmptySource, At, Replace
  <1>2. Alone(p) /\ Told(p) /\ job'[p].pc = "emptied" /\ job'[p].link = job[p].link
    BY <1>1, Wrote DEF IInv
  <1>3. Writing(p)'
    BY <1>1, <1>2 DEF Writing
  <1> QED
    BY <1>1, <1>2, <1>3, ReplaceKeeps

\* The three commands that write a schema back.
LEMMA Writes ==
  ASSUME NEW p \in Procs, WriteHeader(p) \/ AppendBlock(p) \/ WriteRelinked(p)
  PROVE  \E keys, pc : /\ pc \in {"send", "account", "ended"}
                      /\ job[p].source \subseteq keys /\ WriteSource(p, keys, pc)
  <1>1. CASE WriteHeader(p)
    BY <1>1 DEF WriteHeader, HeaderThen
  <1>2. CASE AppendBlock(p)
    BY <1>2 DEF AppendBlock
  <1>3. CASE WriteRelinked(p)
    BY <1>3 DEF WriteRelinked
  <1> QED
    BY <1>1, <1>2, <1>3

LEMMA WritesKeep ==
  ASSUME IInv, NEW p \in Procs, WriteHeader(p) \/ AppendBlock(p) \/ WriteRelinked(p)
  PROVE  IInv'
  <1> PICK keys, pc : pc \in {"send", "account", "ended"} /\ WriteSource(p, keys, pc)
    BY Writes
  <1>1. /\ job[p].pc = "emptied" /\ Replace(p, job[p].link, keys)
        /\ job' = Overtakes([job EXCEPT ![p].pc = pc], p, "schema")
    BY DEF WriteSource, At
  <1>2. Alone(p) /\ Told(p) /\ job'[p].pc = pc /\ job'[p].link = job[p].link
    BY <1>1, Wrote DEF IInv
  <1>3. Writing(p)'
    BY <1>2 DEF Writing
  <1> QED
    BY <1>1, <1>2, <1>3, ReplaceKeeps

LEMMA RelinkKeeps == ASSUME IInv, NEW p \in Procs, Relink(p) PROVE IInv'
  <1>1. CASE ReadSource(p, "relink")
    BY <1>1, ReadSourceKeeps
  <1>2. CASE ~ReadSource(p, "relink")
    <2>1. /\ job[p].pc = "relink" /\ Goes(p, "ended")
          /\ excuse' = excuse \cup {Other}
          /\ UNCHANGED <<link, declared, cloud, made>>
      BY <1>2 DEF Relink, At
    <2>2. Alone(p) /\ job'[p].pc = "ended"
      BY <2>1, GoesFields DEF IInv
    <2>3. Writing(p)' /\ job[p].link = Other
      BY <2>1, <2>2 DEF Writing, IInv
    <2> QED
      BY <2>1, <2>2, <2>3, Calm DEF IInv, Typed
  <1> QED
    BY <1>1, <1>2

LEMMA CrashKeeps == ASSUME IInv, NEW p \in Procs, Crash(p) PROVE IInv'
  <1>1. /\ Goes(p, "failed") /\ UNCHANGED <<link, declared, cloud, made>>
        /\ excuse' = excuse \cup ((made \cap {job[p].link}) \ {link})
    BY DEF Crash
  <1>2. Alone(p) /\ job'[p].pc = "failed"
    BY <1>1, GoesFields DEF IInv
  <1>3. Writing(p)'
    BY <1>2 DEF Writing
  <1> QED
    BY <1>1, <1>2, <1>3, Calm DEF IInv, Typed

-----------------------------------------------------------------------------
(* Every step.                                                             *)

LEMMA Initially == Init => IInv
  <1> SUFFICES ASSUME Init PROVE IInv
    OBVIOUS
  <1>1. Typed /\ \A p \in Procs : job[p].pc = "idle"
    <2>1. /\ DOMAIN job = Procs
          /\ \A p \in Procs : \E c \in Commands :
               job[p] = [cmd |-> c, pc |-> "idle", link |-> Unlinked, keys |-> {}, source |-> {},
                         read |-> {}, text |-> Nothing, from |-> [k \in Keys |-> ".env"],
                         todo |-> {}, acked |-> Nothing, tries |-> 0, stale |-> {}]
      BY DEF Init
    <2>2. \A p \in Procs : DOMAIN job[p] = Fields /\ job[p].pc = "idle"
      BY <2>1 DEF Fields
    <2>3. DOMAIN cloud = Projects /\ made \subseteq Projects
      BY InputAssumption DEF Init, Server
    <2> QED
      BY <2>1, <2>2, <2>3 DEF Typed
  <1>2. \A p \in Procs : Writing(p)
    BY <1>1 DEF Writing
  <1>3. LinkedOrExcused
    BY DEF Init, LinkedOrExcused
  <1> QED
    BY <1>1, <1>2, <1>3 DEF IInv

LEMMA Steps == IInv /\ [Next]_vars => IInv'
  <1> SUFFICES ASSUME IInv, [Next]_vars PROVE IInv'
    OBVIOUS
  <1>1. CASE UNCHANGED vars
    <2>1. Typed'
      BY <1>1 DEF IInv, Typed, vars
    <2>2. ASSUME NEW q \in Procs PROVE Writing(q)'
      BY <1>1 DEF IInv, Writing, vars
    <2>3. LinkedOrExcused'
      BY <1>1 DEF IInv, LinkedOrExcused, At, vars
    <2> QED
      BY <2>1, <2>2, <2>3 DEF IInv
  <1>2. ASSUME NEW p \in Procs, Step(p) PROVE IInv'
    <2>1. CASE Open(p) \/ ReadLayer(p) \/ Check(p) \/ EnsureEnvironment(p) \/ SendBatch(p) \/ RemoveFile(p)
      BY <2>1, OpenKeeps, ReadLayerKeeps, CheckKeeps, EnsureKeeps, SendBatchKeeps, RemoveFileKeeps
    <2>2. CASE Link(p) \/ Fetch(p) \/ WriteFile(p) \/ Ignore(p) \/ SetLocal(p) \/ SetCloud(p)
      BY <2>2, LinkKeeps, PulledKeeps, SetCloudKeeps
    <2>3. CASE CreateProject(p) \/ ProjectNew(p) \/ ProjectRename(p) \/ ProjectRm(p) \/ ChangeEnvironment(p)
      BY <2>3, CreateProjectKeeps, ProjectNewKeeps, ProjectRenameKeeps, RemovalKeeps
    <2>4. CASE ReadSource(p, "header") \/ ReadSource(p, "append")
      BY <2>4, ReadSourceKeeps
    <2>5. CASE EmptySource(p) \/ WriteHeader(p) \/ AppendBlock(p) \/ WriteRelinked(p)
               \/ Relink(p) \/ Crash(p)
      BY <2>5, EmptySourceKeeps, WritesKeep, RelinkKeeps, CrashKeeps
    <2> QED
      BY <1>2, <2>1, <2>2, <2>3, <2>4, <2>5 DEF Step
  <1> QED
    BY <1>1, <1>2 DEF Next

LEMMA Invariance == Spec => []IInv
  BY Initially, Steps, PTL DEF Spec

-----------------------------------------------------------------------------
(* What follows.                                                           *)

\* Every project of this folder is named by its header, is about to be, or lost it
\* to a command that died, failed after the server acted or overlapped another
\* (push.rs).
THEOREM Linked == Spec => []LinkedOrExcused
  <1>1. IInv => LinkedOrExcused
    BY DEF IInv
  <1> QED
    BY <1>1, Invariance, PTL

-----------------------------------------------------------------------------
(* Types.                                                                  *)

\* The server has only projects somebody made, one being renamed among them.
Existing ==
  /\ \A s \in Projects : cloud[s] # NoProject => s \in made
  /\ \A p \in Procs : At(p, "relink") => Other \in made

TInv == TypeOK /\ Existing

LEMMA Constants ==
  /\ \A c \in Commands : /\ c.env \in Envs /\ c.key \in Keys /\ c.value \in Values
                         /\ c.erases \in BOOLEAN
  /\ Dev \in Envs /\ Slug \in Projects /\ Other \in Projects \ {Slug}
  /\ ".env" \in Files /\ Envs \subseteq Files
  /\ Nothing \in Contents /\ Nothing \in [Keys -> Text]
  <1>1. Other \in Projects \ {Slug}
    BY FolderAssumption DEF Other
  <1>2. Nothing \in Contents /\ Nothing \in [Keys -> Text]
    BY DEF Nothing, Contents, Stored, Text, Special
  <1> QED
    BY <1>1, <1>2, FolderAssumption, InputAssumption DEF Command, Files

LEMMA JobOf ==
  ASSUME TypeOK, NEW p \in Procs
  PROVE  /\ job[p] \in Job /\ DOMAIN job = Procs /\ job[p].cmd \in Commands
         /\ Env(p) \in Envs /\ Key(p) \in Keys /\ job[p].cmd.value \in Values
         /\ TargetFile(Env(p)) \in Files
         /\ job[p].text \in [Keys -> Text] /\ job[p].from \in [Keys -> Files]
         /\ job[p].keys \subseteq Keys /\ job[p].source \subseteq Keys
         /\ job[p].todo \subseteq Keys /\ job[p].acked \in [Keys -> Stored]
         /\ job[p].read \subseteq Files /\ job[p].stale \subseteq Files \cup {"schema"}
         /\ job[p].link \in Projects \cup {Unlinked}
  <1>1. job[p] \in Job /\ DOMAIN job = Procs
    BY DEF TypeOK
  <1>2. job[p].cmd \in Commands
    BY <1>1 DEF Job
  <1> QED
    BY <1>1, <1>2, Constants DEF Job, Env, Key, TargetFile

LEMMA GoesTyped ==
  ASSUME TypeOK, NEW p \in Procs, NEW pc \in Pcs, Goes(p, pc)
  PROVE  job' \in [Procs -> Job]
  <1> DEFINE to == [job[p] EXCEPT !.pc = pc, !.tries = 0]
  <1>1. job[p] \in Job /\ 0 \in 0..1
    BY JobOf
  <1>2. to \in Job
    BY <1>1 DEF Job
  <1>3. job' = [job EXCEPT ![p] = to]
    BY DEF Goes
  <1> HIDE DEF to
  <1> QED
    BY <1>2, <1>3 DEF TypeOK

LEMMA OvertakesTyped ==
  ASSUME NEW p \in Procs, NEW j \in [Procs -> Job], NEW what \in Files \cup {"schema"}
  PROVE  Overtakes(j, p, what) \in [Procs -> Job]
  <1>1. ASSUME NEW q \in Procs PROVE [j[q] EXCEPT !.stale = @ \cup {what}] \in Job
    <2>1. j[q] \in Job /\ j[q].stale \cup {what} \in SUBSET (Files \cup {"schema"})
      BY DEF Job
    <2> QED
      BY <2>1 DEF Job
  <1> QED
    BY <1>1 DEF Overtakes

\* A server's answer, or none, moves a request on (Attempt).
LEMMA TriesTyped ==
  ASSUME TypeOK, NEW p \in Procs, job' = [job EXCEPT ![p].tries = 1]
  PROVE  job' \in [Procs -> Job]
  <1>1. job[p] \in Job /\ 1 \in 0..1
    BY JobOf
  <1>2. [job[p] EXCEPT !.tries = 1] \in Job
    BY <1>1 DEF Job
  <1>3. job' = [job EXCEPT ![p] = [job[p] EXCEPT !.tries = 1]]
    OBVIOUS
  <1> QED
    BY <1>2, <1>3 DEF TypeOK

LEMMA OpenTyped == ASSUME TypeOK, NEW p \in Procs, Open(p) PROVE job' \in [Procs -> Job]
  <1>1. CASE Goes(p, "failed")
    BY <1>1, GoesTyped DEF Pcs
  <1>2. CASE ~Goes(p, "failed")
    <2> DEFINE to == [job[p] EXCEPT !.pc = "open", !.link = link, !.keys = declared]
    <2>1. job[p] \in Job /\ link \in Projects \cup {Unlinked} /\ declared \in SUBSET Keys
      BY DEF TypeOK
    <2>2. to \in Job
      BY <2>1 DEF Job, Pcs
    <2>3. job' = [job EXCEPT ![p] = to]
      BY <1>2 DEF Open
    <2> HIDE DEF to
    <2> QED
      BY <2>2, <2>3 DEF TypeOK
  <1> QED
    BY <1>1, <1>2

LEMMA ReadLayerTyped == ASSUME TypeOK, NEW p \in Procs, ReadLayer(p) PROVE job' \in [Procs -> Job]
  <1> DEFINE f    == IF At(p, "open") THEN ".env" ELSE Env(p)
             own  == {k \in Keys : file[f][k] \notin {"absent", "marker"}}
             pc   == IF At(p, "open") THEN "layers" ELSE "check"
             text == [k \in Keys |-> IF k \in own THEN file[f][k] ELSE job[p].text[k]]
             from == [k \in Keys |-> IF k \in own THEN f ELSE job[p].from[k]]
             to   == [job[p] EXCEPT !.pc = pc, !.read = job[p].read \cup {f},
                                    !.stale = job[p].stale \ {f}, !.text = text, !.from = from]
  <1>1. f \in Files /\ job[p] \in Job
    BY JobOf, Constants
  <1>2. pc \in Pcs
    BY DEF Pcs
  <1>3. text \in [Keys -> Text] /\ from \in [Keys -> Files]
    BY <1>1, JobOf DEF TypeOK
  <1>4. /\ job[p].read \cup {f} \in SUBSET Files
        /\ job[p].stale \ {f} \in SUBSET (Files \cup {"schema"})
    BY <1>1, JobOf
  <1>5. job' = [job EXCEPT ![p] = to]
    BY DEF ReadLayer
  <1> HIDE DEF f, pc, text, from
  <1>6. to \in Job
    BY <1>1, <1>2, <1>3, <1>4 DEF Job
  <1> HIDE DEF to
  <1> QED
    BY <1>5, <1>6 DEF TypeOK

LEMMA CheckTyped == ASSUME TypeOK, NEW p \in Procs, Check(p) PROVE job' \in [Procs -> Job]
  <1>1. CASE Goes(p, "failed")
    BY <1>1, GoesTyped DEF Pcs
  <1>2. CASE ~Goes(p, "failed")
    <2>1. job[p] \in Job /\ Payload(p) \in SUBSET Keys
      BY JobOf DEF Payload, Pushed
    <2>2. [job[p] EXCEPT !.pc = "account", !.todo = Payload(p)] \in Job
      BY <2>1 DEF Job, Pcs
    <2>3. job' = [job EXCEPT ![p] = [job[p] EXCEPT !.pc = "account", !.todo = Payload(p)]]
      BY <1>2 DEF Check
    <2> QED
      BY <2>2, <2>3 DEF TypeOK
  <1> QED
    BY <1>1, <1>2

\* A step that leaves its command at another place and another project.
LEMMA LinkTyped ==
  ASSUME TypeOK, NEW p \in Procs, NEW pc \in Pcs, NEW s \in Projects \cup {Unlinked},
         \/ job' = [job EXCEPT ![p].pc = pc, ![p].link = s]
         \/ job' = [job EXCEPT ![p].pc = pc, ![p].link = s, ![p].tries = 0]
  PROVE  job' \in [Procs -> Job]
  <1>1. job[p] \in Job /\ 0 \in 0..1
    BY JobOf
  <1>2. /\ [job[p] EXCEPT !.pc = pc, !.link = s] \in Job
        /\ [job[p] EXCEPT !.pc = pc, !.link = s, !.tries = 0] \in Job
    BY <1>1 DEF Job
  <1>3. \/ job' = [job EXCEPT ![p] = [job[p] EXCEPT !.pc = pc, !.link = s]]
        \/ job' = [job EXCEPT ![p] = [job[p] EXCEPT !.pc = pc, !.link = s, !.tries = 0]]
    OBVIOUS
  <1> QED
    BY <1>2, <1>3 DEF TypeOK

LEMMA ReadSourceTyped ==
  ASSUME TypeOK, NEW p \in Procs, NEW from, ReadSource(p, from)
  PROVE  job' \in [Procs -> Job]
  <1> DEFINE to == [job[p] EXCEPT !.pc = "write", !.source = declared,
                                  !.stale = job[p].stale \ {"schema"},
                                  !.link = IF Does(p, {"set"}) THEN link ELSE job[p].link]
  <1>1. /\ job[p] \in Job /\ declared \in SUBSET Keys
        /\ job[p].stale \ {"schema"} \in SUBSET (Files \cup {"schema"})
        /\ link \in Projects \cup {Unlinked} /\ job[p].link \in Projects \cup {Unlinked}
    BY JobOf DEF TypeOK
  <1>2. to \in Job
    BY <1>1 DEF Job, Pcs
  <1>3. job' = [job EXCEPT ![p] = to]
    BY DEF ReadSource
  <1> HIDE DEF to
  <1> QED
    BY <1>2, <1>3 DEF TypeOK

\* A step that goes on to `pc` and overtakes who read what it wrote.
LEMMA WroteTyped ==
  ASSUME TypeOK, NEW p \in Procs, NEW pc \in Pcs, NEW what \in Files \cup {"schema"},
         job' = Overtakes([job EXCEPT ![p].pc = pc], p, what)
  PROVE  job' \in [Procs -> Job]
  <1>1. job[p] \in Job
    BY JobOf
  <1>2. [job[p] EXCEPT !.pc = pc] \in Job
    BY <1>1 DEF Job
  <1>3. [job EXCEPT ![p].pc = pc] \in [Procs -> Job]
    BY <1>2 DEF TypeOK
  <1> QED
    BY <1>3, OvertakesTyped

\* A value, or none, is something the server can hold.
LEMMA PutTyped ==
  ASSUME TypeOK, NEW content \in Contents, NEW batch, NEW text \in [Keys -> Text], NEW prune
  PROVE  Put(content, batch, text, prune) \in Contents
  <1> DEFINE at(k) == IF k \notin batch THEN (IF prune THEN "absent" ELSE content[k])
                      ELSE IF text[k] \in Values THEN text[k]
                      ELSE IF content[k] = "absent" THEN "unset"
                      ELSE content[k]
  <1>1. \A k \in Keys : at(k) \in Stored
    BY DEF Contents, Stored
  <1>2. Put(content, batch, text, prune) = [k \in Keys |-> at(k)]
    BY DEF Put
  <1> HIDE DEF at
  <1> QED
    BY <1>1, <1>2 DEF Contents

LEMMA ReachableTyped ==
  ASSUME TypeOK, NEW p \in Procs, Reachable(p)
  PROVE  /\ Address(p) \in Projects /\ Env(p) \in Envs
         /\ cloud[Address(p)] \in [Envs -> Contents \cup {NoEnv}]
         /\ cloud[Address(p)][Env(p)] \in Contents
  <1>1. Address(p) \in Projects /\ Env(p) \in Envs
    BY JobOf DEF Reachable, Address
  <1>2. cloud[Address(p)] \in [Envs -> Contents \cup {NoEnv}]
    BY <1>1 DEF Reachable, TypeOK, Server
  <1> QED
    BY <1>1, <1>2 DEF Reachable

\* The server with one environment, or one project, changed.
LEMMA CloudTyped ==
  ASSUME TypeOK, NEW s \in Projects, NEW e \in Envs, NEW there \in Contents \cup {NoEnv},
         cloud[s] # NoProject, cloud' = [cloud EXCEPT ![s][e] = there]
  PROVE  cloud' \in Server
  <1>1. cloud[s] \in [Envs -> Contents \cup {NoEnv}]
    BY DEF TypeOK, Server
  <1>2. [cloud[s] EXCEPT ![e] = there] \in [Envs -> Contents \cup {NoEnv}]
    BY <1>1
  <1>3. cloud' = [cloud EXCEPT ![s] = [cloud[s] EXCEPT ![e] = there]]
    OBVIOUS
  <1> QED
    BY <1>2, <1>3 DEF TypeOK, Server

LEMMA ProjectTyped ==
  ASSUME TypeOK, NEW s \in Projects,
         NEW there \in [Envs -> Contents \cup {NoEnv}] \cup {NoProject},
         cloud' = [cloud EXCEPT ![s] = there]
  PROVE  cloud' \in Server
  BY DEF TypeOK, Server

\* A step of nobody's that is being renamed, and makes no project.
LEMMA Unmade ==
  ASSUME TInv, NEW p \in Procs, Alone(p), TypeOK', made \subseteq made',
         \A s \in Projects : cloud'[s] # NoProject => cloud[s] # NoProject \/ s \in made',
         job'[p].pc = "relink" => job[p].pc = "relink" \/ Other \in made'
  PROVE  TInv'
  <1>1. \A s \in Projects : cloud'[s] # NoProject => s \in made'
    BY DEF TInv, Existing
  <1>2. \A q \in Procs : job'[q].pc = "relink" => Other \in made'
    <2> TAKE q \in Procs
    <2>1. CASE q = p
      BY <2>1 DEF TInv, Existing, At
    <2>2. CASE q # p
      BY <2>2 DEF TInv, Existing, At, Alone
    <2> QED
      BY <2>1, <2>2
  <1> QED
    BY <1>1, <1>2 DEF TInv, Existing, At

LEMMA SendBatchTyped ==
  ASSUME TypeOK, NEW p \in Procs, SendBatch(p)
  PROVE  job' \in [Procs -> Job] /\ cloud' \in Server
  <1>1. job' \in [Procs -> Job]
    <2>1. CASE Goes(p, "failed")
      BY <2>1, GoesTyped DEF Pcs
    <2>2. CASE job' = [job EXCEPT ![p].tries = 1]
      BY <2>2, TriesTyped
    <2>3. CASE ~Goes(p, "failed") /\ job' # [job EXCEPT ![p].tries = 1]
      <3> DEFINE todo  == job[p].todo \ Batch(p)
                 acked == [k \in Keys |-> IF k \in Batch(p) /\ job[p].text[k] \in Values
                                          THEN job[p].text[k] ELSE job[p].acked[k]]
      <3>1. job' = [job EXCEPT ![p] = [job[p] EXCEPT !.tries = 0, !.todo = todo, !.acked = acked]]
        BY <2>3 DEF SendBatch, Attempt
      <3>2. todo \in SUBSET Keys /\ acked \in [Keys -> Stored] /\ job[p] \in Job /\ 0 \in 0..1
        BY JobOf DEF Stored
      <3> HIDE DEF todo, acked
      <3>3. [job[p] EXCEPT !.tries = 0, !.todo = todo, !.acked = acked] \in Job
        BY <3>2 DEF Job
      <3> QED
        BY <3>1, <3>3 DEF TypeOK
    <2> QED
      BY <2>1, <2>2, <2>3
  <1>2. cloud' \in Server
    <2>1. CASE UNCHANGED cloud
      BY <2>1 DEF TypeOK
    <2>2. CASE ~UNCHANGED cloud
      <3> DEFINE there == Put(cloud[Address(p)][Env(p)], Batch(p), job[p].text, job[p].cmd.erases)
      <3>1. Reachable(p) /\ cloud' = [cloud EXCEPT ![Address(p)][Env(p)] = there]
        BY <2>2 DEF SendBatch, Attempt
      <3>2. there \in Contents
        BY <3>1, ReachableTyped, JobOf, PutTyped
      <3>3. cloud[Address(p)] # NoProject
        BY <3>1 DEF Reachable
      <3> HIDE DEF there
      <3> QED
        BY <3>1, <3>2, <3>3, ReachableTyped, CloudTyped
    <2> QED
      BY <2>1, <2>2
  <1> QED
    BY <1>1, <1>2

LEMMA SetCloudTyped ==
  ASSUME TypeOK, NEW p \in Procs, SetCloud(p)
  PROVE  job' \in [Procs -> Job] /\ cloud' \in Server
  <1>1. job' \in [Procs -> Job]
    <2>1. \/ Goes(p, "failed") \/ Goes(p, "append") \/ Goes(p, "ended")
          \/ job' = [job EXCEPT ![p].tries = 1]
      BY DEF SetCloud, Attempt
    <2> QED
      BY <2>1, GoesTyped, TriesTyped DEF Pcs
  <1>2. cloud' \in Server
    <2>1. CASE UNCHANGED cloud
      BY <2>1 DEF TypeOK
    <2>2. CASE ~UNCHANGED cloud
      <3> DEFINE c     == cloud[Address(p)][Env(p)]
                 there == [c EXCEPT ![Key(p)] = Chosen(p)]
      <3>1. Reachable(p) /\ cloud' = [cloud EXCEPT ![Address(p)][Env(p)] = there]
        BY <2>2 DEF SetCloud, Attempt
      <3>2. c \in Contents /\ Key(p) \in Keys /\ Chosen(p) \in Stored
        BY <3>1, ReachableTyped, JobOf DEF Chosen, Stored
      <3>3. there \in Contents
        BY <3>2 DEF Contents
      <3>4. cloud[Address(p)] # NoProject
        BY <3>1 DEF Reachable
      <3> HIDE DEF there
      <3> QED
        BY <3>1, <3>3, <3>4, ReachableTyped, CloudTyped
    <2> QED
      BY <2>1, <2>2
  <1> QED
    BY <1>1, <1>2

LEMMA ChangeEnvironmentTyped ==
  ASSUME TypeOK, NEW p \in Procs, ChangeEnvironment(p)
  PROVE  job' \in [Procs -> Job] /\ cloud' \in Server
  <1>1. job' \in [Procs -> Job]
    BY GoesTyped DEF ChangeEnvironment, Pcs
  <1>2. CASE UNCHANGED cloud
    BY <1>1, <1>2 DEF TypeOK
  <1>3. CASE ~UNCHANGED cloud
    <2> DEFINE s == Address(p)
               old == cloud[s]
    <2>1. s \in Projects /\ old # NoProject /\ Env(p) \in Envs
      BY <1>3, JobOf DEF ChangeEnvironment, Address
    <2>2. old \in [Envs -> Contents \cup {NoEnv}]
      BY <2>1 DEF TypeOK, Server
    <2>3. \/ \E there \in Environments(p, old) : cloud' = [cloud EXCEPT ![s] = there]
          \/ \E e \in Envs : cloud' = [cloud EXCEPT ![s][e] = old[Env(p)], ![s][Env(p)] = NoEnv]
          \/ cloud' = [cloud EXCEPT ![s][Env(p)] = NoEnv]
      BY <1>3 DEF ChangeEnvironment
    <2> HIDE DEF s
    <2>4. CASE \E there \in Environments(p, old) : cloud' = [cloud EXCEPT ![s] = there]
      <3>1. PICK there \in Environments(p, old) : cloud' = [cloud EXCEPT ![s] = there]
        BY <2>4
      <3>2. PICK content \in Contents : there = [old EXCEPT ![Env(p)] = content]
        <4>1. CASE there = [old EXCEPT ![Env(p)] = Nothing]
          BY <4>1, Constants
        <4>2. CASE there # [old EXCEPT ![Env(p)] = Nothing]
          <5>1. PICK e : there = [old EXCEPT ![Env(p)] =
                           [k \in Keys |-> IF old[e][k] = "absent" THEN "absent" ELSE "unset"]]
            BY <4>2 DEF Environments
          <5>2. [k \in Keys |-> IF old[e][k] = "absent" THEN "absent" ELSE "unset"] \in Contents
            BY DEF Contents, Stored
          <5> QED
            BY <5>1, <5>2
        <4> QED
          BY <4>1, <4>2
      <3>3. there \in [Envs -> Contents \cup {NoEnv}]
        BY <2>1, <2>2, <3>2
      <3> QED
        BY <1>1, <2>1, <3>1, <3>3, ProjectTyped
    <2>5. CASE \E e \in Envs :
                 cloud' = [cloud EXCEPT ![s][e] = old[Env(p)], ![s][Env(p)] = NoEnv]
      <3>1. PICK e \in Envs :
              cloud' = [cloud EXCEPT ![s][e] = old[Env(p)], ![s][Env(p)] = NoEnv]
        BY <2>5
      <3> DEFINE there == [old EXCEPT ![e] = old[Env(p)], ![Env(p)] = NoEnv]
      <3>2. there \in [Envs -> Contents \cup {NoEnv}]
        BY <2>1, <2>2
      <3>3. cloud' = [cloud EXCEPT ![s] = there]
        BY <2>1, <3>1 DEF TypeOK, Server
      <3> HIDE DEF there
      <3> QED
        BY <1>1, <2>1, <3>2, <3>3, ProjectTyped
    <2>6. CASE cloud' = [cloud EXCEPT ![s][Env(p)] = NoEnv]
      BY <1>1, <2>1, <2>6, CloudTyped
    <2> QED
      BY <2>3, <2>4, <2>5, <2>6
  <1> QED
    BY <1>2, <1>3

LEMMA CreateProjectTyped ==
  ASSUME TInv, NEW p \in Procs, CreateProject(p)
  PROVE  job' \in [Procs -> Job] /\ cloud' \in Server /\ made' \subseteq Projects
         /\ excuse' \subseteq made' /\ made \subseteq made'
         /\ job'[p].pc # "relink"
         /\ \A s \in Projects : cloud'[s] # NoProject => cloud[s] # NoProject \/ s \in made'
  <1> DEFINE there == [e \in Envs |-> IF e \in {Dev, Env(p)} THEN Nothing ELSE NoEnv]
  <1>0. job[p].pc = "account" /\ job[p] \in Job /\ TypeOK
    BY JobOf DEF CreateProject, At, TInv
  <1>1. job' \in [Procs -> Job] /\ job'[p].pc # "relink"
    <2>1. CASE Goes(p, "failed")
      BY <1>0, <2>1, GoesTyped DEF Pcs, Goes, Job
    <2>2. CASE job' = [job EXCEPT ![p].tries = 1]
      BY <1>0, <2>2, TriesTyped DEF Job
    <2>3. CASE job' = [job EXCEPT ![p].pc = "header", ![p].link = Slug, ![p].tries = 0]
      <3>1. job' \in [Procs -> Job]
        BY <1>0, <2>3, LinkTyped, FolderAssumption DEF Pcs
      <3> QED
        BY <1>0, <2>3, <3>1 DEF Job
    <2> QED
      BY <2>1, <2>2, <2>3 DEF CreateProject, Attempt
  <1>2. there \in [Envs -> Contents \cup {NoEnv}]
    BY Constants
  <1>3. \/ UNCHANGED <<cloud, made>>
        \/ cloud' = [cloud EXCEPT ![Slug] = there] /\ made' = made \cup {Slug}
    BY DEF CreateProject, Attempt
  <1> HIDE DEF there
  <1>4. cloud' \in Server /\ made' \subseteq Projects /\ made \subseteq made'
    BY <1>0, <1>2, <1>3, ProjectTyped, FolderAssumption DEF TypeOK
  <1>5. \A s \in Projects : cloud'[s] # NoProject => cloud[s] # NoProject \/ s \in made'
    BY <1>0, <1>3 DEF TypeOK, Server
  <1>6. excuse' = excuse \/ (cloud'[Slug] # NoProject /\ excuse' = excuse \cup {Slug})
    BY DEF CreateProject
  <1>7. cloud'[Slug] # NoProject => Slug \in made'
    BY <1>4, <1>5, FolderAssumption DEF TInv, Existing
  <1> QED
    BY <1>0, <1>1, <1>4, <1>5, <1>6, <1>7 DEF TypeOK

LEMMA ProjectNewTyped ==
  ASSUME TInv, NEW p \in Procs, ProjectNew(p)
  PROVE  job' \in [Procs -> Job] /\ cloud' \in Server /\ made' \subseteq Projects
         /\ excuse' \subseteq made' /\ made \subseteq made'
         /\ \A s \in Projects : cloud'[s] # NoProject => cloud[s] # NoProject \/ s \in made'
  <1> DEFINE there == [e \in Envs |-> IF e = Dev THEN Nothing ELSE NoEnv]
  <1>0. TypeOK
    BY DEF TInv
  <1>1. job' \in [Procs -> Job]
    <2>1. \/ Goes(p, "failed") \/ Goes(p, "ended") \/ job' = [job EXCEPT ![p].tries = 1]
      BY DEF ProjectNew, Attempt
    <2> QED
      BY <1>0, <2>1, GoesTyped, TriesTyped DEF Pcs
  <1>2. there \in [Envs -> Contents \cup {NoEnv}]
    BY Constants
  <1>3. \/ UNCHANGED <<cloud, made, excuse>>
        \/ /\ cloud' = [cloud EXCEPT ![Slug] = there]
           /\ made' = made \cup {Slug} /\ excuse' = excuse \cup {Slug}
    BY DEF ProjectNew, Attempt
  <1> HIDE DEF there
  <1>4. cloud' \in Server
    BY <1>0, <1>2, <1>3, ProjectTyped, FolderAssumption DEF TypeOK
  <1>5. \A s \in Projects : cloud'[s] # NoProject => cloud[s] # NoProject \/ s \in made'
    BY <1>0, <1>3 DEF TypeOK, Server
  <1> QED
    BY <1>0, <1>1, <1>3, <1>4, <1>5, FolderAssumption DEF TypeOK

LEMMA ProjectRenameTyped ==
  ASSUME TInv, NEW p \in Procs, ProjectRename(p)
  PROVE  job' \in [Procs -> Job] /\ cloud' \in Server /\ made' \subseteq Projects
         /\ excuse' \subseteq made' /\ made \subseteq made'
         /\ (job'[p].pc = "relink" => Other \in made')
         /\ \A s \in Projects : cloud'[s] # NoProject => cloud[s] # NoProject \/ s \in made'
  <1>0. TypeOK /\ job[p] \in Job /\ job[p].pc = "open"
    BY JobOf DEF TInv, ProjectRename, At
  <1>1. CASE Goes(p, "failed") /\ UNCHANGED <<cloud, made, excuse>>
    <2>1. job' \in [Procs -> Job] /\ job'[p].pc = "failed"
      BY <1>0, <1>1, GoesTyped DEF Pcs, Goes, Job
    <2> QED
      BY <1>0, <1>1, <2>1 DEF TypeOK
  <1>2. CASE ~(Goes(p, "failed") /\ UNCHANGED <<cloud, made, excuse>>)
    <2>1. /\ cloud' = [cloud EXCEPT ![Other] = cloud[Slug], ![Slug] = NoProject]
          /\ made' = made \cup {Other} /\ excuse' \subseteq excuse \cup {Other}
          /\ \/ job' = [job EXCEPT ![p].pc = "relink", ![p].link = Other]
             \/ Goes(p, "failed")
      BY <1>2 DEF ProjectRename
    <2>2. job' \in [Procs -> Job]
      BY <1>0, <2>1, GoesTyped, LinkTyped, Constants DEF Pcs
    <2>3. cloud' \in Server
      BY <1>0, <2>1, Constants DEF TypeOK, Server
    <2>4. \A s \in Projects : cloud'[s] # NoProject => cloud[s] # NoProject \/ s \in made'
      BY <1>0, <2>1 DEF TypeOK, Server
    <2> QED
      BY <1>0, <2>1, <2>2, <2>3, <2>4, Constants DEF TypeOK
  <1> QED
    BY <1>1, <1>2

\* What a pull writes is a file.
LEMMA WrittenTyped ==
  ASSUME NEW content \in Contents, NEW env
  PROVE  Written(content, env) \in [Keys -> Text]
  <1> DEFINE at(k) == IF content[k] \notin Values THEN "absent"
                      ELSE IF env \in WriteOnly THEN "marker"
                      ELSE IF content[k] \in Unholdable THEN "absent"
                      ELSE content[k]
  <1>1. \A k \in Keys : at(k) \in Text
    BY DEF Text, Special
  <1>2. Written(content, env) = [k \in Keys |-> at(k)]
    BY DEF Written
  <1> HIDE DEF at
  <1> QED
    BY <1>1, <1>2

LEMMA TextTyped ==
  ASSUME TypeOK, NEW p \in Procs, Fetch(p) \/ SetLocal(p)
  PROVE  job' \in [Procs -> Job]
  <1>0. job[p] \in Job /\ TargetFile(Env(p)) \in Files /\ Key(p) \in Keys
    BY JobOf
  <1>1. CASE Goes(p, "failed")
    BY <1>1, GoesTyped DEF Pcs
  <1>2. CASE Fetch(p) /\ ~Goes(p, "failed")
    <2> DEFINE text == Written(cloud[Address(p)][Env(p)], Env(p))
               to   == [job[p] EXCEPT !.pc = "pushed", !.text = text]
    <2>1. Reachable(p) /\ job' = [job EXCEPT ![p] = to]
      BY <1>2 DEF Fetch
    <2>2. text \in [Keys -> Text]
      BY <2>1, ReachableTyped, WrittenTyped
    <2> HIDE DEF text
    <2>3. to \in Job
      BY <1>0, <2>2 DEF Job, Pcs
    <2> HIDE DEF to
    <2> QED
      BY <2>1, <2>3 DEF TypeOK
  <1>3. CASE SetLocal(p)
    <2> DEFINE f    == TargetFile(Env(p))
               text == [file[f] EXCEPT ![Key(p)] = Chosen(p)]
               to   == [job[p] EXCEPT !.pc = "pushed", !.stale = job[p].stale \ {f}, !.text = text]
    <2>1. job' = [job EXCEPT ![p] = to]
      BY <1>3 DEF SetLocal
    <2>2. Chosen(p) \in Text /\ file[f] \in [Keys -> Text]
      BY <1>0, JobOf DEF Chosen, Text, Special, TypeOK
    <2>3. text \in [Keys -> Text] /\ job[p].stale \ {f} \in SUBSET (Files \cup {"schema"})
      BY <1>0, <2>2, JobOf
    <2> HIDE DEF text, f
    <2>4. to \in Job
      BY <1>0, <2>3 DEF Job, Pcs
    <2> HIDE DEF to
    <2> QED
      BY <2>1, <2>4 DEF TypeOK
  <1> QED
    BY <1>1, <1>2, <1>3

LEMMA FilesTyped ==
  ASSUME TypeOK, NEW p \in Procs, RemoveFile(p) \/ WriteFile(p)
  PROVE  job' \in [Procs -> Job] /\ file' \in [Files -> [Keys -> Text]]
  <1>0. job[p] \in Job /\ TargetFile(Env(p)) \in Files /\ job[p].text \in [Keys -> Text]
        /\ job[p].read \subseteq Files
    BY JobOf
  <1>1. CASE Goes(p, "failed") \/ Goes(p, "ended")
    <2>1. job' \in [Procs -> Job]
      BY <1>1, GoesTyped DEF Pcs
    <2>2. file' \in [Files -> [Keys -> Text]]
      BY <1>0, Constants DEF RemoveFile, WriteFile, TypeOK
    <2> QED
      BY <2>1, <2>2
  <1>2. CASE RemoveFile(p) /\ ~Goes(p, "ended")
    <2>1. PICK f \in job[p].read :
            /\ file' = [file EXCEPT ![f] = Nothing] \/ UNCHANGED file
            /\ job' = Overtakes([job EXCEPT ![p].pc = "remove", ![p].read = @ \ {f}], p, f)
      BY <1>2 DEF RemoveFile
    <2> DEFINE j == [job EXCEPT ![p] = [job[p] EXCEPT !.pc = "remove", !.read = job[p].read \ {f}]]
    <2>2. [job[p] EXCEPT !.pc = "remove", !.read = job[p].read \ {f}] \in Job
      <3>1. job[p].read \ {f} \in SUBSET Files
        BY <1>0
      <3> QED
        BY <1>0, <3>1 DEF Job, Pcs
    <2>3. j \in [Procs -> Job] /\ job' = Overtakes(j, p, f)
      BY <2>1, <2>2 DEF TypeOK
    <2> HIDE DEF j
    <2>4. Overtakes(j, p, f) \in [Procs -> Job]
      <3>1. f \in Files \cup {"schema"}
        BY <1>0, <2>1
      <3> QED
        BY <2>3, <3>1, OvertakesTyped
    <2> QED
      BY <1>0, <2>1, <2>3, <2>4, Constants DEF TypeOK
  <1>3. CASE WriteFile(p) /\ ~Goes(p, "failed")
    <2>1. PICK pc \in Pcs : job' = Overtakes([job EXCEPT ![p].pc = pc], p, TargetFile(Env(p)))
      BY <1>3 DEF WriteFile, Pcs
    <2>2. job' \in [Procs -> Job]
      BY <1>0, <2>1, WroteTyped
    <2> QED
      BY <1>0, <1>3, <2>2 DEF WriteFile, TypeOK
  <1> QED
    BY <1>1, <1>2, <1>3

\* A step of the write of a schema.
Schema(p) == EmptySource(p) \/ WriteHeader(p) \/ AppendBlock(p) \/ WriteRelinked(p)

LEMMA SchemaSteps ==
  ASSUME NEW p \in Procs, Schema(p)
  PROVE  /\ UNCHANGED <<file, ignored, cloud, made>> /\ job[p].pc \in {"write", "emptied"}
         /\ \E pc \in {"emptied", "send", "account", "ended"} :
              job' = Overtakes([job EXCEPT ![p].pc = pc], p, "schema")
  <1>1. CASE EmptySource(p)
    BY <1>1 DEF EmptySource, Replace, At
  <1>2. CASE ~EmptySource(p)
    <2> PICK keys, pc : pc \in {"send", "account", "ended"} /\ WriteSource(p, keys, pc)
      BY <1>2, Writes DEF Schema
    <2> QED
      BY DEF WriteSource, Replace, At
  <1> QED
    BY <1>1, <1>2

LEMMA WritesTyped ==
  ASSUME TypeOK, NEW p \in Procs, Schema(p)
  PROVE  TypeOK'
  <1>0. /\ job[p].source \subseteq Keys /\ Key(p) \in Keys
        /\ job[p].link \in Projects \cup {Unlinked} /\ Other \in Projects
    BY JobOf, Constants
  <1>1. job' \in [Procs -> Job]
    <2>1. \E pc \in Pcs : job' = Overtakes([job EXCEPT ![p].pc = pc], p, "schema")
      BY SchemaSteps DEF Pcs
    <2> QED
      BY <2>1, WroteTyped
  <1>2. ASSUME NEW to, NEW keys \in SUBSET Keys, Replace(p, to, keys), to \in Projects \cup {Unlinked}
        PROVE  /\ link' \in Projects \cup {Unlinked} /\ declared' \subseteq Keys
               /\ excuse' \subseteq made /\ kept' \subseteq Keys
    BY <1>0, <1>2 DEF Replace, TypeOK
  <1>3. /\ link' \in Projects \cup {Unlinked} /\ declared' \subseteq Keys
        /\ excuse' \subseteq made /\ kept' \subseteq Keys
    <2>1. CASE EmptySource(p)
      BY <1>2, <2>1 DEF EmptySource
    <2>2. CASE WriteHeader(p) \/ WriteRelinked(p)
      BY <1>0, <1>2, <2>2 DEF WriteHeader, WriteRelinked, WriteSource
    <2>3. CASE AppendBlock(p)
      <3>1. Replace(p, job[p].link, job[p].source \cup {Key(p)})
        BY <2>3 DEF AppendBlock, WriteSource
      <3>2. job[p].source \cup {Key(p)} \in SUBSET Keys
        BY <1>0
      <3> QED
        BY <1>0, <1>2, <3>1, <3>2
    <2> QED
      BY <2>1, <2>2, <2>3 DEF Schema
  <1> QED
    BY <1>1, <1>3, SchemaSteps DEF TypeOK

LEMMA TInvInit == Init => TInv
  <1> SUFFICES ASSUME Init PROVE TInv
    OBVIOUS
  <1>1. job \in [Procs -> Job]
    <2>1. ASSUME NEW c \in Commands
          PROVE  [cmd |-> c, pc |-> "idle", link |-> Unlinked, keys |-> {}, source |-> {},
                  read |-> {}, text |-> Nothing, from |-> [k \in Keys |-> ".env"],
                  todo |-> {}, acked |-> Nothing, tries |-> 0, stale |-> {}] \in Job
      <3>1. [k \in Keys |-> ".env"] \in [Keys -> Files]
        BY Constants
      <3> QED
        BY <3>1, Constants DEF Job, Pcs, Contents
    <2> QED
      BY <2>1 DEF Init
  <1>2. TypeOK
    <2>1. /\ file \in [Files -> [Keys -> Text]] /\ link \in Projects \cup {Unlinked}
          /\ declared \subseteq Keys /\ cloud \in Server
      BY InputAssumption DEF Init
    <2> QED
      BY <1>1, <2>1 DEF Init, TypeOK
  <1>3. Existing
    <2>1. \A p \in Procs : job[p].pc = "idle"
      BY DEF Init
    <2> QED
      BY <2>1 DEF Init, Existing, At
  <1> QED
    BY <1>2, <1>3 DEF TInv

\* Every step touches only its own command, and tells others only that they are late.
LEMMA StepAlone ==
  ASSUME TInv, NEW p \in Procs, Step(p)
  PROVE  Alone(p)
  <1>0. job \in [Procs -> Job] /\ Typed
    <2>1. job \in [Procs -> Job] /\ DOMAIN cloud = Projects /\ made \subseteq Projects
      BY DEF TInv, TypeOK, Server
    <2>2. \A q \in Procs : DOMAIN job[q] = Fields
      BY <2>1 DEF Job, Fields
    <2> QED
      BY <2>1, <2>2 DEF Typed
  <1>1. CASE \E pc : Goes(p, pc)
    BY <1>0, <1>1, GoesFields
  <1>2. CASE job' = [job EXCEPT ![p].tries = 1]
    BY <1>0, <1>2 DEF Typed, Fields, Alone
  <1>3. CASE \E pc, what : job' = Overtakes([job EXCEPT ![p].pc = pc], p, what)
    <2>1. PICK pc, what : job' = Overtakes([job EXCEPT ![p].pc = pc], p, what)
      BY <1>3
    <2> DEFINE j == [job EXCEPT ![p].pc = pc]
    <2>2. /\ \A q \in Procs : DOMAIN j[q] = Fields /\ (q # p => j[q] = job[q])
          /\ j[p].cmd = job[p].cmd
      BY <1>0 DEF Typed, Fields
    <2>3. job' = Overtakes(j, p, what)
      BY <2>1
    <2> HIDE DEF j
    <2> QED
      BY <1>0, <2>2, <2>3, OvertakesFields DEF Typed
  <1>4. CASE RemoveFile(p) /\ ~Goes(p, "ended")
    <2>1. PICK f : job' = Overtakes([job EXCEPT ![p].pc = "remove", ![p].read = @ \ {f}], p, f)
      BY <1>4 DEF RemoveFile
    <2> DEFINE j == [job EXCEPT ![p].pc = "remove", ![p].read = @ \ {f}]
    <2>2. /\ \A q \in Procs : DOMAIN j[q] = Fields /\ (q # p => j[q] = job[q])
          /\ j[p].cmd = job[p].cmd
      BY <1>0 DEF Typed, Fields
    <2>3. job' = Overtakes(j, p, f)
      BY <2>1
    <2> HIDE DEF j
    <2> QED
      BY <1>0, <2>2, <2>3, OvertakesFields DEF Typed
  <1>6. CASE Open(p) \/ Link(p) \/ ProjectRename(p)
    <2>1. \/ \E pc : Goes(p, pc)
          \/ job' = [job EXCEPT ![p].pc = "open", ![p].link = link, ![p].keys = declared]
          \/ \E s : job' = [job EXCEPT ![p].pc = "header", ![p].link = s]
          \/ job' = [job EXCEPT ![p].pc = "relink", ![p].link = Other]
      BY <1>6 DEF Open, Link, ProjectRename
    <2> QED
      BY <1>0, <1>1, <2>1 DEF Typed, Fields, Alone
  <1>7. CASE Check(p) \/ CreateProject(p)
    <2>1. \/ \E pc : Goes(p, pc)
          \/ job' = [job EXCEPT ![p].tries = 1]
          \/ job' = [job EXCEPT ![p].pc = "account", ![p].todo = Payload(p)]
          \/ job' = [job EXCEPT ![p].pc = "header", ![p].link = Slug, ![p].tries = 0]
      BY <1>7 DEF Check, CreateProject, Attempt
    <2> QED
      BY <1>0, <1>1, <1>2, <2>1 DEF Typed, Fields, Alone
  <1>11. CASE SendBatch(p) /\ ~Goes(p, "failed") /\ job' # [job EXCEPT ![p].tries = 1]
    <2>1. PICK todo, acked :
            job' = [job EXCEPT ![p].tries = 0, ![p].todo = todo, ![p].acked = acked]
      BY <1>11 DEF SendBatch, Attempt
    <2> QED
      BY <1>0, <2>1 DEF Typed, Fields, Alone
  <1>12. CASE ReadLayer(p)
    <2> DEFINE f   == IF At(p, "open") THEN ".env" ELSE Env(p)
               own == {k \in Keys : file[f][k] \notin {"absent", "marker"}}
    <2>1. job' = [job EXCEPT
             ![p].pc   = IF At(p, "open") THEN "layers" ELSE "check",
             ![p].read = @ \cup {f},
             ![p].stale = @ \ {f},
             ![p].text = [k \in Keys |-> IF k \in own THEN file[f][k] ELSE @[k]],
             ![p].from = [k \in Keys |-> IF k \in own THEN f ELSE @[k]]]
      BY <1>12 DEF ReadLayer
    <2> HIDE DEF f, own
    <2> QED
      BY <1>0, <2>1 DEF Typed, Fields, Alone
  <1>13. CASE Fetch(p) /\ ~Goes(p, "failed")
    <2>1. PICK text : job' = [job EXCEPT ![p].pc = "pushed", ![p].text = text]
      BY <1>13 DEF Fetch
    <2> QED
      BY <1>0, <2>1 DEF Typed, Fields, Alone
  <1>14. CASE SetLocal(p)
    <2>1. PICK stale, text :
            job' = [job EXCEPT ![p].pc = "pushed", ![p].stale = stale, ![p].text = text]
      BY <1>14 DEF SetLocal
    <2> QED
      BY <1>0, <2>1 DEF Typed, Fields, Alone
  <1>8. CASE \E from : ReadSource(p, from)
    <2>1. \E ks, ss, s : job' = [job EXCEPT ![p].pc = "write", ![p].source = ks, ![p].stale = ss,
                                            ![p].link = s]
      BY <1>8 DEF ReadSource
    <2> QED
      BY <1>0, <2>1 DEF Typed, Fields, Alone
  <1>9. CASE EnsureEnvironment(p) \/ Ignore(p) \/ SetCloud(p) \/ ProjectNew(p) \/ ProjectRm(p)
             \/ ChangeEnvironment(p) \/ Crash(p) \/ (Relink(p) /\ ~ReadSource(p, "relink"))
    <2>1. (\E pc : Goes(p, pc)) \/ job' = [job EXCEPT ![p].tries = 1]
      BY <1>9 DEF EnsureEnvironment, Ignore, SetCloud, ProjectNew, ProjectRm, ChangeEnvironment,
                  Crash, Relink, Attempt
    <2> QED
      BY <1>1, <1>2, <2>1
  <1>10. CASE Schema(p) \/ WriteFile(p)
    <2>1. \/ \E pc : Goes(p, pc)
          \/ \E pc, what : job' = Overtakes([job EXCEPT ![p].pc = pc], p, what)
      BY <1>10, SchemaSteps DEF WriteFile
    <2> QED
      BY <1>1, <1>3, <2>1
  <1> QED
    BY <1>1, <1>2, <1>4, <1>6, <1>7, <1>8, <1>9, <1>10, <1>11, <1>12, <1>13, <1>14 DEF Step, Schema

\* Where a step that renames nothing leaves its command.
LEMMA NotRelinking ==
  ASSUME TypeOK, NEW p \in Procs, Step(p), ~ProjectRename(p), job[p].pc # "relink"
  PROVE  job'[p].pc # "relink"
  <1>0. job[p] \in Job /\ DOMAIN job = Procs
    BY JobOf
  <1>1. CASE Open(p) \/ Link(p) \/ Check(p) \/ CreateProject(p)
    <2>1. \/ Goes(p, "failed") \/ Goes(p, "account")
          \/ job' = [job EXCEPT ![p].tries = 1]
          \/ job' = [job EXCEPT ![p].pc = "open", ![p].link = link, ![p].keys = declared]
          \/ \E s : job' = [job EXCEPT ![p].pc = "header", ![p].link = s]
          \/ job' = [job EXCEPT ![p].pc = "account", ![p].todo = Payload(p)]
          \/ job' = [job EXCEPT ![p].pc = "header", ![p].link = Slug, ![p].tries = 0]
      BY <1>1 DEF Open, Link, Check, CreateProject, Attempt
    <2> QED
      BY <1>0, <2>1 DEF Job, Goes
  <1>2. CASE SendBatch(p)
    <2>1. \/ Goes(p, "failed") \/ job' = [job EXCEPT ![p].tries = 1]
          \/ \E todo, acked :
               job' = [job EXCEPT ![p].tries = 0, ![p].todo = todo, ![p].acked = acked]
      <3>1. CASE ~Goes(p, "failed") /\ job' # [job EXCEPT ![p].tries = 1]
        BY <1>2, <3>1 DEF SendBatch, Attempt
      <3> QED
        BY <3>1
    <2> QED
      BY <1>0, <2>1 DEF Job, Goes
  <1>3. CASE ReadLayer(p)
    <2>1. job'[p].pc \in {"layers", "check"}
      <3> DEFINE f   == IF At(p, "open") THEN ".env" ELSE Env(p)
                 own == {k \in Keys : file[f][k] \notin {"absent", "marker"}}
      <3>1. job' = [job EXCEPT
               ![p].pc   = IF At(p, "open") THEN "layers" ELSE "check",
               ![p].read = @ \cup {f},
               ![p].stale = @ \ {f},
               ![p].text = [k \in Keys |-> IF k \in own THEN file[f][k] ELSE @[k]],
               ![p].from = [k \in Keys |-> IF k \in own THEN f ELSE @[k]]]
        BY <1>3 DEF ReadLayer
      <3> HIDE DEF f, own
      <3> QED
        BY <1>0, <3>1 DEF Job
    <2> QED
      BY <2>1
  <1>4. CASE Fetch(p) \/ SetLocal(p)
    <2>1. \/ Goes(p, "failed")
          \/ \E text : job' = [job EXCEPT ![p].pc = "pushed", ![p].text = text]
          \/ \E stale, text :
               job' = [job EXCEPT ![p].pc = "pushed", ![p].stale = stale, ![p].text = text]
      <3>1. CASE Fetch(p) /\ ~Goes(p, "failed")
        BY <3>1 DEF Fetch
      <3>2. CASE SetLocal(p)
        BY <3>2 DEF SetLocal
      <3> QED
        BY <1>4, <3>1, <3>2
    <2> QED
      BY <1>0, <2>1 DEF Job, Goes
  <1>5. CASE \E from : ReadSource(p, from)
    BY <1>0, <1>5 DEF ReadSource, Job
  <1>6. CASE EnsureEnvironment(p) \/ Ignore(p) \/ SetCloud(p) \/ ProjectNew(p) \/ ProjectRm(p)
             \/ ChangeEnvironment(p) \/ Crash(p) \/ (Relink(p) /\ ~ReadSource(p, "relink"))
    <2>1. \/ \E pc \in {"failed", "ended", "send", "append"} : Goes(p, pc)
          \/ job' = [job EXCEPT ![p].tries = 1]
      BY <1>6 DEF EnsureEnvironment, Ignore, SetCloud, ProjectNew, ProjectRm, ChangeEnvironment,
                  Crash, Relink, Attempt
    <2> QED
      BY <1>0, <2>1 DEF Job, Goes
  <1>7. CASE Schema(p) \/ WriteFile(p)
    <2>1. \/ Goes(p, "failed")
          \/ \E pc \in {"emptied", "send", "account", "ended", "ignore"} : \E what :
               job' = Overtakes([job EXCEPT ![p].pc = pc], p, what)
      BY <1>7, SchemaSteps DEF WriteFile
    <2> QED
      BY <1>0, <2>1 DEF Job, Goes, Overtakes
  <1>8. CASE RemoveFile(p)
    <2>1. \/ Goes(p, "ended")
          \/ \E f : job' = Overtakes([job EXCEPT ![p].pc = "remove", ![p].read = @ \ {f}], p, f)
      BY <1>8 DEF RemoveFile
    <2> QED
      BY <1>0, <2>1 DEF Job, Goes, Overtakes
  <1> QED
    BY <1>1, <1>2, <1>3, <1>4, <1>5, <1>6, <1>7, <1>8 DEF Step, Schema

LEMMA TInvStep ==
  ASSUME TInv, NEW p \in Procs, Step(p)
  PROVE  TInv'
  <1>0. TypeOK /\ Alone(p) /\ excuse \subseteq made
    BY StepAlone DEF TInv, TypeOK
  <1>1. TypeOK' /\ made \subseteq made'
        /\ \A s \in Projects : cloud'[s] # NoProject => cloud[s] # NoProject \/ s \in made'
    <2>1. CASE Open(p) \/ ReadLayer(p) \/ Check(p) \/ EnsureEnvironment(p) \/ Link(p)
               \/ Fetch(p) \/ SetLocal(p)
      <3>1. UNCHANGED <<file, link, declared, ignored, cloud, made, excuse, kept>>
        BY <2>1 DEF Open, ReadLayer, Check, EnsureEnvironment, Link, Fetch, SetLocal
      <3>2. job' \in [Procs -> Job]
        <4>1. CASE EnsureEnvironment(p) \/ Link(p)
          <5>1. \/ \E pc \in Pcs : Goes(p, pc)
                \/ \E s \in Projects : job' = [job EXCEPT ![p].pc = "header", ![p].link = s]
            BY <4>1 DEF EnsureEnvironment, Link, Pcs
          <5> QED
            BY <1>0, <5>1, GoesTyped, LinkTyped DEF Pcs
        <4> QED
          BY <1>0, <2>1, <4>1, OpenTyped, ReadLayerTyped, CheckTyped, TextTyped
      <3> QED
        BY <1>0, <3>1, <3>2 DEF TypeOK
    <2>2. CASE CreateProject(p)
      <3>1. UNCHANGED <<file, link, declared, ignored, kept>>
        BY <2>2 DEF CreateProject
      <3> QED
        BY <1>0, <2>2, <3>1, CreateProjectTyped DEF TypeOK
    <2>3. CASE ReadSource(p, "header") \/ ReadSource(p, "append") \/ Relink(p)
      <3>1. CASE \E from : ReadSource(p, from)
        <4>1. job' \in [Procs -> Job] /\ UNCHANGED <<file, link, declared, ignored, cloud, made, excuse, kept>>
          BY <1>0, <3>1, ReadSourceTyped DEF ReadSource
        <4> QED
          BY <1>0, <4>1 DEF TypeOK
      <3>2. CASE Relink(p) /\ ~ReadSource(p, "relink")
        <4>1. /\ At(p, "relink") /\ Goes(p, "ended") /\ excuse' = excuse \cup {Other}
              /\ UNCHANGED <<file, link, declared, ignored, cloud, made, kept>>
          BY <3>2 DEF Relink
        <4>2. job' \in [Procs -> Job] /\ Other \in made
          BY <1>0, <4>1, GoesTyped DEF Pcs, TInv, Existing
        <4> QED
          BY <1>0, <4>1, <4>2 DEF TypeOK
      <3> QED
        BY <2>3, <3>1, <3>2
    <2>4. CASE Schema(p)
      <3>1. UNCHANGED <<cloud, made>>
        BY <2>4, SchemaSteps
      <3> QED
        BY <1>0, <2>4, <3>1, WritesTyped
    <2>5. CASE SendBatch(p) \/ SetCloud(p) \/ ChangeEnvironment(p) \/ ProjectRm(p)
      <3>1. UNCHANGED <<file, link, declared, ignored, made, excuse, kept>>
        BY <2>5 DEF SendBatch, SetCloud, ChangeEnvironment, ProjectRm
      <3>2. job' \in [Procs -> Job] /\ cloud' \in Server
        <4>1. CASE ProjectRm(p)
          <5>1. job' \in [Procs -> Job]
            BY <1>0, <4>1, GoesTyped DEF ProjectRm, Pcs
          <5>2. cloud' \in Server
            BY <1>0, <4>1 DEF ProjectRm, TypeOK, Server
          <5> QED
            BY <5>1, <5>2
        <4> QED
          BY <1>0, <2>5, <4>1, SendBatchTyped, SetCloudTyped, ChangeEnvironmentTyped
      <3>3. \A s \in Projects : cloud'[s] # NoProject => cloud[s] # NoProject
        <4>1. CASE UNCHANGED cloud \/ cloud' = [cloud EXCEPT ![Slug] = NoProject]
          BY <1>0, <4>1 DEF TypeOK, Server
        <4>2. CASE ~(UNCHANGED cloud \/ cloud' = [cloud EXCEPT ![Slug] = NoProject])
          <5>1. cloud[Address(p)] # NoProject
            BY <2>5, <4>2 DEF SendBatch, SetCloud, ChangeEnvironment, ProjectRm, Reachable, Attempt
          <5>2. \A s : s # Address(p) => cloud'[s] = cloud[s] \/ s \notin Projects
            <6>1. CASE SendBatch(p) \/ SetCloud(p)
              <7>1. PICK x : cloud' = [cloud EXCEPT ![Address(p)] = x]
                BY <4>2, <6>1 DEF SendBatch, SetCloud, Attempt
              <7> QED
                BY <1>0, <7>1 DEF TypeOK, Server
            <6>2. CASE ChangeEnvironment(p)
              <7>1. PICK x, y : \/ cloud' = [cloud EXCEPT ![Address(p)] = x]
                                \/ cloud' = [[cloud EXCEPT ![Address(p)] = x] EXCEPT ![Address(p)] = y]
                BY <4>2, <6>2 DEF ChangeEnvironment
              <7> QED
                BY <1>0, <7>1 DEF TypeOK, Server
            <6>3. CASE ProjectRm(p)
              BY <4>2, <6>3 DEF ProjectRm
            <6> QED
              BY <2>5, <6>1, <6>2, <6>3
          <5> QED
            BY <5>1, <5>2
        <4> QED
          BY <4>1, <4>2
      <3> QED
        BY <1>0, <3>1, <3>2, <3>3 DEF TypeOK
    <2>6. CASE RemoveFile(p) \/ WriteFile(p)
      <3>1. UNCHANGED <<link, declared, ignored, cloud, made, excuse, kept>>
        BY <2>6 DEF RemoveFile, WriteFile
      <3> QED
        BY <1>0, <2>6, <3>1, FilesTyped DEF TypeOK
    <2>7. CASE Ignore(p)
      <3>1. /\ UNCHANGED <<file, link, declared, cloud, made, excuse, kept>> /\ ignored' = TRUE
            /\ Goes(p, "append") \/ Goes(p, "ended")
        BY <2>7 DEF Ignore
      <3>2. job' \in [Procs -> Job]
        BY <1>0, <3>1, GoesTyped DEF Pcs
      <3> QED
        BY <1>0, <3>1, <3>2 DEF TypeOK
    <2>8. CASE ProjectNew(p) \/ ProjectRename(p)
      <3>1. UNCHANGED <<file, link, declared, ignored, kept>>
        BY <2>8 DEF ProjectNew, ProjectRename
      <3> QED
        BY <1>0, <2>8, <3>1, ProjectNewTyped, ProjectRenameTyped DEF TypeOK
    <2>9. CASE Crash(p)
      <3>1. /\ UNCHANGED <<file, link, declared, ignored, cloud, made>> /\ Goes(p, "failed")
            /\ excuse' \subseteq excuse \cup made /\ kept' \subseteq kept
        BY <2>9 DEF Crash
      <3>2. job' \in [Procs -> Job]
        BY <1>0, <3>1, GoesTyped DEF Pcs
      <3> QED
        BY <1>0, <3>1, <3>2 DEF TypeOK
    <2> QED
      BY <2>1, <2>2, <2>3, <2>4, <2>5, <2>6, <2>7, <2>8, <2>9 DEF Step, Schema
  <1>2. job'[p].pc = "relink" => job[p].pc = "relink" \/ Other \in made'
    BY <1>0, NotRelinking, ProjectRenameTyped
  <1> QED
    BY <1>0, <1>1, <1>2, Unmade

LEMMA TInvariance == Spec => []TInv
  <1>1. TInv /\ [Next]_vars => TInv'
    <2> SUFFICES ASSUME TInv, [Next]_vars PROVE TInv'
      OBVIOUS
    <2>1. CASE UNCHANGED vars
      BY <2>1 DEF vars, TInv, TypeOK, Existing, At
    <2>2. CASE Next
      BY <2>2, TInvStep DEF Next
    <2> QED
      BY <2>1, <2>2
  <1> QED
    BY <1>1, TInvInit, PTL DEF Spec

\* The folder, the server and the commands keep their types, whatever the keys,
\* projects and commands (push.rs, pull.rs, set.rs, project.rs, environment.rs).
THEOREM Typing == Spec => []TypeOK
  <1>1. TInv => TypeOK
    BY DEF TInv
  <1> QED
    BY <1>1, TInvariance, PTL

-----------------------------------------------------------------------------
(* What is declared stays declared.                                        *)

\* A step that leaves the schema alone, by a command that has not emptied it.
LEMMA KeptElsewhere ==
  ASSUME NEW p \in Procs, Alone(p), DeclarationsKept, job[p].pc # "emptied",
         UNCHANGED <<declared, kept>>
  PROVE  DeclarationsKept'
  <1> SUFFICES ASSUME NEW k \in kept', k \notin declared'
               PROVE  \E q \in Procs : job'[q].pc = "emptied" /\ k \in job'[q].source
    BY DEF DeclarationsKept, At
  <1> PICK q \in Procs : job[q].pc = "emptied" /\ k \in job[q].source
    BY DEF DeclarationsKept, At
  <1> QED
    BY DEF Alone

LEMMA KeptStep ==
  ASSUME TInv, IInv, NEW p \in Procs, Step(p), DeclarationsKept
  PROVE  DeclarationsKept'
  <1>0. Alone(p)
    BY StepAlone
  \* Who covers a key that is not declared covers it still, p apart.
  <1>1. ASSUME NEW k \in kept, k \notin declared
        PROVE  \/ job[p].pc = "emptied" /\ k \in job[p].source
               \/ \E q \in Procs : job'[q].pc = "emptied" /\ k \in job'[q].source
    <2> PICK q \in Procs : job[q].pc = "emptied" /\ k \in job[q].source
      BY <1>1 DEF DeclarationsKept, At
    <2> QED
      BY <1>0 DEF Alone
  <1>2. CASE EmptySource(p)
    <2>1. /\ job[p].pc = "write" /\ declared' = {}
          /\ kept' = (IF "schema" \in job[p].stale THEN kept \cap job[p].source ELSE kept) \cup {}
          /\ job' = Overtakes([job EXCEPT ![p].pc = "emptied"], p, "schema")
      BY <1>2 DEF EmptySource, Replace, At
    <2>2. job'[p].pc = "emptied" /\ job'[p].source = job[p].source
      BY <2>1, Wrote DEF IInv
    <2>3. "schema" \in job[p].stale \/ declared = job[p].source
      BY <2>1 DEF IInv, Writing
    <2> SUFFICES ASSUME NEW k \in kept'
                 PROVE  \E q \in Procs : job'[q].pc = "emptied" /\ k \in job'[q].source
      BY DEF DeclarationsKept, At
    <2>4. CASE k \in job[p].source
      BY <2>2, <2>4
    <2>5. CASE k \notin job[p].source
      BY <1>1, <2>1, <2>3, <2>5
    <2> QED
      BY <2>4, <2>5
  <1>3. CASE WriteHeader(p) \/ AppendBlock(p) \/ WriteRelinked(p)
    <2> PICK keys, pc : job[p].source \subseteq keys /\ WriteSource(p, keys, pc)
      BY <1>3, Writes
    <2>1. /\ job[p].pc = "emptied" /\ declared' = keys
          /\ kept' = (IF "schema" \in job[p].stale THEN kept \cap job[p].source ELSE kept) \cup keys
      BY DEF WriteSource, Replace, At
    <2>2. "schema" \in job[p].stale \/ declared = {}
      BY <2>1 DEF IInv, Writing
    <2> SUFFICES ASSUME NEW k \in kept', k \notin keys
                 PROVE  \E q \in Procs : job'[q].pc = "emptied" /\ k \in job'[q].source
      BY <2>1 DEF DeclarationsKept, At
    <2> QED
      BY <1>1, <2>1, <2>2
  <1>4. CASE Crash(p)
    <2>1. /\ declared' = declared
          /\ kept' = IF job[p].pc = "emptied" THEN kept \ (job[p].source \ declared) ELSE kept
      BY <1>4 DEF Crash, At
    <2> SUFFICES ASSUME NEW k \in kept', k \notin declared
                 PROVE  \E q \in Procs : job'[q].pc = "emptied" /\ k \in job'[q].source
      BY <2>1 DEF DeclarationsKept, At
    <2> QED
      BY <1>1, <2>1
  <1>5. CASE ~Schema(p) /\ ~Crash(p)
    <2>1. UNCHANGED <<declared, kept>> /\ job[p].pc # "emptied"
      <3>1. CASE Open(p) \/ ReadLayer(p) \/ Check(p) \/ EnsureEnvironment(p) \/ CreateProject(p)
                 \/ SendBatch(p) \/ RemoveFile(p) \/ Link(p) \/ Fetch(p) \/ WriteFile(p) \/ Ignore(p)
        BY <3>1 DEF Open, ReadLayer, Check, EnsureEnvironment, CreateProject, SendBatch, RemoveFile,
                    Link, Fetch, WriteFile, Ignore, At
      <3>2. CASE SetLocal(p) \/ SetCloud(p) \/ ProjectNew(p) \/ ProjectRename(p) \/ Relink(p)
                 \/ ProjectRm(p) \/ ChangeEnvironment(p)
                 \/ ReadSource(p, "header") \/ ReadSource(p, "append")
        BY <3>2 DEF SetLocal, SetCloud, ProjectNew, ProjectRename, Relink, ProjectRm,
                    ChangeEnvironment, ReadSource, At
      <3> QED
        BY <1>5, <3>1, <3>2 DEF Step, Schema
    <2> QED
      BY <1>0, <2>1, KeptElsewhere
  <1> QED
    BY <1>2, <1>3, <1>4, <1>5 DEF Schema

\* Every key the schema ever declared it still declares, or a command that emptied the
\* file is about to write it back, unless a write was cut short between its two halves
\* or overlapped another's (push.rs, set.rs, files.rs).
THEOREM Declared == Spec => []DeclarationsKept
  <1> DEFINE KInv == TInv /\ IInv /\ DeclarationsKept
  <1>1. Init => KInv
    <2>1. Init => DeclarationsKept
      BY DEF Init, DeclarationsKept
    <2> QED
      BY <2>1, TInvInit, Initially
  <1>2. KInv /\ [Next]_vars => KInv'
    <2> SUFFICES ASSUME KInv, [Next]_vars PROVE KInv'
      OBVIOUS
    <2>1. IInv'
      BY Steps
    <2>2. CASE UNCHANGED vars
      BY <2>1, <2>2 DEF vars, TInv, TypeOK, Existing, DeclarationsKept, At
    <2>3. CASE Next
      BY <2>1, <2>3, TInvStep, KeptStep DEF Next
    <2> QED
      BY <2>2, <2>3
  <1> QED
    BY <1>1, <1>2, PTL DEF Spec

-----------------------------------------------------------------------------
(* A push: what it read, what the server took, what is left to send.       *)

\* What a push has read is what it sends, but where the file is not the one it read.
AsRead(q) ==
  \A f \in job[q].read \ job[q].stale, k \in Keys :
    file[f][k] \in Values \cup {"broken"} /\ job[q].from[k] = f => job[q].text[k] = file[f][k]

\* Every value is still to send or taken; one that prunes is one request.
Accounted(q) ==
  /\ \A k \in Pushed(q) :
       job[q].text[k] \in Values /\ (k \in job[q].todo \/ job[q].acked[k] = job[q].text[k])
  /\ job[q].cmd.erases =>
       Cardinality(Payload(q)) <= MaxBatch /\ job[q].todo \in {{}, Payload(q)}

Checked == {"account", "header", "write", "emptied", "send", "remove"}

Pushing(q) ==
  LET op == job[q].cmd.op IN
  /\ job[q].read # {} => op = "push" /\ job[q].pc \notin {"idle", "open"}
  /\ job[q].pc \in {"layers", "check", "send", "remove"} => op = "push"
  /\ job[q].pc \in {"pushed", "ignore", "append", "relink"} => op # "push"
  /\ op = "push" /\ job[q].pc \in Checked => Accounted(q)
  /\ Running(q) => AsRead(q)

PInv == TInv /\ IInv /\ \A q \in Procs : Pushing(q)

\* What another's step leaves a command with: a file it read may be another's now.
Beside(q) ==
  /\ job'[q].cmd = job[q].cmd /\ job'[q].pc = job[q].pc /\ job'[q].keys = job[q].keys
  /\ job'[q].read = job[q].read /\ job'[q].text = job[q].text /\ job'[q].from = job[q].from
  /\ job'[q].todo = job[q].todo /\ job'[q].acked = job[q].acked
  /\ job[q].stale \subseteq job'[q].stale
  /\ \A f \in Files : file'[f] # file[f] /\ Running(q) => f \in job'[q].stale

LEMMA BesideKeeps ==
  ASSUME TypeOK, NEW q \in Procs, Beside(q), Pushing(q)
  PROVE  Pushing(q)'
  <1>1. Accounted(q) => Accounted(q)'
    BY DEF Beside, Accounted, Pushed, Payload
  <1>2. Running(q)' => AsRead(q)'
    <2> SUFFICES ASSUME Running(q)', NEW f \in job'[q].read \ job'[q].stale, NEW k \in Keys,
                        file'[f][k] \in Values \cup {"broken"}, job'[q].from[k] = f
                 PROVE  job'[q].text[k] = file'[f][k]
      BY DEF AsRead
    <2>1. Running(q) /\ f \in job[q].read \ job[q].stale /\ f \in Files
      BY JobOf DEF Beside, Running
    <2>2. file'[f] = file[f]
      BY <2>1 DEF Beside
    <2> QED
      BY <2>1, <2>2 DEF Beside, Pushing, AsRead
  <1> QED
    BY <1>1, <1>2 DEF Beside, Pushing

LEMMA OvertakenBeside ==
  ASSUME TypeOK, NEW p \in Procs, NEW q \in Procs \ {p}, NEW j \in [Procs -> Job], NEW what,
         j[q] = job[q], job' = Overtakes(j, p, what),
         \A f \in Files : file'[f] # file[f] => f = what
  PROVE  Beside(q)
  <1>1. job[q] \in Job
    BY JobOf
  <1>2. job'[q] = IF Running(q) THEN [job[q] EXCEPT !.stale = job[q].stale \cup {what}] ELSE job[q]
    BY DEF Overtakes
  <1> QED
    BY <1>1, <1>2 DEF Beside, Job

LEMMA StepBeside ==
  ASSUME TypeOK, NEW p \in Procs, NEW q \in Procs \ {p}, Step(p)
  PROVE  Beside(q)
  <1>0. job \in [Procs -> Job] /\ job[p] \in Job /\ TargetFile(Env(p)) \in Files
        /\ job[p].read \subseteq Files /\ file \in [Files -> [Keys -> Text]]
    BY JobOf DEF TypeOK
  <1>1. CASE job'[q] = job[q] /\ file' = file
    BY <1>1 DEF Beside
  <1>2. CASE Open(p) \/ Check(p) \/ EnsureEnvironment(p) \/ CreateProject(p) \/ SendBatch(p)
             \/ Link(p) \/ Fetch(p) \/ Ignore(p) \/ SetLocal(p) \/ SetCloud(p)
    <2>1. file' = file
      BY <1>2 DEF Open, Check, EnsureEnvironment, CreateProject, SendBatch, Link, Fetch, Ignore,
                  SetLocal, SetCloud
    <2>2. job'[q] = job[q]
      BY <1>2, <1>0 DEF Open, Check, EnsureEnvironment, CreateProject, SendBatch, Link, Fetch, Ignore,
                  SetLocal, SetCloud, Attempt, Goes
    <2> QED
      BY <1>1, <2>1, <2>2
  <1>3. CASE ReadLayer(p) \/ (\E from : ReadSource(p, from)) \/ ProjectNew(p) \/ ProjectRename(p)
             \/ Relink(p) \/ ProjectRm(p) \/ ChangeEnvironment(p) \/ Crash(p)
    <2>1. file' = file
      BY <1>3 DEF ReadLayer, ReadSource, ProjectNew, ProjectRename, Relink, ProjectRm,
                  ChangeEnvironment, Crash
    <2>2. job'[q] = job[q]
      BY <1>3, <1>0 DEF ReadLayer, ReadSource, ProjectNew, ProjectRename, Relink, ProjectRm,
                  ChangeEnvironment, Crash, Attempt, Goes
    <2> QED
      BY <1>1, <2>1, <2>2
  <1>4. CASE \E pc \in {"failed", "ended"} : Goes(p, pc) /\ file' = file
    <2>1. job'[q] = job[q]
      BY <1>0, <1>4 DEF Goes
    <2> QED
      BY <1>1, <1>4, <2>1
  <1>5. CASE Schema(p)
    <2>1. /\ file' = file
          /\ \E pc \in {"emptied", "send", "account", "ended"} :
               job' = Overtakes([job EXCEPT ![p].pc = pc], p, "schema")
      BY <1>5, SchemaSteps
    <2>2. PICK pc \in {"emptied", "send", "account", "ended"} :
               job' = Overtakes([job EXCEPT ![p].pc = pc], p, "schema")
      BY <2>1
    <2> DEFINE j == [job EXCEPT ![p].pc = pc]
    <2>3. [job[p] EXCEPT !.pc = pc] \in Job
      BY <1>0 DEF Job, Pcs
    <2>4. j \in [Procs -> Job] /\ j[q] = job[q] /\ job' = Overtakes(j, p, "schema")
      BY <1>0, <2>2, <2>3
    <2> HIDE DEF j
    <2> QED
      BY <2>1, <2>4, OvertakenBeside
  <1>6. CASE WriteFile(p) /\ ~(Goes(p, "failed") /\ file' = file)
    <2> DEFINE f == TargetFile(Env(p))
    <2>1. /\ file' = [file EXCEPT ![f] = job[p].text]
          /\ \E pc \in {"ended", "ignore"} : job' = Overtakes([job EXCEPT ![p].pc = pc], p, f)
      BY <1>6 DEF WriteFile
    <2>2. PICK pc \in {"ended", "ignore"} : job' = Overtakes([job EXCEPT ![p].pc = pc], p, f)
      BY <2>1
    <2> DEFINE j == [job EXCEPT ![p].pc = pc]
    <2>3. [job[p] EXCEPT !.pc = pc] \in Job
      BY <1>0 DEF Job, Pcs
    <2>4. j \in [Procs -> Job] /\ j[q] = job[q] /\ job' = Overtakes(j, p, f)
      BY <1>0, <2>2, <2>3
    <2>5. \A g \in Files : file'[g] # file[g] => g = f
      BY <1>0, <2>1
    <2> HIDE DEF j, f
    <2> QED
      BY <2>4, <2>5, OvertakenBeside
  <1>7. CASE RemoveFile(p) /\ ~(Goes(p, "ended") /\ file' = file)
    <2>1. PICK f \in job[p].read :
            /\ file' = [file EXCEPT ![f] = Nothing] \/ file' = file
            /\ job' = Overtakes([job EXCEPT ![p].pc = "remove", ![p].read = @ \ {f}], p, f)
      BY <1>7 DEF RemoveFile
    <2> DEFINE j == [job EXCEPT ![p].pc = "remove", ![p].read = @ \ {f}]
    <2>2. job[p].read \ {f} \in SUBSET Files
      BY <1>0
    <2>3. [job[p] EXCEPT !.pc = "remove", !.read = job[p].read \ {f}] \in Job
      BY <1>0, <2>2 DEF Job, Pcs
    <2>4. j \in [Procs -> Job] /\ j[q] = job[q] /\ job' = Overtakes(j, p, f)
      BY <1>0, <2>1, <2>3
    <2>5. \A g \in Files : file'[g] # file[g] => g = f
      BY <1>0, <2>1
    <2> HIDE DEF j
    <2> QED
      BY <2>4, <2>5, OvertakenBeside
  <1> QED
    BY <1>2, <1>3, <1>4, <1>5, <1>6, <1>7 DEF Step, Schema

\* A command that is done, or that never pushes, has nothing to account for.
LEMMA OverKeeps ==
  ASSUME NEW p \in Procs, Pushing(p), job'[p].cmd = job[p].cmd, job'[p].read = job[p].read,
         job'[p].pc \in {"failed", "ended"}
  PROVE  Pushing(p)'
  BY DEF Pushing, Running, Checked

LEMMA OtherOpKeeps ==
  ASSUME NEW p \in Procs, Pushing(p), job'[p].cmd = job[p].cmd, job'[p].read = job[p].read,
         job[p].cmd.op # "push", job'[p].pc \notin {"layers", "check", "send", "remove"}
  PROVE  Pushing(p)'
  <1>1. job'[p].read = {}
    BY DEF Pushing
  <1> QED
    BY <1>1 DEF Pushing, AsRead

\* What a push goes on with.
LEMMA PassKeeps ==
  ASSUME NEW p \in Procs, Pushing(p), job[p].cmd.op = "push", UNCHANGED file,
         job'[p].cmd = job[p].cmd, job'[p].keys = job[p].keys, job'[p].read = job[p].read,
         job'[p].text = job[p].text, job'[p].from = job[p].from,
         job'[p].todo = job[p].todo, job'[p].acked = job[p].acked,
         job[p].stale \subseteq job'[p].stale \cup {"schema"}, job[p].read \subseteq Files,
         job[p].pc \in Checked, job'[p].pc \in Checked
  PROVE  Pushing(p)'
  <1>1. Accounted(p)'
    BY DEF Pushing, Accounted, Pushed, Payload
  <1>2. AsRead(p)'
    <2>1. job'[p].read \ job'[p].stale \subseteq job[p].read \ job[p].stale
      BY NameAssumption
    <2>2. AsRead(p)
      BY DEF Pushing, Running, Checked
    <2> QED
      BY <2>1, <2>2 DEF AsRead
  <1> QED
    BY <1>1, <1>2 DEF Pushing, Checked

-----------------------------------------------------------------------------
(* The keys of a push, in requests of MaxBatch.                            *)

LEMMA FiniteKeys == IsFiniteSet(Keys)
  <1> DEFINE n == Len(KeySeq)
  <1>1. n \in Nat /\ KeySeq \in [1..n -> Keys] /\ DOMAIN KeySeq = 1..n
    BY InputAssumption
  <1>2. KeySeq \in Surjection(1..n, Keys)
    BY <1>1 DEF Surjection, Keys, Range
  <1>3. IsFiniteSet(1..n)
    BY <1>1, FS_Interval
  <1> QED
    BY <1>2, <1>3, FS_Surjection

\* What fits in one request goes in one.
LEMMA BatchWhole ==
  ASSUME NEW p, job[p].todo \subseteq Keys, Cardinality(job[p].todo) <= MaxBatch
  PROVE  Batch(p) = job[p].todo
  <1> DEFINE todo == job[p].todo
  <1> SUFFICES ASSUME NEW k \in todo
               PROVE  Cardinality({j \in todo : Before(j, k)}) < MaxBatch
    BY DEF Batch
  <1> DEFINE ahead == {j \in todo : Before(j, k)}
  <1>1. IsFiniteSet(todo) /\ Cardinality(todo) \in Nat
    BY FiniteKeys, FS_Subset, FS_CardinalityType
  <1>2. ~Before(k, k)
    <2> SUFFICES ASSUME NEW m \in DOMAIN KeySeq, NEW n \in DOMAIN KeySeq,
                        m < n, KeySeq[m] = k, KeySeq[n] = k
                 PROVE  FALSE
      BY DEF Before
    <2>1. m = n
      BY InputAssumption DEF IsInjective
    <2>2. DOMAIN KeySeq \subseteq Nat
      BY InputAssumption
    <2> QED
      BY <2>1, <2>2
  <1>3. ahead \in SUBSET (todo \ {k})
    BY <1>2
  <1>4. /\ IsFiniteSet(todo \ {k}) /\ Cardinality(todo \ {k}) = Cardinality(todo) - 1
    BY <1>1, FS_RemoveElement
  <1> HIDE DEF ahead, todo
  <1>5. IsFiniteSet(ahead) /\ Cardinality(ahead) <= Cardinality(todo \ {k})
    BY <1>3, <1>4, FS_Subset
  <1>6. Cardinality(ahead) \in Nat /\ MaxBatch \in Nat
    BY <1>5, FS_CardinalityType, FolderAssumption
  <1>7. Cardinality(todo) <= MaxBatch
    BY DEF todo
  <1> QED
    BY <1>1, <1>4, <1>5, <1>6, <1>7 DEF ahead, todo

-----------------------------------------------------------------------------
(* A push's own steps.                                                     *)


LEMMA OpenPushing ==
  ASSUME TypeOK, NEW p \in Procs, Pushing(p), Alone(p), Open(p) \/ Link(p) \/ EnsureEnvironment(p)
  PROVE  Pushing(p)'
  <1>0. job[p] \in Job /\ DOMAIN job = Procs /\ job[p].read \subseteq Files
    BY JobOf
  <1>1. job'[p].cmd = job[p].cmd /\ UNCHANGED file
    BY DEF Alone, Open, Link, EnsureEnvironment
  <1>2. CASE Open(p) \/ Link(p)
    <2>1. /\ job'[p].read = job[p].read /\ job[p].pc \in {"idle", "open"}
          /\ \/ job'[p].pc \in {"failed", "open"}
             \/ job'[p].pc \in {"account", "header"} /\ job[p].cmd.op # "push"
      <3>1. \/ Goes(p, "failed")
            \/ job' = [job EXCEPT ![p].pc = "open", ![p].link = link, ![p].keys = declared]
            \/ Goes(p, "account") /\ job[p].cmd.op = "pull"
            \/ (\E s : job' = [job EXCEPT ![p].pc = "header", ![p].link = s]) /\ job[p].cmd.op = "pull"
        BY <1>2 DEF Open, Link, Does
      <3>2. job[p].pc \in {"idle", "open"}
        BY <1>2 DEF Open, Link, At
      <3> QED
        BY <1>0, <3>1, <3>2 DEF Goes, Job
    <2>2. CASE job'[p].pc = "open" /\ job[p].pc = "idle"
      <3>1. job'[p].stale = job[p].stale /\ job'[p].text = job[p].text /\ job'[p].from = job[p].from
        <4>1. job' = [job EXCEPT ![p].pc = "open", ![p].link = link, ![p].keys = declared]
          BY <1>0, <2>2, <1>2 DEF Open, Link, At, Goes, Job
        <4> QED
          BY <1>0, <4>1 DEF Job
      <3>2. job[p].read = {}
        BY <2>2 DEF Pushing
      <3> QED
        BY <1>1, <2>1, <2>2, <3>1, <3>2 DEF Pushing, AsRead, Checked
    <2>3. CASE job'[p].pc = "open" /\ job[p].pc = "open"
      BY <1>0, <1>2, <2>3 DEF Open, Link, At, Goes, Job
    <2> QED
      BY <1>1, <2>1, <2>2, <2>3, OverKeeps, OtherOpKeeps
  <1>3. CASE EnsureEnvironment(p)
    <2>1. /\ job[p].pc = "account" /\ job[p].cmd.op = "push"
          /\ Goes(p, "send") \/ Goes(p, "failed")
      BY <1>3 DEF EnsureEnvironment, At, Does
    <2>2. /\ job'[p].pc \in {"send", "failed"} /\ job'[p].keys = job[p].keys
          /\ job'[p].read = job[p].read /\ job'[p].text = job[p].text /\ job'[p].from = job[p].from
          /\ job'[p].todo = job[p].todo /\ job'[p].acked = job[p].acked
          /\ job'[p].stale = job[p].stale
      BY <1>0, <2>1 DEF Goes, Job
    <2> QED
      BY <1>0, <1>1, <2>1, <2>2, PassKeeps, OverKeeps DEF Checked
  <1> QED
    BY <1>2, <1>3

LEMMA ReadLayerPushing ==
  ASSUME TypeOK, NEW p \in Procs, Pushing(p), ReadLayer(p)
  PROVE  Pushing(p)'
  <1> DEFINE f    == IF At(p, "open") THEN ".env" ELSE Env(p)
             own  == {k \in Keys : file[f][k] \notin {"absent", "marker"}}
             pc   == IF At(p, "open") THEN "layers" ELSE "check"
             text == [k \in Keys |-> IF k \in own THEN file[f][k] ELSE job[p].text[k]]
             from == [k \in Keys |-> IF k \in own THEN f ELSE job[p].from[k]]
  <1>0. /\ job[p] \in Job /\ DOMAIN job = Procs /\ job[p].read \subseteq Files
        /\ job[p].cmd.op = "push" /\ job[p].pc \in {"open", "layers"} /\ UNCHANGED file
    BY JobOf DEF ReadLayer, Does
  <1>1. job' = [job EXCEPT ![p].pc = pc, ![p].read = job[p].read \cup {f},
                           ![p].stale = job[p].stale \ {f},
                           ![p].text = text, ![p].from = from]
    BY DEF ReadLayer
  <1>2. pc \in {"layers", "check"}
    OBVIOUS
  <1> HIDE DEF f, own, pc, text, from
  <1>3. /\ job'[p].cmd = job[p].cmd /\ job'[p].pc = pc
        /\ job'[p].read = job[p].read \cup {f} /\ job'[p].stale = job[p].stale \ {f}
        /\ job'[p].text = text /\ job'[p].from = from
    BY <1>0, <1>1 DEF Job
  <1>4. AsRead(p)'
    <2> SUFFICES ASSUME NEW g \in (job[p].read \cup {f}) \ (job[p].stale \ {f}), NEW k \in Keys,
                        file[g][k] \in Values \cup {"broken"}, from[k] = g
                 PROVE  text[k] = file[g][k]
      BY <1>0, <1>3 DEF AsRead
    <2>1. file[g][k] \notin {"absent", "marker"}
      BY NameAssumption DEF Special
    <2>2. CASE k \in own
      BY <2>2 DEF from, text
    <2>3. CASE k \notin own
      <3>1. g # f /\ job[p].from[k] = g /\ text[k] = job[p].text[k]
        BY <2>1, <2>3 DEF from, text, own
      <3>2. AsRead(p)
        BY <1>0 DEF Pushing, Running
      <3> QED
        BY <3>1, <3>2 DEF AsRead
    <2> QED
      BY <2>2, <2>3
  <1> QED
    BY <1>0, <1>2, <1>3, <1>4 DEF Pushing, Checked

LEMMA CheckPushing ==
  ASSUME TypeOK, NEW p \in Procs, Pushing(p), Check(p)
  PROVE  Pushing(p)'
  <1>0. /\ job[p] \in Job /\ DOMAIN job = Procs /\ job[p].text \in [Keys -> Text]
        /\ job[p].cmd.op = "push" /\ job[p].pc = "check" /\ UNCHANGED file
    BY JobOf DEF Check, At, Pushing
  <1>1. CASE Goes(p, "failed")
    <2>1. job'[p].cmd = job[p].cmd /\ job'[p].read = job[p].read /\ job'[p].pc = "failed"
      BY <1>0, <1>1 DEF Goes, Job
    <2> QED
      BY <2>1, OverKeeps
  <1>2. CASE ~Goes(p, "failed")
    <2>1. Sendable(p) /\ job' = [job EXCEPT ![p].pc = "account", ![p].todo = Payload(p)]
      BY <1>2 DEF Check
    <2>2. /\ job'[p].cmd = job[p].cmd /\ job'[p].pc = "account" /\ job'[p].keys = job[p].keys
          /\ job'[p].read = job[p].read /\ job'[p].stale = job[p].stale
          /\ job'[p].text = job[p].text /\ job'[p].from = job[p].from
          /\ job'[p].todo = Payload(p) /\ job'[p].acked = job[p].acked
      BY <1>0, <2>1 DEF Job
    <2>3. Pushed(p)' = Pushed(p) /\ Payload(p)' = Payload(p)
      BY <2>2 DEF Pushed, Payload
    <2>4. \A k \in Pushed(p) : job[p].text[k] \in Values /\ k \in Payload(p)
      BY <2>1 DEF Sendable, Pushed, Payload
    <2>5. job[p].cmd.erases => Cardinality(Payload(p)) <= MaxBatch
      BY <2>1 DEF Sendable, Prunable
    <2>6. Accounted(p)'
      BY <2>2, <2>3, <2>4, <2>5 DEF Accounted
    <2>7. AsRead(p)'
      BY <1>0, <2>2 DEF Pushing, Running, AsRead
    <2> QED
      BY <1>0, <2>2, <2>6, <2>7 DEF Pushing, Checked
  <1> QED
    BY <1>1, <1>2

\* The request that makes the project, the header and the schema under it.
LEMMA HeaderPushing ==
  ASSUME TypeOK, NEW p \in Procs, Pushing(p), job[p].cmd.op = "push",
         CreateProject(p) \/ (\E from \in Checked : ReadSource(p, from))
           \/ EmptySource(p) \/ WriteHeader(p)
  PROVE  Pushing(p)'
  <1>0. /\ job[p] \in Job /\ DOMAIN job = Procs /\ job[p].read \subseteq Files
    BY JobOf
  <1>1. UNCHANGED file
    BY SchemaSteps DEF CreateProject, ReadSource, Schema
  <1>2. CASE \E pc : Goes(p, pc) /\ pc = "failed"
    <2>1. job'[p].cmd = job[p].cmd /\ job'[p].read = job[p].read /\ job'[p].pc = "failed"
      BY <1>0, <1>2 DEF Goes, Job
    <2> QED
      BY <2>1, OverKeeps
  <1>3. CASE CreateProject(p) /\ ~Goes(p, "failed")
    <2>1. /\ job[p].pc = "account"
          /\ \/ job' = [job EXCEPT ![p].tries = 1]
             \/ job' = [job EXCEPT ![p].pc = "header", ![p].link = Slug, ![p].tries = 0]
      BY <1>3 DEF CreateProject, Attempt, At
    <2>2. /\ job'[p].cmd = job[p].cmd /\ job'[p].pc \in {"account", "header"}
          /\ job'[p].keys = job[p].keys /\ job'[p].read = job[p].read
          /\ job'[p].text = job[p].text /\ job'[p].from = job[p].from
          /\ job'[p].todo = job[p].todo /\ job'[p].acked = job[p].acked
          /\ job'[p].stale = job[p].stale
      BY <1>0, <2>1 DEF Job
    <2> QED
      BY <1>0, <1>1, <2>1, <2>2, PassKeeps DEF Checked
  <1>4. CASE \E from \in Checked : ReadSource(p, from)
    <2> DEFINE to == IF Does(p, {"set"}) THEN link ELSE job[p].link
    <2>1. PICK from \in Checked : ReadSource(p, from)
      BY <1>4
    <2>2. /\ job[p].pc = from
          /\ job' = [job EXCEPT ![p].pc = "write", ![p].source = declared,
                                ![p].stale = job[p].stale \ {"schema"}, ![p].link = to]
      BY <2>1 DEF ReadSource, At
    <2> HIDE DEF to
    <2>3. /\ job'[p].cmd = job[p].cmd /\ job'[p].pc = "write"
          /\ job'[p].keys = job[p].keys /\ job'[p].read = job[p].read
          /\ job'[p].text = job[p].text /\ job'[p].from = job[p].from
          /\ job'[p].todo = job[p].todo /\ job'[p].acked = job[p].acked
          /\ job'[p].stale = job[p].stale \ {"schema"}
      BY <1>0, <2>2 DEF Job
    <2> QED
      BY <1>0, <1>1, <2>2, <2>3, PassKeeps DEF Checked
  <1>5. CASE EmptySource(p) \/ WriteHeader(p)
    <2>1. /\ job[p].pc \in {"write", "emptied"}
          /\ \E pc \in {"emptied", "send"} : job' = Overtakes([job EXCEPT ![p].pc = pc], p, "schema")
      BY <1>5 DEF EmptySource, WriteHeader, WriteSource, At, HeaderThen, Does
    <2> PICK pc \in {"emptied", "send"} : job' = Overtakes([job EXCEPT ![p].pc = pc], p, "schema")
      BY <2>1
    <2>2. job'[p] = [job[p] EXCEPT !.pc = pc]
      BY <1>0 DEF Overtakes
    <2>3. /\ job'[p].cmd = job[p].cmd /\ job'[p].pc = pc
          /\ job'[p].keys = job[p].keys /\ job'[p].read = job[p].read
          /\ job'[p].text = job[p].text /\ job'[p].from = job[p].from
          /\ job'[p].todo = job[p].todo /\ job'[p].acked = job[p].acked
          /\ job'[p].stale = job[p].stale
      BY <1>0, <2>2 DEF Job
    <2> QED
      BY <1>0, <1>1, <2>1, <2>3, PassKeeps DEF Checked
  <1> QED
    BY <1>2, <1>3, <1>4, <1>5

\* An answered request: its values are taken, and one that prunes was the only one.
LEMMA SendBatchPushing ==
  ASSUME TypeOK, NEW p \in Procs, Pushing(p), SendBatch(p)
  PROVE  Pushing(p)'
  <1>0. /\ job[p] \in Job /\ DOMAIN job = Procs /\ job[p].read \subseteq Files
        /\ job[p].cmd.op = "push" /\ job[p].pc = "send" /\ UNCHANGED file
        /\ job[p].todo \subseteq Keys
    BY JobOf DEF SendBatch, At, Pushing, Job
  <1>1. CASE Goes(p, "failed")
    <2>1. job'[p].cmd = job[p].cmd /\ job'[p].read = job[p].read /\ job'[p].pc = "failed"
      BY <1>0, <1>1 DEF Goes, Job
    <2> QED
      BY <2>1, OverKeeps
  <1>2. CASE job' = [job EXCEPT ![p].tries = 1]
    <2>1. /\ job'[p].cmd = job[p].cmd /\ job'[p].pc = job[p].pc
          /\ job'[p].keys = job[p].keys /\ job'[p].read = job[p].read
          /\ job'[p].text = job[p].text /\ job'[p].from = job[p].from
          /\ job'[p].todo = job[p].todo /\ job'[p].acked = job[p].acked
          /\ job'[p].stale = job[p].stale
      BY <1>0, <1>2 DEF Job
    <2> QED
      BY <1>0, <2>1, PassKeeps DEF Checked
  <1>3. CASE ~Goes(p, "failed") /\ job' # [job EXCEPT ![p].tries = 1]
    <2> DEFINE todo  == job[p].todo \ Batch(p)
               acked == [k \in Keys |-> IF k \in Batch(p) /\ job[p].text[k] \in Values
                                        THEN job[p].text[k] ELSE job[p].acked[k]]
    <2>1. job' = [job EXCEPT ![p].tries = 0, ![p].todo = todo, ![p].acked = acked]
      BY <1>3 DEF SendBatch, Attempt
    <2>2. Accounted(p) /\ AsRead(p)
      BY <1>0 DEF Pushing, Checked, Running
    <2>3. \A k \in Keys : acked[k] = IF k \in Batch(p) /\ job[p].text[k] \in Values
                                     THEN job[p].text[k] ELSE job[p].acked[k]
      OBVIOUS
    <2>4. \A k \in todo : k \in job[p].todo /\ k \notin Batch(p)
      OBVIOUS
    <2>5. \A k \in job[p].todo : k \in todo \/ k \in Batch(p)
      OBVIOUS
    <2>6. job[p].cmd.erases => todo = {}
      <3> SUFFICES ASSUME job[p].cmd.erases PROVE todo = {}
        OBVIOUS
      <3>1. Cardinality(Payload(p)) <= MaxBatch /\ job[p].todo \in {{}, Payload(p)}
        BY <2>2 DEF Accounted
      <3>2. CASE job[p].todo = {}
        BY <3>2
      <3>3. CASE job[p].todo = Payload(p)
        BY <1>0, <3>1, <3>3, BatchWhole
      <3> QED
        BY <3>1, <3>2, <3>3
    <2> HIDE DEF todo, acked
    <2>7. /\ job'[p].cmd = job[p].cmd /\ job'[p].pc = "send" /\ job'[p].keys = job[p].keys
          /\ job'[p].read = job[p].read /\ job'[p].stale = job[p].stale
          /\ job'[p].text = job[p].text /\ job'[p].from = job[p].from
          /\ job'[p].todo = todo /\ job'[p].acked = acked
      BY <1>0, <2>1 DEF Job
    <2>8. Pushed(p)' = Pushed(p) /\ Payload(p)' = Payload(p)
      BY <2>7 DEF Pushed, Payload
    <2>9. \A k \in Pushed(p) :
            job[p].text[k] \in Values /\ (k \in todo \/ acked[k] = job[p].text[k])
      <3> SUFFICES ASSUME NEW k \in Pushed(p)
                   PROVE  job[p].text[k] \in Values /\ (k \in todo \/ acked[k] = job[p].text[k])
        OBVIOUS
      <3>1. k \in Keys /\ job[p].text[k] \in Values
            /\ (k \in job[p].todo \/ job[p].acked[k] = job[p].text[k])
        BY <2>2 DEF Accounted, Pushed
      <3> QED
        BY <2>3, <2>5, <3>1
    <2>10. Accounted(p)'
      BY <2>2, <2>6, <2>7, <2>8, <2>9 DEF Accounted
    <2>11. AsRead(p)'
      BY <1>0, <2>2, <2>7 DEF AsRead
    <2> QED
      BY <1>0, <2>7, <2>10, <2>11 DEF Pushing, Checked
  <1> QED
    BY <1>1, <1>2, <1>3

LEMMA RemoveFilePushing ==
  ASSUME TypeOK, NEW p \in Procs, Pushing(p), RemoveFile(p)
  PROVE  Pushing(p)'
  <1>0. /\ job[p] \in Job /\ DOMAIN job = Procs /\ job[p].read \subseteq Files
        /\ job[p].cmd.op = "push" /\ job[p].pc \in {"send", "remove"}
        /\ file \in [Files -> [Keys -> Text]]
    BY JobOf DEF RemoveFile, Does, TypeOK
  <1>1. CASE Goes(p, "ended")
    <2>1. job'[p].cmd = job[p].cmd /\ job'[p].read = job[p].read /\ job'[p].pc = "ended"
      BY <1>0, <1>1 DEF Goes, Job
    <2> QED
      BY <2>1, OverKeeps
  <1>2. CASE ~Goes(p, "ended")
    <2>1. PICK f \in job[p].read :
            /\ file' = [file EXCEPT ![f] = Nothing] \/ file' = file
            /\ job' = Overtakes([job EXCEPT ![p].pc = "remove", ![p].read = @ \ {f}], p, f)
      BY <1>2 DEF RemoveFile
    <2>2. job'[p] = [job[p] EXCEPT !.pc = "remove", !.read = job[p].read \ {f}]
      BY <1>0, <2>1 DEF Overtakes
    <2>3. /\ job'[p].cmd = job[p].cmd /\ job'[p].pc = "remove" /\ job'[p].keys = job[p].keys
          /\ job'[p].read = job[p].read \ {f} /\ job'[p].stale = job[p].stale
          /\ job'[p].text = job[p].text /\ job'[p].from = job[p].from
          /\ job'[p].todo = job[p].todo /\ job'[p].acked = job[p].acked
      BY <1>0, <2>2 DEF Job
    <2>4. Accounted(p) /\ AsRead(p)
      BY <1>0 DEF Pushing, Checked, Running
    <2>5. Accounted(p)'
      BY <2>3, <2>4 DEF Accounted, Pushed, Payload
    <2>6. \A g \in job'[p].read : g \in job[p].read /\ file'[g] = file[g]
      BY <1>0, <2>1, <2>3
    <2>7. AsRead(p)'
      BY <2>3, <2>4, <2>6 DEF AsRead
    <2> QED
      BY <1>0, <2>3, <2>5, <2>7 DEF Pushing, Checked
  <1> QED
    BY <1>1, <1>2

\* The commands that do not push.
LEMMA OtherPushing ==
  ASSUME TypeOK, NEW p \in Procs, Pushing(p), Step(p), Alone(p), job[p].cmd.op # "push",
         ~Open(p), ~Crash(p), ~EnsureEnvironment(p)
  PROVE  Pushing(p)'
  <1>0. /\ job[p] \in Job /\ DOMAIN job = Procs /\ job'[p].cmd = job[p].cmd
        /\ job[p].pc \notin {"layers", "check", "send", "remove"}
    BY JobOf DEF Alone, Pushing
  <1>1. /\ ~ReadLayer(p) /\ ~Check(p) /\ ~CreateProject(p) /\ ~SendBatch(p) /\ ~RemoveFile(p)
    BY <1>0 DEF ReadLayer, Check, CreateProject, SendBatch, RemoveFile, Does, At
  <1> DEFINE Left == job'[p].read = job[p].read /\ job'[p].pc \notin {"layers", "check", "send", "remove"}
  <1> SUFFICES Left
    BY <1>0, OtherOpKeeps
  <1>2. ASSUME NEW pc \in {"failed", "account", "append", "ended"}, Goes(p, pc) PROVE Left
    BY <1>0, <1>2 DEF Goes, Job
  <1>3. ASSUME job' = [job EXCEPT ![p].tries = 1] PROVE Left
    BY <1>0, <1>3 DEF Job
  <1>4. CASE (\E from : ReadSource(p, from)) \/ Relink(p)
    <2>1. CASE \E from : ReadSource(p, from)
      BY <1>0, <2>1 DEF ReadSource, Job
    <2>2. CASE ~\E from : ReadSource(p, from)
      BY <1>2, <1>4, <2>2 DEF Relink
    <2> QED
      BY <2>1, <2>2
  <1>5. CASE Schema(p) \/ WriteFile(p)
    <2>1. CASE Goes(p, "failed")
      BY <1>2, <2>1
    <2>2. CASE ~Goes(p, "failed")
      <3>1. PICK pc \in {"emptied", "account", "ended", "ignore"} : \E what :
              job' = Overtakes([job EXCEPT ![p].pc = pc], p, what)
        <4>1. CASE WriteHeader(p)
          <5>1. job' = Overtakes([job EXCEPT ![p].pc = "account"], p, "schema")
            BY <1>0, <4>1 DEF WriteHeader, WriteSource, HeaderThen, Does
          <5> QED
            BY <5>1
        <4>2. CASE EmptySource(p) \/ AppendBlock(p) \/ WriteRelinked(p)
          <5>1. \/ job' = Overtakes([job EXCEPT ![p].pc = "emptied"], p, "schema")
                \/ job' = Overtakes([job EXCEPT ![p].pc = "ended"], p, "schema")
            BY <4>2 DEF EmptySource, AppendBlock, WriteRelinked, WriteSource
          <5> QED
            BY <5>1
        <4>3. CASE WriteFile(p)
          <5>1. \/ job' = Overtakes([job EXCEPT ![p].pc = "ended"], p, TargetFile(Env(p)))
                \/ job' = Overtakes([job EXCEPT ![p].pc = "ignore"], p, TargetFile(Env(p)))
            BY <2>2, <4>3 DEF WriteFile
          <5> QED
            BY <5>1
        <4> QED
          BY <1>5, <4>1, <4>2, <4>3 DEF Schema
      <3>2. job'[p] = [job[p] EXCEPT !.pc = pc]
        BY <1>0, <3>1 DEF Overtakes
      <3>3. job'[p].read = job[p].read /\ job'[p].pc = pc
        BY <1>0, <3>2 DEF Job
      <3> QED
        BY <3>1, <3>3
    <2> QED
      BY <2>1, <2>2
  <1>6. CASE Link(p) \/ Fetch(p) \/ Ignore(p) \/ SetLocal(p)
    <2>1. \/ \E pc \in {"failed", "account", "append", "ended"} : Goes(p, pc)
          \/ \E s : job' = [job EXCEPT ![p].pc = "header", ![p].link = s]
          \/ \E text : job' = [job EXCEPT ![p].pc = "pushed", ![p].text = text]
          \/ \E stale, text :
               job' = [job EXCEPT ![p].pc = "pushed", ![p].stale = stale, ![p].text = text]
      <3>1. CASE Link(p)
        BY <3>1 DEF Link
      <3>2. CASE Fetch(p)
        BY <3>2 DEF Fetch
      <3>3. CASE Ignore(p)
        BY <3>3 DEF Ignore
      <3>4. CASE SetLocal(p)
        BY <3>4 DEF SetLocal
      <3> QED
        BY <1>6, <3>1, <3>2, <3>3, <3>4
    <2>2. CASE \E s : job' = [job EXCEPT ![p].pc = "header", ![p].link = s]
      BY <1>0, <2>2 DEF Job
    <2>3. CASE \E text : job' = [job EXCEPT ![p].pc = "pushed", ![p].text = text]
      BY <1>0, <2>3 DEF Job
    <2>4. CASE \E stale, text :
                 job' = [job EXCEPT ![p].pc = "pushed", ![p].stale = stale, ![p].text = text]
      BY <1>0, <2>4 DEF Job
    <2> QED
      BY <1>2, <2>1, <2>2, <2>3, <2>4
  <1>7. CASE SetCloud(p) \/ ProjectNew(p) \/ ProjectRename(p) \/ ProjectRm(p) \/ ChangeEnvironment(p)
    <2>1. \/ \E pc \in {"failed", "append", "ended"} : Goes(p, pc)
          \/ job' = [job EXCEPT ![p].tries = 1]
          \/ job' = [job EXCEPT ![p].pc = "relink", ![p].link = Other]
      BY <1>7 DEF SetCloud, ProjectNew, ProjectRename, ProjectRm, ChangeEnvironment, Attempt
    <2> QED
      BY <1>0, <1>2, <1>3, <2>1 DEF Job
  <1> QED
    BY <1>1, <1>4, <1>5, <1>6, <1>7 DEF Step, Schema

LEMMA OwnPushing ==
  ASSUME PInv, NEW p \in Procs, Step(p)
  PROVE  Pushing(p)'
  <1>0. /\ TypeOK /\ Pushing(p) /\ Writing(p) /\ Alone(p)
        /\ job[p] \in Job /\ DOMAIN job = Procs
    BY StepAlone, JobOf DEF PInv, TInv, IInv
  <1>1. CASE Crash(p)
    <2>1. job'[p].cmd = job[p].cmd /\ job'[p].read = job[p].read /\ job'[p].pc = "failed"
      BY <1>0, <1>1 DEF Crash, Goes, Job
    <2> QED
      BY <1>0, <2>1, OverKeeps
  <1>2. CASE Open(p) \/ Link(p) \/ EnsureEnvironment(p)
    BY <1>0, <1>2, OpenPushing
  <1>3. CASE ~Crash(p) /\ ~Open(p) /\ ~EnsureEnvironment(p) /\ job[p].cmd.op # "push"
    BY <1>0, <1>3, OtherPushing
  <1>4. CASE ~Crash(p) /\ ~Open(p) /\ ~EnsureEnvironment(p) /\ job[p].cmd.op = "push"
    <2>1. /\ ~Link(p) /\ ~Fetch(p) /\ ~WriteFile(p) /\ ~Ignore(p) /\ ~SetLocal(p) /\ ~SetCloud(p)
          /\ ~ReadSource(p, "append") /\ ~AppendBlock(p) /\ ~ProjectNew(p) /\ ~ProjectRename(p)
          /\ ~Relink(p) /\ ~WriteRelinked(p) /\ ~ProjectRm(p) /\ ~ChangeEnvironment(p)
      BY <1>0, <1>4 DEF Link, Fetch, WriteFile, Ignore, SetLocal, SetCloud, ReadSource, AppendBlock,
           ProjectNew, ProjectRename, Relink, WriteRelinked, ProjectRm, ChangeEnvironment,
           Does, At, Pushing
    <2>2. CASE ReadLayer(p) \/ Check(p)
      BY <1>0, <2>2, ReadLayerPushing, CheckPushing
    <2>3. CASE CreateProject(p) \/ ReadSource(p, "header") \/ EmptySource(p) \/ WriteHeader(p)
      BY <1>0, <1>4, <2>3, HeaderPushing DEF Checked
    <2>4. CASE SendBatch(p) \/ RemoveFile(p)
      BY <1>0, <2>4, SendBatchPushing, RemoveFilePushing
    <2> QED
      BY <1>4, <2>1, <2>2, <2>3, <2>4 DEF Step
  <1> QED
    BY <1>1, <1>2, <1>3, <1>4

LEMMA PInvariance == Spec => []PInv
  <1>1. Init => PInv
    <2> SUFFICES ASSUME Init PROVE \A q \in Procs : Pushing(q)
      BY TInvInit, Initially DEF PInv
    <2>1. \A q \in Procs : job[q].pc = "idle" /\ job[q].read = {}
      BY DEF Init
    <2> QED
      BY <2>1 DEF Pushing, Checked, Running
  <1>2. PInv /\ [Next]_vars => PInv'
    <2> SUFFICES ASSUME PInv, [Next]_vars PROVE PInv'
      OBVIOUS
    <2>1. IInv'
      BY Steps DEF PInv
    <2>2. CASE UNCHANGED vars
      <3>1. TInv'
        BY <2>2 DEF PInv, vars, TInv, TypeOK, Existing, At
      <3>2. ASSUME NEW q \in Procs PROVE Pushing(q)'
        <4>1. Pushing(q)
          BY DEF PInv
        <4> QED
          BY <2>2, <4>1 DEF vars, Pushing, Accounted, AsRead, Pushed, Payload, Running
      <3> QED
        BY <2>1, <3>1, <3>2 DEF PInv
    <2>3. ASSUME NEW p \in Procs, Step(p) PROVE PInv'
      <3>1. TInv' /\ TypeOK
        BY <2>3, TInvStep DEF PInv, TInv
      <3>2. ASSUME NEW q \in Procs \ {p} PROVE Pushing(q)'
        <4>1. Pushing(q)
          BY DEF PInv
        <4> QED
          BY <2>3, <3>1, <4>1, StepBeside, BesideKeeps
      <3>3. Pushing(p)'
        BY <2>3, OwnPushing
      <3> QED
        BY <2>1, <3>1, <3>2, <3>3 DEF PInv
    <2> QED
      BY <2>2, <2>3 DEF Next
  <1> QED
    BY <1>1, <1>2, PTL DEF Spec

-----------------------------------------------------------------------------
(* What a push may take away.                                              *)

LEMMA RemovedSent ==
  ASSUME PInv, NEW r \in Procs, Step(r), NEW p \in Procs, NEW f \in Files,
         f \in job[p].read, f \notin job'[p].read, file'[f] # file[f],
         NEW k \in Keys, file[f][k] \in Values \cup {"broken"},
         job[p].from[k] = f, f \notin job[p].stale
  PROVE  job[p].acked[k] = file[f][k]
  <1>0. TypeOK /\ Pushing(p) /\ job[p] \in Job /\ DOMAIN job = Procs
    BY JobOf DEF PInv, TInv
  <1>1. r = p
    BY <1>0, StepBeside DEF Beside
  <1>2. RemoveFile(p) \/ WriteFile(p)
    <2>1. ~RemoveFile(p) /\ ~WriteFile(p) => UNCHANGED file
      BY <1>1, SchemaSteps DEF Schema, Step, Open, ReadLayer, Check, EnsureEnvironment, CreateProject, ReadSource,
           SendBatch, Link, Fetch, Ignore, SetLocal, SetCloud,
           ProjectNew, ProjectRename, Relink, ProjectRm, ChangeEnvironment, Crash
    <2> QED
      BY <2>1
  <1>3. CASE WriteFile(p)
    <2>1. job[p].pc = "pushed"
      BY <1>3 DEF WriteFile, At
    <2>2. job[p].read = {}
      BY <1>0, <2>1 DEF Pushing
    <2> QED
      BY <2>2
  <1>4. CASE RemoveFile(p)
    <2>1. job[p].pc \in {"send", "remove"} /\ job[p].cmd.op = "push" /\ job[p].todo = {}
      BY <1>4 DEF RemoveFile, Sent, Does
    <2>2. Accounted(p) /\ AsRead(p)
      BY <1>0, <2>1 DEF Pushing, Checked, Running
    <2>3. job[p].text[k] = file[f][k]
      BY <2>2 DEF AsRead
    <2>4. k \in Pushed(p)
      BY <2>3 DEF Pushed
    <2> QED
      BY <2>1, <2>2, <2>3, <2>4 DEF Accounted
  <1> QED
    BY <1>2, <1>3, <1>4

LEMMA PayloadSpared ==
  ASSUME PInv, NEW r \in Procs, Step(r), NEW p \in Procs, NEW k \in Keys,
         At(p, "send"), job'[p] # job[p], k \in Payload(p), Reachable(p),
         cloud[Address(p)][Env(p)][k] # "absent"
  PROVE  cloud'[Address(p)][Env(p)][k] # "absent"
  <1>0. TypeOK /\ Pushing(p) /\ job \in [Procs -> Job] /\ job[p].pc = "send" /\ job[p].cmd.op = "push"
    BY DEF PInv, TInv, TypeOK, At, Pushing
  <1>1. CASE UNCHANGED cloud
    BY <1>1
  <1>2. CASE ~UNCHANGED cloud
    <2>1. \/ CreateProject(r) \/ SendBatch(r) \/ SetCloud(r) \/ ProjectNew(r) \/ ProjectRename(r)
          \/ ProjectRm(r) \/ ChangeEnvironment(r)
      BY <1>2, SchemaSteps DEF Schema, Step, Open, ReadLayer, Check, EnsureEnvironment, ReadSource,
           RemoveFile, Link, Fetch, WriteFile, Ignore, SetLocal, Relink, Crash
    <2>2. r = p
      <3>1. r # p => job'[p] = job[p]
        BY <1>0, <2>1 DEF CreateProject, SendBatch, SetCloud, ProjectNew, ProjectRename, ProjectRm,
             ChangeEnvironment, Attempt, Goes
      <3> QED
        BY <3>1
    <2>3. SendBatch(p)
      BY <1>0, <2>1, <2>2 DEF CreateProject, SetCloud, ProjectNew, ProjectRename, ProjectRm,
           ChangeEnvironment, At, Does
    <2> DEFINE content == cloud[Address(p)][Env(p)]
               put     == Put(content, Batch(p), job[p].text, job[p].cmd.erases)
    <2>4. cloud' = [cloud EXCEPT ![Address(p)][Env(p)] = put]
      BY <1>2, <2>3 DEF SendBatch, Attempt
    <2>5. /\ Address(p) \in Projects /\ Env(p) \in Envs
          /\ cloud[Address(p)] \in [Envs -> Contents \cup {NoEnv}]
      BY <1>0, ReachableTyped
    <2>6. cloud'[Address(p)][Env(p)] = put
      BY <1>0, <2>4, <2>5 DEF TypeOK, Server
    <2>7. job[p].cmd.erases => k \in Batch(p)
      <3> SUFFICES ASSUME job[p].cmd.erases PROVE k \in Batch(p)
        OBVIOUS
      <3>1. job[p].todo \subseteq Keys /\ job[p].todo # {}
        BY <1>0, <2>3 DEF SendBatch, Job
      <3>2. job[p].todo = Payload(p) /\ Cardinality(job[p].todo) <= MaxBatch
        BY <1>0, <3>1 DEF Pushing, Checked, Accounted
      <3> QED
        BY <3>1, <3>2, BatchWhole
    <2>8. put[k] = IF k \notin Batch(p) THEN (IF job[p].cmd.erases THEN "absent" ELSE content[k])
                   ELSE IF job[p].text[k] \in Values THEN job[p].text[k]
                   ELSE IF content[k] = "absent" THEN "unset"
                   ELSE content[k]
      BY DEF Put
    <2>9. "absent" \notin Values
      BY NameAssumption DEF Special
    <2> HIDE DEF put, content
    <2>10. content[k] # "absent"
      BY DEF content
    <2> QED
      BY <2>6, <2>7, <2>8, <2>9, <2>10
  <1> QED
    BY <1>1, <1>2

\* A push takes a value away with its file only when the server holds it, the
\* environment's own layer replaced it, or another wrote the file since; and one that
\* prunes, in one request as it must, deletes no key it sends or declares (push.rs).
THEOREM Harmless == Spec => PushLosesNothing
  <1> DEFINE Removed ==
               \A p \in Procs, f \in Files :
                 f \in job[p].read /\ f \notin job'[p].read /\ file'[f] # file[f] =>
                   \A k \in Keys : file[f][k] \in Values \cup {"broken"} =>
                     \/ job[p].acked[k] = file[f][k]
                     \/ job[p].from[k] # f
                     \/ f \in job[p].stale
             Spared ==
               \A p \in Procs, k \in Keys :
                 At(p, "send") /\ job'[p] # job[p] /\ k \in Payload(p) /\ Reachable(p)
                   /\ cloud[Address(p)][Env(p)][k] # "absent"
                   => cloud'[Address(p)][Env(p)][k] # "absent"
  <1>1. PInv /\ [Next]_vars => [Removed]_vars /\ [Spared]_vars
    <2> SUFFICES ASSUME PInv, NEW r \in Procs, Step(r) PROVE Removed /\ Spared
      BY DEF Next
    <2>1. Removed
      BY RemovedSent
    <2>2. Spared
      BY PayloadSpared
    <2> QED
      BY <2>1, <2>2
  <1> QED
    BY <1>1, PInvariance, PTL DEF Spec, PushLosesNothing, RemovedWasSent, PruneSparesPayload

=============================================================================
