------------------------------ MODULE Upgrade -------------------------------
(***************************************************************************)
(* `penv upgrade`: a release is read, compared with the version that runs, *)
(* downloaded, held against the signed checksum file of its own name, then *)
(* written beside the running binary and moved into its place.  On unix    *)
(* the move is one rename; on Windows the running binary is retired first, *)
(* put back when the new one does not land, and swept by a later penv.     *)
(*                                                                         *)
(* The three names of the folder point at files, so that a rename takes a  *)
(* file away under a process that is still writing it.  Anyone may serve   *)
(* the release, its binary and its checksums; only a release key signs.    *)
(***************************************************************************)
EXTENDS Naturals, FiniteSets

CONSTANTS
  Upgrades,   \* the `penv upgrade` processes, each run once
  Versions,   \* the released versions, a larger one newer
  First,      \* the version installed at the start
  Named,      \* the versions a person names
  Forged,     \* a binary no release carries
  Torn,       \* part of a binary
  Latest,     \* a channel, `latest` or `next`, and no version
  None        \* no file

\* What the constants are taken to be; the runs assume it.
UpgradeAssumption ==
  /\ Versions \subseteq Nat /\ First \in Versions /\ Named \subseteq Versions
  /\ {Forged, Torn, Latest} \cap Versions = {} /\ Torn # Forged
  /\ None \notin Upgrades /\ "installed" \notin Upgrades /\ None # "installed"

Names   == {"penv", "penv.new", "penv.old"}
Inodes  == Upgrades \cup {"installed"}   \* a file is named by who made it
Binary  == Versions \cup {Forged}
\* What a file holds: a whole binary, or part of one.
Content == Binary \cup {Torn}

VARIABLES
  os,      \* which swap this build has
  name,    \* the folder
  data,    \* what each file holds
  up,      \* each process
  alone    \* history: no two upgrades ran at the same time

vars == <<os, name, data, up, alone>>

Pcs == {"idle", "release", "fetch", "verify", "stage", "writing", "swap", "landing",
        "restore", "done", "current", "refused", "kept", "lost", "died"}

Process == [
  pc      : Pcs,
  running : Versions,               \* VERSION
  exe     : Inodes,                 \* the file it runs
  channel : Named \cup {Latest},
  tag     : Versions,               \* the release picked
  binary  : Binary,                 \* what was downloaded
  fd      : Inodes \cup {None}]     \* the staged file it has open

TypeOK ==
  /\ os \in {"unix", "windows"}
  /\ name \in [Names -> Inodes \cup {None}]
  /\ data \in [Inodes -> Content]
  /\ up \in [Upgrades -> Process]
  /\ alone \in BOOLEAN

Init ==
  /\ os \in {"unix", "windows"}
  /\ name = [n \in Names |-> IF n = "penv" THEN "installed" ELSE None]
  /\ data = [i \in Inodes |-> IF i = "installed" THEN First ELSE Torn]
  /\ up \in [Upgrades ->
       {[pc |-> "idle", running |-> First, exe |-> "installed", channel |-> c,
         tag |-> First, binary |-> First, fd |-> None] : c \in Named \cup {Latest}}]
  /\ alone = TRUE

-----------------------------------------------------------------------------
Ended   == {"done", "current", "refused", "kept", "lost", "died"}
At(p, pc)   == up[p].pc = pc
Goes(p, pc) == up' = [up EXCEPT ![p].pc = pc]
Running     == {p \in Upgrades : up[p].pc \notin {"idle"} \cup Ended}
Executing   == {up[p].exe : p \in Running}

\* A file whose name goes; on Windows not one that runs.
Removes(n, there) ==
  IF os = "windows" /\ there[n] \in Executing THEN {there}
  ELSE {[there EXCEPT ![n] = None], there}

\* A penv starts only from a whole binary; on Windows it first sweeps the retired copy.
Start(p) ==
  /\ At(p, "idle")
  /\ name["penv"] # None /\ data[name["penv"]] \in Versions
  /\ up' = [up EXCEPT ![p].pc = "release", ![p].exe = name["penv"],
                      ![p].running = data[name["penv"]]]
  /\ IF os = "windows" THEN name' \in Removes("penv.old", name) ELSE UNCHANGED name
  /\ alone' = (alone /\ Running = {})
  /\ UNCHANGED <<os, data>>

\* BUG: a channel installs whatever it names.
\* A named version is installed whichever way it lies, a channel only forward.
Behind(channel, tag, running) ==
  IF channel = Latest THEN tag > running ELSE tag # running

\* The release JSON names a tag; it may be any published one.  No release, or a
\* penv that a package manager owns, and nothing is fetched.
ReadRelease(p) ==
  /\ At(p, "release")
  /\ \/ \E tag \in Versions :
          /\ up[p].channel # Latest => tag = up[p].channel
          /\ up' = [up EXCEPT ![p].tag = tag,
               ![p].pc = IF Behind(up[p].channel, tag, up[p].running) THEN "fetch" ELSE "current"]
     \/ Goes(p, "refused")
  /\ UNCHANGED <<os, name, data, alone>>

\* The signature stands before the digest, and the digest is the line of this
\* tag's asset by its whole name.
Checked(tag, sums, binary) ==
  /\ sums.signed
  /\ sums.tag = tag /\ sums.digest = binary

\* A release key signs the checksums of the release, and nothing else.
Sums == [tag : Versions, digest : Binary, signed : BOOLEAN]
Served == {s \in Sums : s.signed => s.digest = s.tag}

Download(p) ==
  /\ At(p, "fetch")
  /\ \E sums \in Served, binary \in Binary :
       up' = [up EXCEPT ![p].binary = binary,
         ![p].pc = IF Checked(up[p].tag, sums, binary) THEN "stage" ELSE "refused"]
  /\ UNCHANGED <<os, name, data, alone>>

-----------------------------------------------------------------------------
\* replace: the binary is written beside the running one, over what is there.

\* BUG: the download is written over the running binary.
MutantOpenStaged(p) ==
  /\ At(p, "stage") /\ name["penv"] # None
  /\ data' = [data EXCEPT ![name["penv"]] = Torn]
  /\ up' = [up EXCEPT ![p].pc = "writing", ![p].fd = name["penv"]]
  /\ UNCHANGED <<os, name, alone>>

OpenStaged(p) ==
  /\ At(p, "stage")
  /\ IF name["penv"] = None
     THEN Goes(p, "kept") /\ UNCHANGED <<name, data>>
     ELSE LET i == IF name["penv.new"] = None THEN p ELSE name["penv.new"]
          IN \/ /\ name' = [name EXCEPT !["penv.new"] = i]
                /\ data' = [data EXCEPT ![i] = Torn]
                /\ up' = [up EXCEPT ![p].pc = "writing", ![p].fd = i]
             \/ Goes(p, "kept") /\ UNCHANGED <<name, data>>
  /\ UNCHANGED <<os, alone>>

\* Two that write one file leave what one of them wrote, or parts of both.
WriteStaged(p) ==
  /\ At(p, "writing")
  /\ \/ /\ data' \in {[data EXCEPT ![up[p].fd] = c] :
             c \in IF \E q \in Upgrades \ {p} : up[q].fd = up[p].fd
                   THEN {up[p].binary, Torn} ELSE {up[p].binary}}
        /\ up' = [up EXCEPT ![p].pc = "swap", ![p].fd = None]
     \/ /\ up' = [up EXCEPT ![p].pc = "kept", ![p].fd = None]  \* the disk is full
        /\ UNCHANGED data
  /\ UNCHANGED <<os, name, alone>>

Rename(from, to) == name' = [name EXCEPT ![to] = name[from], ![from] = None]

\* Unix: one rename over the running file, then a copy an older penv retired goes.
SwapUnix(p) ==
  /\ os = "unix" /\ At(p, "swap")
  /\ \/ /\ name["penv.new"] # None
        /\ name' \in Removes("penv.old",
             [name EXCEPT !["penv"] = name["penv.new"], !["penv.new"] = None])
        /\ Goes(p, "done")
     \/ /\ name' \in Removes("penv.new", name)
        /\ Goes(p, "kept")
  /\ UNCHANGED <<os, data, alone>>

\* Windows: the running binary is retired, over a retired copy that does not run.
Retire(p) ==
  /\ os = "windows" /\ At(p, "swap")
  /\ \E there \in Removes("penv.old", name) :
       \/ /\ there["penv"] # None /\ there["penv.old"] \notin Executing
          /\ name' = [there EXCEPT !["penv.old"] = there["penv"], !["penv"] = None]
          /\ Goes(p, "landing")
       \/ /\ name' \in Removes("penv.new", there)
          /\ Goes(p, "kept")
  /\ UNCHANGED <<os, data, alone>>

\* A name that was given to a running file meanwhile cannot be taken.
Land(p) ==
  /\ At(p, "landing")
  /\ \/ /\ name["penv.new"] # None /\ name["penv"] \notin Executing
        /\ Rename("penv.new", "penv")
        /\ Goes(p, "done")
     \/ /\ name' \in Removes("penv.new", name)
        /\ Goes(p, "restore")
  /\ UNCHANGED <<os, data, alone>>

Restore(p) ==
  /\ At(p, "restore")
  /\ \/ /\ name["penv.old"] # None /\ name["penv"] \notin Executing
        /\ Rename("penv.old", "penv")
        /\ Goes(p, "kept")
     \/ /\ Goes(p, "lost")
        /\ UNCHANGED name
  /\ UNCHANGED <<os, data, alone>>

\* The process dies; a file it was writing stays torn.
Die(p) ==
  /\ p \in Running
  /\ up' = [up EXCEPT ![p].pc = "died", ![p].fd = None]
  /\ UNCHANGED <<os, name, data, alone>>

Step(p) ==
  \/ Start(p) \/ ReadRelease(p) \/ Download(p) \/ OpenStaged(p) \/ WriteStaged(p)
  \/ SwapUnix(p) \/ Retire(p) \/ Land(p) \/ Restore(p) \/ Die(p)

Next == \E p \in Upgrades : Step(p)
Spec == Init /\ [][Next]_vars

-----------------------------------------------------------------------------
Installed == IF name["penv"] = None THEN None ELSE data[name["penv"]]

\* Whoever serves the release, and whatever overlaps, a whole binary written here
\* is the release an upgrade picked by its tag: none a release key did not sign,
\* and no older one served under a newer tag (commands/upgrade.rs 114-147).
SignedAndPicked ==
  \A p \in Upgrades : data[p] # Torn => \E q \in Upgrades : data[p] = up[q].tag

\* Where upgrades do not overlap, penv is a whole binary at every moment on
\* unix, whatever fails or dies; on Windows it may miss only between the
\* retiring and the landing, or after an upgrade that died there or said it
\* lost it (upgrade.rs 411-456).
PenvStays ==
  alone => \/ Installed \in Versions
           \/ /\ os = "windows" /\ Installed = None
              /\ \E p \in Upgrades : up[p].pc \in {"landing", "restore", "lost", "died"}

\* An upgrade that says nothing was replaced replaced nothing, and one that
\* says it is done left its binary, where upgrades do not overlap.
KeptStep ==
  alone' => \A p \in Upgrades :
    /\ ~At(p, "kept") /\ up'[p].pc = "kept" => name'["penv"] = up[p].exe
    /\ ~At(p, "done") /\ up'[p].pc = "done" => data'[name'["penv"]] = up[p].tag

KeptIsKept == [][KeptStep]_vars

-----------------------------------------------------------------------------
(* The inductive invariant behind them.                                    *)

\* What an upgrade has downloaded and means to write is the release it picked.
Verified ==
  \A p \in Upgrades : up[p].pc \in {"stage", "writing", "swap", "landing"} => up[p].binary = up[p].tag

\* What was written here was picked by an upgrade that picks no more.
Picked ==
  \A p \in Upgrades : data[p] # Torn =>
    \E q \in Upgrades : up[q].pc \notin {"idle", "release"} /\ data[p] = up[q].tag

\* No file has two names, and one that is not made yet has none and is open nowhere.
OneName ==
  /\ \A m, n \in Names : name[m] = name[n] /\ name[m] # None => m = n
  /\ \A p \in Upgrades : up[p].pc \in {"idle", "release", "fetch", "stage"} =>
       (\A n \in Names : name[n] # p)

\* A file is open only while it is written.
Opened == \A p \in Upgrades : up[p].fd # None => up[p].pc = "writing"

\* Only Windows retires the running binary, so only there may penv miss.
Retired ==
  /\ \A p \in Upgrades : up[p].pc \in {"landing", "restore", "lost"} => os = "windows"
  /\ os = "unix" => name["penv"] # None

\* An upgrade that nobody joins has the folder to itself: the binary it runs is the
\* installed one until it retires it, then the retired one, and what it staged is whole
\* from the moment it closed it.
HasFolder(p) ==
  /\ data[up[p].exe] \in Versions
  /\ up[p].pc \in {"release", "fetch", "stage", "writing", "swap"} => name["penv"] = up[p].exe
  /\ up[p].pc = "writing" => name["penv.new"] = up[p].fd /\ up[p].fd # None
  /\ up[p].pc \in {"swap", "landing"} /\ name["penv.new"] # None =>
       data[name["penv.new"]] = up[p].tag
  /\ up[p].pc \in {"landing", "restore"} => name["penv"] = None /\ name["penv.old"] = up[p].exe

\* Where upgrades do not overlap there is one at most, and between two of them penv is
\* whole, or missing since one that died or said it lost it.
Undisturbed ==
  alone =>
    /\ \A p, q \in Running : p = q
    /\ \A p \in Running : HasFolder(p)
    /\ name["penv"] # None => data[name["penv"]] \in Versions
    /\ name["penv"] = None =>
         \E p \in Upgrades : up[p].pc \in {"landing", "restore", "lost", "died"}

UpgradeInv == TypeOK /\ Verified /\ Picked /\ OneName /\ Opened /\ Retired /\ Undisturbed

=============================================================================
