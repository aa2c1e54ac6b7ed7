----------------------------- MODULE ValueFiles -----------------------------
(***************************************************************************)
(* The value files of one folder in local mode, development environment,   *)
(* and the penv commands on them: `set` and `unset` write .env, a run that *)
(* resolves a random() default keeps the value in .env.local, `encrypt`    *)
(* and `decrypt` convert both files and switch `[local] encrypt`, and      *)
(* every run decrypts what it reads.  One user's commands share the files, *)
(* .penv/config.toml, the keychain item local/local-key and the key file,  *)
(* with no lock between them.                                              *)
(*                                                                         *)
(* A value is who wrote it; a ciphertext is the value with the key it is   *)
(* under.  The keys are declared, their values literals, the value files   *)
(* ignored by git, and an item penv wrote parses.  Of config.toml only the *)
(* setting is kept: absent, unreadable and empty files all read as off.    *)
(***************************************************************************)
EXTENDS Naturals

CONSTANTS
  Processes,   \* commands, each run once
  Names,       \* the keys of the schema
  Sensitive,   \* those that are sensitive
  Rotated,     \* those with @rotate
  Generated,   \* those whose default is random()
  Given,       \* commands that may run with PENV_LOCAL_KEY
  First,       \* who wrote the values the files start with
  OldKey,      \* the key this user may have already
  GivenKey,    \* the key PENV_LOCAL_KEY holds
  NoKey,       \* no key
  Plain,       \* what a value in plain text is under
  Absent,      \* a key without a value
  Faults       \* which faults happen

FaultKinds == {"keychain", "home", "disk", "crash"}

ASSUME ValueAssumption ==
  /\ Sensitive \subseteq Names /\ Rotated \subseteq Names /\ Generated \subseteq Names
  /\ Given \subseteq Processes
  /\ Faults \subseteq FaultKinds

Files == {".env", ".env.local"}

\* BUG: the layers leave out .env.local, as `test` does.
MutantCascade == << ".env", ".env" >>

Cascade == << ".env", ".env.local" >>

KeyIds  == Processes \cup {OldKey, GivenKey}  \* a key made here is named by its maker
Sources == Processes \cup {First}
Text    == [value : Sources, under : KeyIds \cup {Plain}]
Content == [Names -> Text \cup {Absent}]

\* A run is of an app with one random() default.
Jobs ==
  [cmd : {"set", "unset"}, name : Names]
    \cup [cmd : {"run"}, name : Generated]
    \cup [cmd : {"encrypt", "decrypt"}, name : {Absent}]

\* The empty values are none of the others.
ASSUME EmptyAssumption ==
  /\ Absent \notin Sources /\ Absent \notin Text
  /\ Plain \notin KeyIds /\ NoKey \notin KeyIds

Labels == {"idle", "layer", "open", "read", "store", "seal", "convert", "write",
           "ask", "make", "file", "makeFile", "begin",
           "load", "truncate", "save", "done", "failed"}

Process == [
  pc    : Labels,
  then  : {"begin", "open", "seal"},  \* where the key is needed
  at    : 1..2,                       \* the layer being read or converted
  base  : Content,                    \* the file as it was read
  text  : Content,                    \* the file as it will be written
  key   : KeyIds \cup {NoKey},        \* PENV_LOCAL_KEY, else FOUND
  cfg   : BOOLEAN,                    \* the setting as it will be saved
  value : Sources \cup {Absent}]      \* the value a run resolved

VARIABLES
  files,     \* the value files
  setting,   \* [local] encrypt in .penv/config.toml
  keychain,  \* the keychain's local-key
  keyFile,   \* ~/.config/penv/local.key
  job,       \* what each command was asked to do
  proc,      \* each command's own state
  wrote,     \* history: the commands that changed a value
  overtaken, \* history: the commands during which another wrote a file or a key
  raced,     \* history: an overtaken command wrote what was no longer so
  passed,    \* history: the keys that are passed over for another, or replaced by one
  calm       \* history: `[local] encrypt` and the files were never changed apart

shared  == <<files, setting, keychain, keyFile>>
history == <<wrote, overtaken, raced, passed, calm>>
vars    == <<shared, job, proc, history>>

TypeOK ==
  /\ files \in [Files -> Content]
  /\ setting \in BOOLEAN
  /\ keychain \in Processes \cup {OldKey, NoKey}
  /\ keyFile \in Processes \cup {OldKey, NoKey}
  /\ job \in [Processes -> Jobs]
  /\ proc \in [Processes -> Process]
  /\ wrote \subseteq Processes /\ overtaken \subseteq Processes
  /\ raced \in BOOLEAN /\ passed \subseteq KeyIds /\ calm \in BOOLEAN

-----------------------------------------------------------------------------
\* What a command is asked to do.

Converts(p)   == job[p].cmd \in {"encrypt", "decrypt"}
Reconfigures(p) == Converts(p) \/ (job[p].cmd = "set" /\ job[p].name \in Rotated)
Active(p)     == proc[p].pc \notin {"idle", "done", "failed"}

\* The file a command rewrites.
Target(p) ==
  CASE job[p].cmd \in {"set", "unset"} -> ".env"
    [] job[p].cmd = "run" -> ".env.local"
    [] OTHER -> Cascade[proc[p].at]

\* The `create` a key is asked for with.
Creates(p) ==
  \/ proc[p].then = "seal"
  \/ proc[p].then = "begin" /\ job[p].cmd = "encrypt"

Encrypted(content) == {n \in Names : content[n] # Absent /\ content[n].under # Plain}

\* What is read of a layer that opens with `key`, and what a conversion makes of it.
Opens(content, key) == \A n \in Encrypted(content) : content[n].under = key

EncryptAll(content, key) ==
  [n \in Names |->
    IF n \in Sensitive /\ content[n] # Absent /\ n \notin Encrypted(content)
      THEN [content[n] EXCEPT !.under = key]
      ELSE content[n]]

DecryptAll(content) ==
  [n \in Names |->
    IF n \in Encrypted(content) THEN [content[n] EXCEPT !.under = Plain] ELSE content[n]]

\* The key a command gets once no other is running and the keychain answers.
Answer == IF keychain # NoKey THEN keychain ELSE keyFile

Nothing == [n \in Names |-> Absent]

Overtake(p) == overtaken' = overtaken \cup {q \in Processes \ {p} : Active(q)}

Goto(p, label) == proc' = [proc EXCEPT ![p].pc = label]

\* The key is needed at `label`: FOUND and PENV_LOCAL_KEY save the asking.
WithKey(p, label) ==
  IF proc[p].key # NoKey
    THEN Goto(p, label)
    ELSE proc' = [proc EXCEPT ![p].pc = "ask", ![p].then = label]

Fail(p) == Goto(p, "failed") /\ UNCHANGED <<shared, wrote, overtaken, raced, passed>>

\* A command that stops between the files and the setting leaves them apart.
Apart(p) ==
  \/ Converts(p) /\ proc[p].pc \in {"layer", "convert", "write", "load", "truncate"}
  \/ proc[p].pc = "save"

Init ==
  /\ job \in [Processes -> Jobs]
  /\ setting \in BOOLEAN
  /\ keychain \in {OldKey, NoKey}
  /\ keyFile \in {OldKey, NoKey}
  /\ NoKey \in {keychain, keyFile}
  /\ \E present \in SUBSET Names :
       /\ setting /\ present \cap Sensitive # {} => Answer # NoKey
       /\ files = [f \in Files |->
            [n \in Names |->
              IF f = ".env" /\ n \in present
                THEN [value |-> First,
                      under |-> IF setting /\ n \in Sensitive THEN Answer ELSE Plain]
                ELSE Absent]]
  /\ \E given \in SUBSET Given :
       proc = [p \in Processes |->
         [pc |-> "idle", then |-> "begin", at |-> 1, base |-> Nothing, text |-> Nothing,
          key |-> IF p \in given THEN GivenKey ELSE NoKey, cfg |-> FALSE, value |-> Absent]]
  /\ wrote = {}
  /\ overtaken = {}
  /\ raced = FALSE
  /\ passed = {}
  /\ calm = TRUE

-----------------------------------------------------------------------------
\* Commands begin.

Begin(p) ==
  /\ proc[p].pc = "idle"
  /\ CASE Converts(p) -> WithKey(p, "begin")
       [] job[p].cmd = "run" -> Goto(p, "layer")
       [] OTHER -> Goto(p, "read")
  /\ calm' = (calm /\ \A q \in Processes \ {p} :
                        Active(q) => ~Reconfigures(p) /\ ~Reconfigures(q))
  /\ UNCHANGED <<shared, job, wrote, overtaken, raced, passed>>

\* encrypt and decrypt convert nothing without a key.
BeginConverting(p) ==
  /\ proc[p].pc = "begin"
  /\ Goto(p, IF proc[p].key = NoKey THEN "failed" ELSE "layer")
  /\ UNCHANGED <<shared, job, history>>

-----------------------------------------------------------------------------
\* key(create): the keychain, else the key file.

Found(p, key) == proc' = [proc EXCEPT ![p].key = key, ![p].pc = proc[p].then]

AskKeychain(p) ==
  /\ proc[p].pc = "ask"
  /\ \/ keychain # NoKey /\ Found(p, keychain)
     \/ keychain = NoKey /\ Goto(p, IF Creates(p) THEN "make" ELSE "file")
     \/ "keychain" \in Faults /\ Goto(p, "file")
  /\ UNCHANGED <<shared, job, history>>

\* A key of the keychain goes before the key file's, whichever was there first; and
\* a first key made in a race takes the place of the other command's.
PassedByKeychain(p) ==
  ({keyFile} \cup (IF p \in overtaken THEN {keychain} ELSE {})) \ {NoKey}

PassedByFile(p) ==
  ((IF keychain = NoKey THEN {} ELSE {p}) \cup (IF p \in overtaken THEN {keyFile} ELSE {})) \ {NoKey}

\* BUG: the key is used though the keychain refused to keep it.
MutantMakeInKeychain(p) ==
  /\ proc[p].pc = "make"
  /\ keychain' \in {p} \cup (IF "keychain" \in Faults THEN {keychain} ELSE {})
  /\ passed' = passed \cup PassedByKeychain(p)
  /\ Overtake(p)
  /\ Found(p, p)
  /\ UNCHANGED <<files, setting, keyFile, job, wrote, raced, calm>>

MakeInKeychain(p) ==
  /\ proc[p].pc = "make"
  /\ \/ /\ keychain' = p
        /\ passed' = passed \cup PassedByKeychain(p)
        /\ Overtake(p)
        /\ Found(p, p)
     \/ /\ "keychain" \in Faults
        /\ Goto(p, "file")
        /\ UNCHANGED <<keychain, overtaken, passed>>
  /\ UNCHANGED <<files, setting, keyFile, job, wrote, raced, calm>>

ReadKeyFile(p) ==
  /\ proc[p].pc = "file"
  /\ \/ keyFile # NoKey /\ Found(p, keyFile)
     \/ keyFile = NoKey /\ ~Creates(p) /\ Found(p, NoKey)
     \/ keyFile = NoKey /\ Creates(p) /\ Goto(p, "makeFile")
     \/ "home" \in Faults /\ Found(p, NoKey)
  /\ UNCHANGED <<shared, job, history>>

MakeKeyFile(p) ==
  /\ proc[p].pc = "makeFile"
  /\ keyFile' = p
  /\ passed' = passed \cup PassedByFile(p)
  /\ Overtake(p)
  /\ Found(p, p)
  /\ UNCHANGED <<files, setting, keychain, job, wrote, raced, calm>>

-----------------------------------------------------------------------------
\* Reading: the layers of a run, the files of a conversion, the file of a write.

ReadLayer(p) ==
  /\ proc[p].pc = "layer"
  /\ LET content == files[Cascade[proc[p].at]]
         ready   == IF Converts(p) THEN "convert" ELSE "open"
         asks    == ready = "open" /\ Encrypted(content) # {} /\ proc[p].key = NoKey
     IN proc' = [proc EXCEPT ![p].base = content,
                             ![p].then = IF asks THEN "open" ELSE @,
                             ![p].pc = IF asks THEN "ask" ELSE ready]
  /\ UNCHANGED <<shared, job, history>>

\* BUG: a layer without the key forgets the value of the one before it.
MutantOpenLayer(p) ==
  /\ proc[p].pc = "open"
  /\ LET text  == proc[p].base[job[p].name]
         value == IF text # Absent THEN text.value ELSE Absent
     IN IF ~Opens(proc[p].base, proc[p].key) THEN Goto(p, "failed")
        ELSE IF proc[p].at = 1
          THEN proc' = [proc EXCEPT ![p].value = value, ![p].at = 2, ![p].pc = "layer"]
          ELSE proc' = [proc EXCEPT ![p].value = value,
                                    ![p].pc = IF value = Absent THEN "read" ELSE "done"]
  /\ UNCHANGED <<shared, job, history>>

\* A layer that does not open stops the run; after the last one a key without a
\* value is generated.
OpenLayer(p) ==
  /\ proc[p].pc = "open"
  /\ LET text  == proc[p].base[job[p].name]
         value == IF text # Absent THEN text.value ELSE proc[p].value
     IN IF ~Opens(proc[p].base, proc[p].key) THEN Goto(p, "failed")
        ELSE IF proc[p].at = 1
          THEN proc' = [proc EXCEPT ![p].value = value, ![p].at = 2, ![p].pc = "layer"]
          ELSE proc' = [proc EXCEPT ![p].value = value,
                                    ![p].pc = IF value = Absent THEN "read" ELSE "done"]
  /\ UNCHANGED <<shared, job, history>>

ReadFile(p) ==
  /\ proc[p].pc = "read"
  /\ LET content == files[Target(p)] IN
       proc' = [proc EXCEPT
         ![p].base = content,
         ![p].text = [content EXCEPT ![job[p].name] = Absent],
         ![p].pc = IF job[p].cmd # "unset" THEN "store"
                   ELSE IF content[job[p].name] # Absent THEN "write" ELSE "done"]
  /\ UNCHANGED <<shared, job, history>>

\* stored: the setting is read, and a sensitive value encrypted when it is on.
\* What a run generates is sensitive whatever the schema says.
PutText(p, under) ==
  proc' = [proc EXCEPT
    ![p].text = [@ EXCEPT ![job[p].name] = [value |-> p, under |-> under]],
    ![p].pc = "write"]

Store(p) ==
  /\ proc[p].pc = "store"
  /\ IF setting /\ (job[p].name \in Sensitive \/ job[p].cmd = "run")
       THEN WithKey(p, "seal")
       ELSE PutText(p, Plain)
  /\ UNCHANGED <<shared, job, history>>

\* With neither a keychain nor a place for a key file the value stays as it is.
Seal(p) ==
  /\ proc[p].pc = "seal"
  /\ PutText(p, IF proc[p].key = NoKey THEN Plain ELSE proc[p].key)
  /\ calm' = (calm /\ proc[p].key # NoKey)
  /\ UNCHANGED <<shared, job, wrote, overtaken, raced, passed>>

-----------------------------------------------------------------------------
\* Converting.

NextFile(p, from) ==
  IF proc[p].at = 1
    THEN proc' = [proc EXCEPT ![p] = from, ![p].at = 2, ![p].pc = "layer"]
    ELSE proc' = [proc EXCEPT ![p] = from, ![p].pc = "load"]

Convert(p) ==
  /\ proc[p].pc = "convert"
  /\ LET base == proc[p].base
         text == IF job[p].cmd = "encrypt"
                   THEN EncryptAll(base, proc[p].key) ELSE DecryptAll(base)
     IN \/ /\ job[p].cmd = "decrypt" /\ ~Opens(base, proc[p].key)
           /\ Goto(p, "failed")
           /\ calm' = FALSE
        \/ /\ job[p].cmd = "decrypt" => Opens(base, proc[p].key)
           /\ IF text = base
                THEN NextFile(p, proc[p])
                ELSE proc' = [proc EXCEPT ![p].text = text, ![p].pc = "write"]
           /\ UNCHANGED calm
  /\ UNCHANGED <<shared, job, wrote, overtaken, raced, passed>>

-----------------------------------------------------------------------------
\* Writing: the file is replaced at once, by what was made of what was read.

Stale(p) ==
  \/ proc[p].base # files[Target(p)]
  \/ job[p].cmd = "run" /\ \E f \in Files : files[f][job[p].name] # Absent

Written(p) == [files EXCEPT ![Target(p)] = proc[p].text]

Write(p) ==
  /\ proc[p].pc = "write"
  /\ files' = Written(p)
  /\ raced' = (raced \/ (p \in overtaken /\ Stale(p)))
  /\ Overtake(p)
  /\ wrote' = IF Converts(p) THEN wrote ELSE wrote \cup {p}
  /\ CASE Converts(p) -> NextFile(p, proc[p])
       [] job[p].cmd = "run" -> proc' = [proc EXCEPT ![p].value = p, ![p].pc = "done"]
       [] OTHER -> Goto(p, IF Reconfigures(p) THEN "load" ELSE "done")
  /\ UNCHANGED <<setting, keychain, keyFile, job, passed, calm>>

\* A conversion saves a setting that differs; a set of a @rotate key saves the date,
\* and with it the setting as it was read.
LoadConfig(p) ==
  /\ proc[p].pc = "load"
  /\ LET cfg == IF Converts(p) THEN job[p].cmd = "encrypt" ELSE setting IN
       IF Converts(p) /\ cfg = setting
         THEN Goto(p, "done")
         ELSE proc' = [proc EXCEPT ![p].cfg = cfg, ![p].pc = "truncate"]
  /\ UNCHANGED <<shared, job, history>>

\* std::fs::write: the file is emptied, then written.
Truncate(p) ==
  /\ proc[p].pc = "truncate"
  /\ setting' = FALSE
  /\ Goto(p, "save")
  /\ UNCHANGED <<files, keychain, keyFile, job, history>>

Save(p) ==
  /\ proc[p].pc = "save"
  /\ setting' = proc[p].cfg
  /\ Goto(p, "done")
  /\ UNCHANGED <<files, keychain, keyFile, job, history>>

-----------------------------------------------------------------------------
\* Faults.

DiskRefuses(p) ==
  /\ "disk" \in Faults
  /\ proc[p].pc \in {"makeFile", "write", "truncate", "save"}
  /\ Fail(p)
  /\ calm' = (calm /\ ~Apart(p))
  /\ UNCHANGED job

Crash(p) ==
  /\ "crash" \in Faults
  /\ Active(p)
  /\ Fail(p)
  /\ calm' = (calm /\ ~Apart(p))
  /\ UNCHANGED job

Proceed(p) ==
  \/ Begin(p) \/ BeginConverting(p)
  \/ AskKeychain(p) \/ MakeInKeychain(p) \/ ReadKeyFile(p) \/ MakeKeyFile(p)
  \/ ReadLayer(p) \/ OpenLayer(p) \/ ReadFile(p) \/ Store(p) \/ Seal(p) \/ Convert(p)
  \/ Write(p) \/ LoadConfig(p) \/ Truncate(p) \/ Save(p)

Next == \E p \in Processes : Proceed(p) \/ DiskRefuses(p) \/ Crash(p)

Spec == Init /\ [][Next]_vars

-----------------------------------------------------------------------------
\* What the files say, whatever form the values have.
Said ==
  [f \in Files |->
    [n \in Names |-> IF files[f][n] = Absent THEN Absent ELSE files[f][n].value]]

Promise == INSTANCE ValueStore WITH store <- Said

\* Each command changes the files once and as its job says, a conversion changes
\* nothing, a run generates only what is missing, and a value is lost only to a
\* command that rewrote the file from a copy taken before it (set_local,
\* unset_local, randoms, crypt::run).
ImplementsStore == Promise!Spec

\* Every encrypted value opens with the key a command finds, or with the one
\* PENV_LOCAL_KEY held when it was written, except under a key that was passed over:
\* the key file's once the keychain that had refused keeps one too, or one of two
\* first keys made at once (localcrypt::kept, file_key).
KeysFound ==
  \A f \in Files : \A n \in Encrypted(files[f]) :
    files[f][n].under \in {Answer, GivenKey} \cup passed

\* Between commands the sensitive values are encrypted exactly when the setting says
\* so, if no command that rewrites config.toml overlapped another or stopped halfway
\* and no value was stored without a key (crypt::run, localcrypt::stored).
SettingMatches ==
  calm /\ (\A p \in Processes : Reconfigures(p) => ~Active(p)) =>
    \A f \in Files : \A n \in Sensitive :
      files[f][n] # Absent => (files[f][n].under # Plain <=> setting)

\* What is encrypted opens with the key a command finds, and is what should be, apart
\* from the exceptions the two parts name (localcrypt.rs 1-10, crypt::run).
EncryptionHolds == KeysFound /\ SettingMatches

NobodyEdits == \A p \in Processes : job[p].cmd \notin {"set", "unset"}

\* "Generated once and kept": two runs have the same value of a key (source.rs:782).
GeneratedOnce ==
  NobodyEdits =>
    \A p, q \in Processes :
      LET a == proc[p].value
          b == proc[q].value
      IN proc[p].pc = "done" /\ proc[q].pc = "done" /\ a # Absent /\ b # Absent
           /\ job[p].name = job[q].name => a = b

\* Two runs disagree only if one generated a value the other had just generated.
RunsAgree == raced \/ GeneratedOnce

=============================================================================
