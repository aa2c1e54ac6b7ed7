# penv in TLA+

TLA+ models of penv, a secrets manager whose client is one Rust binary: what its
parts promise each other, checked with TLC on small instances and, where it
matters most, proved with TLAPS for every instance. `PROJECT.json` maps every
definition to the lines it models, lists the runs, the theorems, the hazards they
are aimed at, the findings, and one mutation of the code per property that the
property must notice.

    cd tla
    tlc -workers 2 -config Keypair.cfg Keypair        # a run: module and .cfg are in PROJECT.json
    tlapm HostProofs.tla                              # the proofs of a module

## The system

One `penv` process lives as long as its command. What outlives it is on the host
(keychain, cache folder, value files, `.env.schema`, `.penv/config.toml`, the
settings of agents' harnesses, the binary itself) or on penv.cloud. No daemon
coordinates processes: two commands on one host meet only in those files, and one
of them, the enrolled keypair, has a lock. Inside a process there are few threads:
the masker's pumps of `penv run`, signal handlers on whichever thread takes the
signal, and in a sealed run the threads of each proxied connection. The rest is
sequential, and what is hard there is the input: texts people wrote, expressions
over each other, files several programs edit.

| Component | State it keeps | Operations | Meets the others through | What is hard | What makes it correct |
|---|---|---|---|---|---|
| Keypair credential (`penv-cloud/credential/keypair.rs`) | keychain item: id, secret, generation; `keypair.lock` | obtain (lock, re-read, challenge, sign, exchange, bank), enroll | keychain, HTTP API | two processes with one counter, crash or lost answer between the server's count and the bank, re-enrolment without the lock | the server never reads a clone of a host that did nothing wrong; the counter never goes back |
| Environment cache (`cache.rs`, `commands/cloud.rs` `Fetcher`) | sealed files, `CACHE_KEY` in the keychain | revalidate: fresh, HEAD, GET, offline; write; forget | keychain, API, login and logout | stale entries, two processes making the key, an entry stamped by a 304 after the server moved, credentials that change | an answer is one the server would have given inside the window; never another credential's |
| Sign in and out (`commands/login.rs`, `logout.rs`, `reveal.rs`, `credential/*.rs`) | `USER` item | device poll, remember; revoke, delete; exchange; approval and redemption | keychain, API, agent detection | lost answers, expiry, a second login, the server's intervals | a live login is held by somebody; an agent reads only what a person approved; a login ends |
| API client (`api.rs`, `fetch.rs`, `error.rs`) | none | one retry on a 5xx, ETags, refusals | everything on the cloud | a retry of a request that was counted | part of the modules that use it |
| Writing to the cloud (`push.rs`, `pull.rs`, `project.rs`, `env.rs`, `write.rs`) | cloud values, header of `.env.schema` | create project, put batches, prune, remove files; write a layer; rename, delete | value files, schema, API | batches of which one fails, prune, files removed after they were read, headers written from an old text | nothing is removed that was not sent; the header names the project |
| Value files (`files.rs`, `localcrypt.rs`, `set.rs`, `crypt.rs`, `config.rs`) | `.env*`, local key, `[local] encrypt` | set, unset, generate, encrypt, decrypt | push, pull, run | whole files read, changed and written with no lock; a key made on first use; one file of several converted | no command changes a value it is not about; what is written can be opened |
| Dotenv files (`penv-dotenv`) | none | read, quote, upsert, remove, redact | every command that touches a value file | quotes over lines, unclosed quotes, markers, repeats | what was set reads back; other keys keep what they had |
| Schema (`penv-schema` parse, render, editor; `init.rs`) | `.env.schema` | parse, link, append, draft, answer an editor | every command | two readers of one text; a header rewritten in place | what penv writes reads back as meant |
| Value resolution (`source.rs`, `resolve.rs`, `functions/`) | none | layer, compute, judge, withhold | cloud, files, schema | precedence, write-only keys, references and cycles, taint | what is as secret as its sources is marked; order does not matter |
| Masker (`penv-mask`) | held bytes, mask reach | feed, finish | `penv run` pumps | values cut by reads, overlapping and wrapped forms | output is the stream scrubbed, whatever the cuts |
| Running the command (`commands/run.rs`) | child pid, dispositions, pump threads | spawn, pass_on, pump, drain, exit | masker, signals, terminal | signals at every moment of the child's life, slow or leaving readers, grandchildren | signals reach the child once, output is not lost, penv leaves with its command |
| Sealed connections (`sealed/mod.rs`, `upstream.rs`, `websocket.rs`, `http.rs`) | TLS state under two locks, slots, pending bytes | halves, pipe, splice, take a slot, relay with swaps | sealed protocols | threads that block on sockets with a lock held, the end of one direction, placeholders cut by reads, bodies cut short | records leave in order, connections end, values are swapped whole |
| Sealed protocols (`proxy.rs`, `run.rs`, `postgres.rs`, `redis.rs`, `scram.rs`) | one session each | which keys go to which hosts; HTTP proxy, startup, AUTH | sealed connections | an order of messages the peer chooses, a second host on one connection | a value goes only to its hosts and comes back as its placeholder |
| Upgrade (`upgrade.rs`) | the binary and its staged and retired copies | check, download, verify, swap, sweep | release server | a failing rename, a crash, two upgrades | a signed release that was picked, and a working binary after every step |
| Guards (`penv-guards`, `commands/guard.rs`, `hook.rs`) | settings of the harnesses | find, merge, check; decide a tool call | the agents' harnesses | files of any shape that people edit as well; payloads in any order | nothing a file says is lost; what is reported holds; a value file is refused however it is named |
| Code generation (`penv-targets`, `commands/gen.rs`) | `[targets]` of `config.toml`, generated files | settle, render, remember, move the old layout, check | schema, config | a crash in the move, answers asked twice | an answer stands |
| Editor server (`commands/lsp.rs`) | open documents | open, change, save, close, answer | schema, disk | messages ahead of the answers, a disk that changes | what is shown is of the text that is held |
| Checks, terminal, plugins | none | report, draw, complete | | I/O | |

## The modules

| Module | Models | Run | Proofs |
|---|---|---|---|
| `Keypair` | the bound keypair, its lock, its server | `keypair`, `keypair_reenrol` | `HostProofs` |
| `EnvPromise` | abstract: what reading an environment promises | `env_cache` | `EnvCacheProofs` |
| `EnvCache` | the cache, its readers, sign-in and sign-out; implements `EnvPromise` | `env_cache` | `EnvCacheProofs` |
| `SignIn` | device login, sign-out, exchanges, reveal with an approval | `sign_in` | `SignInProofs` |
| `CloudFolder` | push, pull, set, project and environment commands on one folder | `cloud_folder` | `CloudFolderProofs` |
| `ValueStore` | abstract: what the value files say and who may change it | `value_files` | `ValueFilesProofs` |
| `ValueFiles` | set, unset, random(), encrypt and decrypt; implements `ValueStore` | `value_files` | `ValueFilesProofs` |
| `RunChild` | the process that runs the command: signals, pumps, drain | `run_child` | `RunChildProofs` |
| `SealedHalves` | a proxied connection: its threads, locks and sockets | `sealed_halves` | `SealedHalvesProofs` |
| `SealedProxy`, `SealedLogin` | the HTTP proxy and the database logins of a sealed run | `sealed_service` | `SealedServiceProofs` |
| `SealedService` | composes them with the listener and its slots | `sealed_service` | `SealedServiceProofs` |
| `Masker`, `SealedRelay` | streams scrubbed or swapped as they are read | `texts` | |
| `DotenvText`, `SchemaFile` | a value file and a schema, edited and read back | `texts` | |
| `UrlParts`, `JsonParts` | the functions `url()` and `json()` | `texts` | |
| `AgentHook` | what the hook refuses | `texts` | |
| `Resolution` | what a value is computed to | `texts`, `resolution_reads` | |
| `Layering` | where a value comes from | `folder` | `HostProofs` |
| `Guards` | fragments merged into the harnesses' files | `folder` | `HostProofs` |
| `TargetFile` | a generated file's settled answers | `folder` | `HostProofs` |
| `EditorServer` | `penv lsp` | `folder` | `HostProofs` |
| `Upgrade` | the swap of the binary | `folder` | `HostProofs` |
| `Folder` | composes these five, each a topic | `folder` | `HostProofs` |
| `MC*` | the small instances TLC checks | | |

`Folder` and `MCTexts` compose several modules in one run. These share no state in the
code and none in the run: Init picks a `topic`, every step is one of that module's, and
what the topic does not use stays 0. A property of the run is the module's property
under its topic. `Folder` has a variable for each of its modules' and their constants as
its own, so that its theorems are about every instance; `MCFolder` gives the constants
their values, those of the larger modules from an MC module of their own. `MCTexts` is a
model to check only: its variables `v1`, `v2`, ... are each topic's in the order that
module declares them.

### Keypair

`pc` follows `BoundKeypair::obtain` for every command of a host: resolve
(`FromKeychain`), queue (`TakeLock`), re-read under the lock (`ReadAgain`), sign and
send (`ChallengeAndSend`), `Retry` after a 5xx, bank (`Bank`), hand the bearer back
(`Return`). `Enroll*` is `penv machine enroll`, which takes no lock. `Count` and
`ServerError` are the server, external: it expects one generation of each id, counts
it once and revokes the id for any other. The key, the nonce and the signature are
left out; only the id and the generation decide what the server answers.
`"keychain"`, `"timeout"`, `"server"` and `"crash"` are the faults, each a disjunct of
its own with the point in the code it can strike.

* `ClonedOnlyWithCause`: whatever the interleaving, the server reads a clone only
  of an id whose exchange was sent and never banked, or whose item was replaced.
* `BankedBeforeUse`, `CounterNeverGoesBack`: what runs next never signs a used
  generation.
* `EveryExchangeEnds`: under weak fairness of a command's own steps and of the
  server's answer. No fault is assumed to happen, so a lock that is not given back
  is not excused by a crash.
* Run `keypair_reenrol` violates `NeverReadAsClone`, which the comments of
  keypair.rs claim, and needs no fault for it: two commands resolve enrolment A at
  generation 1, the first signs it and banks 2, a re-enrolment then stores B, and the
  second, finding B, signs the A at generation 1 it had resolved.

Bounds: two commands, two enrollers, three ids, all faults. Two commands are enough
for every race on one generation (the third meets what the second left), two
enrollers for an item replaced twice. The proofs lift this to any number.

### EnvPromise and EnvCache

`EnvPromise` knows a clock, the server's states in order, and the readers' answers:
an answer must be the body of an epoch that was still running when the reader began,
or ended less than `Ttl` before in development; offline answers are for development
only. `EnvCache` has the keychain, the sealed file, and `pc` follows
`Fetcher::keys` and `Cache::revalidate` in each reader: credential, open, key made on
first use, read, HEAD with the ETag, GET, write, and the offline fallback. `Logout`
and `Login` go step by step beside them. `ImplementsPromise` is the refinement (the
variables of `EnvPromise` are variables of `EnvCache`, so the mapping is the
identity and every other step is a stutter).

* `ImplementsPromise`: no answer is older than its environment allows.
* `AnsweredToOwner`: what was sealed for one credential answers no other.

Bounds: two readers, three credentials, a clock of two seconds with a `Ttl` of two
(an entry can be fresh, at its limit and expired), two epochs (the body or who may
read it changes once under a reader).

### SignIn

`me[p]` is a command of one session: `Login` to the stored credential (`DeviceStart`,
`Sleep`, `Poll`, `Remember`), `Logout`, and a reveal, which takes the first credential
of `Places`, asks the platform, exchanges (`Exchange`, whose retry in the same second
signs the same bytes) and reads, or asks a person, waits, looks at the approval and
redeems it. `Ladder` is agent detection: the first marker that names an agent. Every
request is answered, or handled and answered by a 5xx, or handled and its answer lost
(`Fates`); the person who decides a code or an approval, and the time both run out, are
external.

* `LiveLoginIsHeld`: a login the server accepts is in the keychain or in a command's
  hands, unless a fault the code cannot undo took it away, each kept by name in `cause`.
* `RevealsWereApproved`: an approval prints one value at most, of the key a person was
  asked about, and no command that names another key spends it. The server may name any
  key when the approval is redeemed (`Redeem`), so both checks of reveal.rs count:
  `MaySpend` before, which `spent` records, and `MayPrint` after.
* `TriesDiffer`: no try is refused because an earlier one of the same command was taken
  in the same second.
* `EveryLoginEnds`, under weak fairness of each process's own steps: the server may name
  any interval, and nobody is assumed to decide anything.

Bounds: two sessions, each a person's, an agent's, a CI job's, a role's, or one that
looks like such and is not, or three agents' that only reveal, so that an approval two
of them hold is redeemed again; two keys, two approvals; intervals of zero and more than the cap; a clock of three. A
session runs one command, so it stops: CHECK_DEADLOCK is off. Two sessions are a login
that replaces or overlaps another's.

### CloudFolder

`file`, `link` (the header of `.env.schema`), `declared` and `ignored` are the folder,
`cloud` is the server. `job[p]` follows one command of `push` (read the layers, check
what can be refused, create the project or ensure the environment, write the header,
send batch by batch, remove what was read), `pull`, `set` and `unset` on either side,
`project new`, `rename`, `rm`, and the environment commands. `Attempt` is a request with
its one retry: refused, or done and answered, or done and its answer lost. `Crash` is a
kill between two steps. `stale` remembers which reads another command has overtaken and
`excuse` the projects whose header was lost to one of the named faults.

* `PushLosesNothing`: a push removes a file's value only when the server holds it, the
  environment's own layer replaced it, or another command wrote the file after it was
  read; and a prune deletes nothing the push sends or declares, in however many requests.
* `LinkedOrExcused`: a project made here is named by the header, is about to be, or lost
  it to a kill, a failure after the server acted, or an overlap.
* `DeclarationsKept`: every key the schema ever declared it still declares, or a command
  that emptied it is about to write it back. A write is two steps (`EmptySource`,
  `WriteSource`; files.rs:51-52). `kept` gives a declaration up where the code does: a
  process killed or a disk that refuses between the two, and a write by a command that
  another's overlapped, which includes one that read the schema while it was empty.

Bounds: every pair of thirteen commands, three keys in requests of two (so a payload is
more than one batch), values that are too long, cannot be held by a file or are
withheld, folders linked, unlinked, and beside another folder's project. The two
commands are symmetric. They end, so CHECK_DEADLOCK is off.

### ValueStore and ValueFiles

`ValueStore` holds what each file says of each key, whatever form the value has: a
command changes it at most once, at one instant and as its job says. `ValueFiles` has
the files as texts (a value and the key it is under, or plain), `[local] encrypt`, the
keychain item and the key file; `pc` follows `set_local`, `unset_local`, `randoms` and
`crypt::run`: read the whole file, look at the setting, find or make the key
(`AskKeychain`, `MakeInKeychain`, `ReadKeyFile`, `MakeKeyFile` are `key(create)`),
replace the whole file. `Convert` turns one file after the other and the setting is
saved last, emptied (`Truncate`) before it is written (`Save`). The refinement maps
`store` to `Said`, the values without their form.

None of it takes a lock, so the promises have named exceptions, kept as history
variables: `raced` once a command overtaken by another wrote what was no longer so,
`passed` the keys that are passed over (below), `calm` until a command
that rewrites `config.toml` overlaps another, or files and setting are left apart by a
fault, by a decryption that did not open, or by a value stored without a key.

* `ImplementsStore`: no command changes a value it is not about, a conversion changes
  none, and a run generates only what is missing.
* `EncryptionHolds`: what is encrypted opens with the key a command finds, or with the
  one `PENV_LOCAL_KEY` held when it was written (`KeysFound`), and it is encrypted
  exactly when the setting says so (`SettingMatches`). `localcrypt.rs` promises one key
  per user; `kept` and `file_key` break that in three places, which `KeysFound` excepts
  key by key (`PassedByKeychain`, `PassedByFile`): a keychain that works again gets a
  key of its own though the key file has one, a keychain that refuses a command has it
  make a key file beside the keychain's key, and of two first keys made at once the
  second takes the place of the first. What was written under a key so passed over does
  not open until the keychain refuses again, or ever.
* `RunsAgree`: two runs have one value of a generated key.

Bounds: two commands, each any of the five, on a sensitive key that rotates and may be
generated and a public one; files that are empty or partly set, either setting, a key
in the keychain, in the file or nowhere, `PENV_LOCAL_KEY` for one command, every fault.
Two commands are every pair of a stale read and a write; a third would only lose to
the second what it read. The proofs cover any number of commands and keys.

### RunChild

`pc` is `spawn` from the handlers to the exit; `Install`/`Keep` are `forward`
(signal by signal: penv's handler is in place for a moment before an ignored signal
is ignored again), `Handle`/`PassOn` are `pass_on` with the load of `CHILD` and the
kill as two steps, `Fork`/`Spawned`/`ChildStarted` leave room for a signal between
the fork and the store of the pid, `Pump*` are the pump threads, `Tick` is one turn
of the drain. Output is counted in units; the masker keeps one or none back.

* `SignalsArrive` (`SignalsReachOnce` and `PassedOn`): no signal twice, no ignored
  signal, none lost but the ones the code guesses a terminal sent.
* `StaysWithChild`: penv does not die before its child of a signal taken while it
  waits.
* `OnlyTheTailIsLost`: a reader that stays gets what the child wrote, but for the
  masker's tail.
* `EndsWithChild`: under weak fairness of penv's threads and of the exec; readers
  and descendants are not assumed to do anything.

Bounds: two pipes, two units, a drain of two ticks, one signal of either kind, sent
by a terminal or by a process. One signal is enough for all of `SignalsReachOnce`,
since a signal that is pending is not raised again and the handlers share nothing; the
proofs cover any number.

### SealedHalves

`th["up"]` and `th["down"]` are the two threads of `splice` and `pipe_with`; `kind`
says which of the two runs and `tls` which of its connections are TLS (both over a
WebSocket, the service's or none in a pipe). `conn` and `sending` are the locks of
`Shared`: `Made` encrypts under `conn` and goes on to wait for `sending` holding it,
`Order` takes `sending` and lets `conn` go, `Write` waits for room in the socket.
`ReadHalf::read` is `TakePlaintext`, `Feed` (the backlog up to the first plaintext,
and the answer it calls for), `WaitForSocket`, `Receive` and `ReceiveNothing`, with no
lock held while it waits. `Notify` and `Shutdown` are `close` and `end`. `made` is the
only ghost beside the peers' counts: the threads whose records wait, in the order they were encrypted. Peers
are external: they send, ask for an answer, close with or without a close_notify,
read, or go away.

* `InOrder`: the record being written is the first encrypted of those that wait.
* `NothingLost`: while a direction runs, what its peer sent is on the way or there.
* `EndsTogether`: after the service's direction, or either one of a WebSocket, both
  threads end, so the join does.
* `AnswerArrives`: a command that closes its side still gets the service's answer.

Fairness: penv's threads run, and a peer that was sent something reads it or goes
away. The code sets no write timeout, so without the latter a thread really is joined
for ever. Nobody is assumed to send, to close or to leave. Weak fairness is enough for
the locks because `MaxData` bounds how often one thread can take them before the other.

Bounds: sockets of two records, one record of data each way, one that calls for an
answer, from the service. Data, answer and close_notify are more than a socket holds,
so either thread blocks in a write with the other behind it.

### SealedProxy, SealedLogin and SealedService

`SealedProxy` is `sealed/run.rs` and `proxy.rs`: `Prepare` decides which keys a run seals
and for which hosts (written, or computed and pinned), or refuses the run; then each
connection is a tunnel, intercepted requests one after the other, a plain request or a
WebSocket. A message is the set of what it carries: placeholders, values, either inside
a Basic header, signatures. An origin sees what reaches it (`seen`) and may send back
anything it has seen, over a WebSocket as data or in a control frame, which `RewriteFrame`
lets through as websocket.rs:81-86 does. `SealedLogin` is the Postgres startup with every method a server
may ask for in any order, and the Redis commands that log in. `SealedService` composes
both with the listener: `Accept` takes a slot, `Drop` gives it back, one connection more
is turned away.

* `ValuesStaySealed`: a value reaches only its own hosts, in a request's head, over TLS
  unless the host is this machine, and no answer hands it to the command
  (`OnlyToItsHosts` and `EchoesComeBackSealed`). Control frames are excepted: an origin
  that puts a value in a ping hands it over. A value too short to be found in
  another's base64 is promised only in the exchange that carried it.
* `LoginHolds`: the client is let in only when the server has proved itself where SCRAM
  was begun, and the password is spent only as `require_auth` and `sslmode` allow, never
  in a weaker form later. Excepted by name (`early`): a server-final message before any
  server-first one is held against the zeros a session starts with (`CanSign`), so a
  server that knows nothing is believed. What Redis makes of a command (`Keeps`,
  `ReadsOptions`) is written from its grammar and apart from the guard that judges the
  command; where the two differ is `Misnames`.
* `TurnedAwayOnlyWhenFull`: a slot is given back once, however a session ends.

Bounds: two connections on one slot, two requests on a connection, four questions of a
database; the setups differ from a plain one in one thing at a time, the URLs in every
transport with every server and every `require_auth` with or without a role. The run is
of one listener, since a run's listeners share nothing. A refused run really stops, so
CHECK_DEADLOCK is off.

### Masker and SealedRelay

`Masker` is the loop of `scan` as a recursive function over the held bytes: `MatchAt`,
`PartialAt`, the window before which nothing can still be waiting, and the reach of a
mask over what is held. `SealedRelay` is how a body passes the proxy: a length, chunks, a
stream, a Redis reply with its own declared lengths, WebSocket frames. In both a read
returns any number of units up to a bound, and the reference is written from what an
occurrence is, over the whole stream, and not from the loop.

* `CutsDoNotShow`: at the end the output is the whole stream scrubbed; what is held is
  the start of something.
* `SwappedWhole`: what the command reads is the whole swapped at once, with lengths that
  hold; and a body cut short never looks complete.

Bounds: streams of seven bytes over two letters and a line break, bodies of five, reads
of one to three; patterns that overlap themselves and each other, one of them wrapped.
Seven holds a pattern of four with a break in it and what follows.

### DotenvText and SchemaFile

`DotenvText` is the reader (quotes, escapes, comments, PEM blocks, markers of withheld
keys, values over lines) and the writer (`Quote`, `Upsert`, `Dropped`, what `pull`
writes). `SchemaFile` is the parser, the canonical writer, `set_header`, the block `set`
appends, the draft of `init`, and the editor's own reader of blocks.

* `EditReadsBack`: what is set reads back as given and every other key keeps what it
  had, whatever the file held. Files that end inside an open quote or PEM block are
  excused (see the observations). Carriage returns, which `Quote` also quotes, are not in
  the alphabet.
* `SchemaReadsBack`: a rendered schema reads as itself, a draft as what was inferred, an
  appended key after those before it and as drafted but for what a header decides, a link as the address and nothing else
  (`PlainHeader` names the headers this is promised of); and what an editor shows of a
  key is what the parser reads.

Bounds: every file of two lines out of eleven and of three out of six, one edit to one of
thirteen values, each a way of quoting; schemas of the shapes in `MCSchemaFile`, one
command each. An edit sees only the text, so longer behaviours are more starting texts.

### UrlParts and JsonParts

`Parse`, `Render` and `Write` of `url()`, and the paths of `json()` with what they make on
the way. `CallsReadBack`: a written part or path reads back as given and every one the
call did not name reads as before. Bounds: two calls, the second over what the first
made; every special character in every part; documents with arrays, nulls and quoted
names. Excused by name (`Unreadable`): see the observations.

### AgentHook

The payload of a harness is a tree of fields in the harness's order; `Extract`, `Decide`
and the glob matcher are as in hook.rs. `HookHolds`: a value file is refused wherever it
is named, in whatever order; a command that is refused is refused in a shell handed it
and before or after another; and the matcher, which goes back to the last star only,
agrees with the definition that tries every length for every star. One payload, family
and pattern a behaviour.

### Layering and Resolution

`Layering` follows one key through `values_with`: the files in order, the overlay on a
bundle or a cloud, the process, markers, the refusal of a withheld key, the default.
`LayersHold`: a key known to be write-only is never handed over as missing, empty or
defaulted; what replaced the cloud's value is named, once, as the last that did; and
`penv(env/KEY)` reads what a run there would.

`Resolution` keeps of a value whose data it carries. `Eval` is resolve.rs form by form
(references, defaults, filters, templates, the functions that pass taint, stop it or read
a part), with the memo, the stack, cycles and depth; `ComputeKey` takes the keys in any
order; then `Judge` marks (`Tainted`), hands a sealed command its placeholders and reads
the computed hosts.

* `HiddenIsMarked`: what carries something sensitive belongs to a marked key, a sealed
  command gets placeholders, and computed hosts hide nothing.
* `OrderDoesNotMatter`: what a key comes to does not depend on what was asked for first
  (but for a chain at the limit of the depth).
* Run `resolution_reads` violates `ReadsAreMarked`, the finding below.

Bounds: two files, every layer holding the key, holding it empty or not, in each mode.
Three computed keys: every expression of twenty-two over pairs of the others, and theirs
over some of its, in every order, at two depths; the other environment has a key
computed from its password.

### Guards

`Edit` is a person leaving any tree or lines in a harness's file, between runs or under
one, `Upgrade` another release of penv that renders more. `Begin` starts `guard`, `guard
--check` or init's run; each write is a `Look` (read and merge) that ends in an `Answer`
or in `Empty` and `Put`, the two halves of files.rs:51-52, or in `CutShort` between them;
`Stop` is a refusal or a kill. A tree is a function from paths to nodes. `theirs` is what
a person last left in each file, `lost` the files where the code does not keep that: cut
short in a write, or edited between the read and the write.

* `KeepsWhatIsThere`: in every other file all of `theirs` is still there, in place and in
  order. Bytes that are no text are not promised: the code takes them for no file.
* `SaysWhatHolds`: what a run reports is so: a rule is in force or named as overridden,
  never both, and a second run adds nothing, of any fragment that holds a rule (`Settles`).
  A script with comments among its commands is called overridden by the next run though
  its commands do come first, which `LinesSay` says.

Bounds: six kinds of write, two releases, every tree over two paths and files that are
not text, scripts and lines with or without a shebang, comments and commands of others,
also in what penv renders.

### TargetFile

`Gen` loads and layers the target, settles where it goes and what is asked, writes the
file and remembers: `SaveSection`, `MoveTemplate`, `DropTemplate`, `DropFields`, each a
step, with a `Crash` or an `Edit` between any two and `CutShort` in the middle of a
write. `AnswerStands`: once kept, the target loads as what was rendered at every step, so
nothing is asked again; and no run changes its other fields or its template. A write of
`config.toml` or of the moved template that is cut short is the exception: it leaves
any part of the section (`Remains`), or half a template that the next run finds to exist
and drops the old one beside, and no answer is kept then. Bounds: two commands; every section with every old
folder in five worlds (home, built-in, neither).

### EditorServer

The editor writes its messages ahead of the answers into `pipe`; `Read` takes one, and
each handler of lsp.rs is an action. `ShownIsCurrent`: once the pipe is read, each
document shows what its text has, on a disk no older than the last time the editor spoke
of it, and an answer was about the text it was asked of. Bounds: two documents, two
texts, two disks, four messages.

### Upgrade

`ReadRelease`, `Download`, `OpenStaged`, `WriteStaged`, `SwapUnix` or `Retire`, `Land`,
`Restore`, and `Die` anywhere; names point at files, so a rename takes a file from under
its writer. Anyone may serve a release; only a key signs. `UpgradeHolds`: a whole binary
written here is the release that was picked; where upgrades do not overlap `penv` is
there at every moment on unix, and on Windows but between retiring and landing or after
a loss that was reported; and an upgrade that says nothing was replaced replaced
nothing. Bounds: two upgrades, three versions, a forged and a torn binary.

## Runs and bounds

Every constant that bounds a run is given in its `.cfg`, most with a comment, and the
inputs in the `MC` modules. The runs that pass are exhaustive over them. Runs whose
commands, streams or topics come to an end switch the deadlock check off, since the
system really stops.

Liveness is checked where something must end: `EveryExchangeEnds`, `EndsWithChild`,
`EndsTogether`, `AnswerArrives`, `EveryLoginEnds`. The fairness is weak and of penv's own
steps, which an operating system's scheduler gives; of the outside world only what the
sections above name (a server's answer for the keypair, a peer that was sent something
reads it or leaves).

## Findings

* `keypair_reenrol` (`NeverReadAsClone`): with no fault at all, two commands resolve A:1, the
  first signs it and banks A:2, only then `penv machine enroll` stores B, and the second
  signs A:1 again (keypair.rs:133-135 against its comment at 74-76). Had B been stored
  before the first banked, its bank would have put A:2 back and the second read that.
* `resolution_reads` (`ReadsAreMarked`): a `penv()` read is judged by its key's
  declaration alone (resolve.rs:195), so a key another environment computes from a
  password is shown here, against resolve.rs:184-185 and docs/Design.md:119.

## Observations

Met while modelling, and not runs of their own. Where a property has an exception for one
of these, its comment names it.

* Two first runs each generate a `random()` value and one runs with a value nobody kept
  (source.rs:782, 824): `RunsAgree` allows it once the commands overlapped. A second
  local key is made once a keychain works although a key file exists (localcrypt.rs:111).
* A read begun before a sign-out may write its cache file after it (cache.rs:285).
* The drain does not count the last write of the masker's tail to a slow reader
  (run.rs:444, 530). A SIGINT, SIGHUP or SIGQUIT sent by a process to a foreground penv
  reaches nobody (run.rs:550, 589).
* Two overlapping upgrades on unix write one `penv.new`, so what is installed can be torn
  (upgrade.rs:411-414). `PenvStays` is of upgrades that do not overlap.
* Two processes with one set of AWS keys in one second send byte-identical signed
  requests, of which one is refused (api.rs:623-624).
* `upstream::tcp` sets no read timeout, so a silent database holds a session and its slot.
* `B=penv(API_KEY)` hands a sealed command the real value of `API_KEY` (source.rs:646-665
  reuses what was fetched): `SealedGetsPlaceholders` excepts `penv()`. A `penv(env/KEY)`
  whose KEY is computed from a withheld key computes with that part empty. A chain near
  the depth limit fails or not by the order of the keys.
* A header whose only decorator is `@assert` loses the assertion when it is linked, and
  prose that names `@penv=` in the first block is rewritten (render.rs:160-221). A new
  key set under `@defaultSensitive=false` is stored as sensitive but its block reads as
  not: `ReadsAs` holds a drafted key's sensitivity and need only to what the header
  leaves to it. `init --force` in a linked folder drops the header.
* `set` in a file whose last quote or PEM block is never closed appends inside that value
  (write.rs:101-121). A marker on a first line with a BOM is read but not found by an edit.
* `write_file` empties a file and then writes it (files.rs:51-52), and nothing reads it
  back: a kill or a full disk in between leaves `.env.schema`, `config.toml`, a moved
  template or a harness's settings empty or in part, with no other command about. For
  a harness's file that is against merge.rs:18-19. Value files go through a temporary
  file and a rename.
* A settings file that is not UTF-8 reads as no file, so `guard` and `init` replace it
  whole (commands/guard.rs:197, 225), against the same line. A script whose fragment has
  comments among its commands is called overridden by the run after the one that wrote
  it, and a fragment of comments alone is added once more by every run (merge.rs:219-257).
  No built-in guard has either.
* A WebSocket's control frames are passed on as they are (websocket.rs:81-86): an origin
  that puts a value in a ping or a close hands it to the command. docs/Design.md:255 says
  that each frame is exchanged on its own, where the fragments of a message are joined.
* SCRAM's server signature starts as zeros (scram.rs:46) and a server-final message is
  not held to come after a server-first one (postgres.rs:393-403), so a server that opens
  with one over 32 zero bytes is taken to know the password, against postgres.rs:308-311.
* A Redis command that gives its placeholder for its user, or calls its client AUTH with
  `HELLO ... SETNAME AUTH`, gets the password put where no password is read
  (redis.rs:107-113).
* A knob with a default in its `[[option]]` and no value is rendered as undefined and
  then remembered as its default, so a check right after a write can be stale
  (target.rs:50-53). `gen --out` without a terminal settles an answered target again.
  Two processes saving `config.toml` at once lose one section.
* `url()`: a path written with an `@` makes later reads of the host refuse, and a port of
  more than five digits is written but not read.
* A `Content-Length` that is no number loses the framing of the editor's pipe for good;
  the model's editor does not send one. A change to an imported file shows only after
  the document's next change or save.

## Proofs

`HostProofs` proves of `Keypair`, for any sets of commands, enrollers and ids: `Typing`, and
with a lock (`LockDir`) `Cloned`, `Banking` and `Counter`. The invariant is not the
property: `ClonedOnlyWithCause` is kept only because one command at a time is past
the queue (`Exclusive`), the item it works with does not move between its re-read
and its bank (`SeesKeychain`), and the keychain's counter is the server's, or one
behind while a grant is out (`InStep`), for every id the host has not lost track of
nor replaced. `WireKnown` says what a request still on its way can be, and
`EnrollingFresh` that an id just issued is held by nobody. `LockInv` is their
conjunction; it was checked with TLC before it was proved.

`EnvCacheProofs` proves `Typing`, `Owner` and `Implements`. A reader's entry belongs to
the credential it found (`OwnedEntries`), the file to the identity it is bound to
(`OwnedFile`), and opening one checks both. For the refinement of `EnvPromise` every
entry, in a reader's hands or in the file, is `Genuine`: the body of an epoch, given to
a credential that epoch took, and stamped no later than the epoch ended (`Until`). An
entry is answered only while its stamp is younger than `Ttl`, so the epoch it came from
ended less than `Ttl` before; after a 304 the stamp is the reader's own beginning, and
the version it asked with names the epoch still running. `Bounded` keeps the versions
within the number of epochs.

`SignInProofs` proves `Held` and `Approved` for any number of sessions, codes and
approvals. By session, `Signing`: the code in its hands is granted where it is kept and
over, or excused, where the keychain is about to forget it. `Revealing`: the approval it
is about to spend is of the key it asked for, since `MaySpend` was held. `Spent` ties a live login to one code, and `Printed`
says that only a redeemed approval has been printed or spent, and of its key. `Differing` proves
`TriesDiffer` for any number of commands of a session, tries and seconds: the server's
record of a second names the command that used it, and `Timely` says that nothing is
recorded for a command after the last second it signed for, so its next try, signed for
a later one, meets only other commands. `Typing` proves `TypeOK`: `Holding` is what a command
has in its hands where it stands, a key of the list wherever it is after one.

`CloudFolderProofs` proves `Typing`, `Linked`, `Declared` and `Harmless`, which is every
property of the run, for any number of commands, keys, environments and projects. For
the schema the invariant is `Writing`: a command about to write it has the text it read,
and either that text is what the schema still says or the command is marked late
(`"schema"` in its `stale`); one that has emptied it finds it still empty, unless it is
late. A late command's write, and one that ends between its halves, take from `kept`
what they drop.
`Harmless` (`PushLosesNothing`) needs three facts of a push (`Pushing`). `AsRead`: what
it found in a file that nobody wrote since is what it sends, for the keys that came from
that file. `Accounted`: from the checks on, every value it sends can be sent and is still
to send or was taken as it is, so that when nothing is left to send the server has what
the files say. And one that prunes fits in one request (`Prunable`): `BatchWhole` counts
the keys before each in the order they are sent, which makes the first request the whole
payload, so a prune never meets a key of a later request. `StepBeside` is what the step
of one command leaves every other with: what it knows, but for a file that is now late.

`ValueFilesProofs` proves every property of the run for any commands, keys and faults.
`Steps` says what job brings a command where it is.
For `Implements`, the refinement of `ValueStore`, `Copies` says that a command which
nobody overtook holds the file as it is, and that what it will write is its job done on
that copy; `Misses`, that a run about to generate a value has seen that no file has
one. A write that no race excuses is then one step of the store, and a conversion is
none (`Sayings`). `Agreement` (`RunsAgree`) needs that without edits a file never takes
back what it said and that only one of them says anything of a key (`Agreed`).
`Encryption` (`EncryptionHolds`) has two parts. For the keys, `Lasting`: the ciphertexts
in the files and in every copy are under keys that are kept or were passed over, whoever
is about to make a key has seen that there is none, and where both places hold a key the
file's was passed over. For the setting, `Calmed`: at most one command
at work reconfigures, and `Form` says of each file which setting it is of while that
command is on its way from the first file to `Save`.

`SealedHalvesProofs` proves `Typing` and `Ordered` for sockets of any size and any
amount of data. `InOrder` says nothing of who waits, so it is not inductive: `Held` adds
that `conn` is held exactly by the thread that waits to send and `sending` by the one
that writes, and `Waiting` that what waits is what those two hold, the writer's record
first (`Queue`). A third record would need `conn`, which the waiting thread keeps until
it may write. `Kept` (`NothingLost`) counts: `OnTheWay` adds the pieces of data in the
two sockets, the backlog, TLS, the thread and its record, and every step moves one from
one of these to another. A read replaces the backlog, and drops nothing because a thread
is back at its socket only with an empty one and no record of its own (`Steady`); on a
plain connection there is nothing but data to read (`OnlyData`). A count over a sequence is the cardinality of
the set of its places, so the library's facts on finite sets do for an induction.

`SealedServiceProofs` proves `Sealed`, `LoggedIn`, `TurnedAway` and `Limited` for any
setup, hosts and sealed URL, any number of connections and any limit on them. For the
HTTP proxy, what an origin has seen of a key is `Due`: the key is sealed and its hosts
allow that origin, and it came in a head, over TLS or to this machine. `Kept` adds that a tunnel goes only where no
key may, and that what a request carried up is among what its answer swaps back. For the
databases, `Reckoned` says how far a login is: its role pinned and placeholder proved
before it connects, its transport made before it answers, the server verified where
SCRAM began, or taken at its word too early. For the listener, `SlotInv`: the count of slots is the number of connections
served.

`RunChildProofs` proves `Typing`, `Arriving`, `Staying` and `TailLost` for any pipes, any
number of signals and any amount of output. For the signals the invariant counts (`Counted`): of every signal raised while the child is there to
have it, penv has it pending, a handler is at it, or the child received it, and nothing
else. It needs which handlers `forward` has put in place (`Laid`: only between its two
steps has an ignored signal penv's handler) and who knows of the child (`Held`: a
handler that runs while penv waits has its pid). `TailLost` (`OnlyTheTailIsLost`) follows
the child's own output (`OnItsWay`): while its reader stays, it is in the pipe, with the
pump, in the masker or delivered. The drain gives up only on ticks in which nothing moved, and `Draining`
says that once it counts one, all a child wrote is with its reader but the unit a masker
keeps, whatever descendants still hold the pipe.

`HostProofs` proves every property of the run `folder`, for every value of the constants
of its modules. Each module states the inductive invariant its promise rests on; TLC
checked each before it was proved.

* `UpgradesHold` (`UpgradeInv`): nothing is written that was not the picked release
  (`Verified`, `Picked`), names are never shared (`OneName`), so a rename cannot take the
  installed file from under another name, and `HasFolder` follows the binary an upgrade
  runs, from installed to retired and back, while nobody joins it (`Undisturbed`).
* `AnswersStand` (`TargetInv`): an answer is kept before the old folder goes, and the
  folder's parts go in an order in which the target loads the same at every step.
  `Remembering` says that what is to be remembered was loaded from the folder as it still
  is, `Moving` that from the save on the section says all the old folder did and that
  its template stands before the old one goes; after a write cut short nothing is kept,
  and there is nothing to show. An answer must be a path that
  normalises to itself (`FreshIsKept`): the lemmas on `Walk` show that a path taken
  through `Inside` is one.
* `LayersAgree` (`LayersInv`): the loop over the files holds at each point the last file
  that says anything of the key (`Reading`: `ValueIn`, `FileIn`, `StandsIn` of the first
  `at` files), and what the overlay and the process make of it is written out stage by
  stage (`Overlaid`, `Decided`) to be compared with the other path, that of `penv()`.
* `ShownStaysCurrent` (`EditorInv`): what is in the pipe, and not what either end holds,
  says whether they agree. `Carried` is a text at every point of the pipe, from the one
  the server holds to the editor's, that each message leads to the next; `Current`, that
  what is shown is of a disk since the last word, unless more is in the pipe.
* `GuardsStand` (`GuardInv`): `Underway` says that a run between its read and its write
  holds a file that parsed. What a person wrote is kept from one merge to the next because
  a merge keeps what it is given and keeping is transitive (`Keeps`); what a run reports
  holds because a merge of a merge is the merge and names the same. These are lemmas on
  `MergeTree`, `MergeScript` and `MergeLines` over any tree and any text: a merge keeps
  every node and line that was there, in order, and says the fragment but for what it
  names. While a file is emptied, what it said is in the run's hands (`Held`).

The merges, the walk of a path and the layering fold over sequences. They are written as
recursive functions (`Grown`, `CommandsOf`, `Walk`), and an induction over their argument
is done by hand where it is needed: a least counterexample among the naturals, whose
predecessor is none.

The assumptions are those of the modules, which TLC evaluates in every run that extends
them: the empty values are none of the others (`NamesAssumption`, `EmptyAssumption`,
parts of `SignInAssumption`, `FolderAssumption`, `ProxyAssumption`, `LayerAssumption`,
`EditorAssumption` and `UpgradeAssumption`), bounds are
naturals (`CacheAssumption`, `SocketAssumption`, `RunAssumption`, `ServiceAssumption`, and
MaxCommands in `SignInAssumption`),
kinds of keys are keys (`ValueAssumption`), and faults are of the known kinds
(`FaultsAssumption`). `LoginAssumption`: none of the arguments a Redis command may carry
is the sealed password, which the command never has. `NameAssumption`: no environment is
called `schema`, as `check_environment` sees to, and a value is none of the model's marks.
`InputAssumption`: the folders and commands of a run are of the shapes declared, and a
push sends each key once (`KeySeq`), which is the one thing taken as finite.

`LayerAssumption` names a value for the layer it is in: which layer won is all the
promises tell apart. `TargetAssumption` is the shapes of a target's fields and rules, and
that a knob's default is one of its values, which the loader refuses otherwise.
`GuardAssumption`: what a release renders is not empty and has the format of its write (a
template that renders no JSON is refused, merge.rs:29-32), and a line is a shebang only
where it is the first, since merge.rs:219-228 takes any other `#!` for a comment, which it
is then in the model.

Only model-checked:

* Liveness (`EveryExchangeEnds`, `EveryLoginEnds`, `EndsWithChild`, `EndsTogether`,
  `AnswerArrives`), and ENABLED with it: the prover does not reason about fairness.
* The run `texts` (`CutsDoNotShow`, `SwappedWhole`, `EditReadsBack`, `SchemaReadsBack`,
  `HookHolds`, `HiddenIsMarked`, `OrderDoesNotMatter`, `CallsReadBack`): `Masker`,
  `SealedRelay`, `DotenvText`, `SchemaFile`, `UrlParts`, `JsonParts`, `AgentHook` and
  `Resolution` are algorithms recursive over texts and expressions, in RECURSIVE
  operators. What they compute for every input needs an induction over data, for which
  the library's theorems take an operator no installed prover can instantiate. What can
  be had without one is proved: a count is a cardinality (`SealedHalves`), a first element
  the least of a set of numbers (`SealedService`), an order a relation (`CloudFolder`),
  a fold over a sequence a function of how far it is (`Guards`).

## Not modelled

* Cryptography: a sealed text is what it was sealed from, with what; a signature is
  who made it over what. Certificates, hashes, salts and the platforms' wire formats.
* Validation of values against types, completions and hover texts, and the templates of
  generated files: text from text with no state, where a model would repeat the code.
* `check`, `scan`, `why`, `state`, `ls`: they read files and report.
* Drawing, prompts, wording, argument parsing, shell completions.
* The preload, the plugins and Windows' job objects: code of other runtimes.
* Writing a deploy bundle: one file, written whole by one command; reading one is a
  layer of `Layering`.
* Imports of one schema by another, and the local clock's date arithmetic.

`components` in PROJECT.json says for each part what is left.
