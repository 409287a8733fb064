# Launchfile in TLA+

Specifications, model-checking configurations and proofs for the Launchfile
providers and CLI in this repository: what `launchfile up`, `down`, `env`,
`bootstrap` and `diagnose` do to processes, containers, servers, ports, secrets and
the files that remember them, when several of them run, fail, are interrupted or
are killed, and the Launchfile is edited in between.

Paths below are those of the repository. TLC configurations are the `.cfg` files,
one for each run named in `PROJECT.json`; `PROJECT.json` also gives, for each
definition, the lines of source it models.

    tlc -workers 2 -config PMStart.cfg MCProcessManager    # one run
    tlapm ProcessManagerProofs.tla                         # one proof module

1. The system and its components
2. Modules
3. Runs: what each one checks, and its bounds
4. Fairness
5. Proofs
6. What the properties except
7. Disagreements found
8. What is abstracted, and what is not modelled
9. Plan

## 1. The system and its components

A *Launchfile* describes an application: its components, what they require
(databases, ports, secrets, storage), how each starts, and how one tells that it is
healthy. `launchfile up` gives it to a *provider*, which makes it run; `launchfile
down` stops it, and `down --destroy` forgets it. There is no daemon. Every command
is a short- or long-lived Node process of its own, and commands meet only in files
and in what the operating system, the docker daemon and the machine's database
servers hold. That is where the difficulty is: files read, worked on for minutes and
written back; pids that outlive the processes they named; failures half-way; promises
that settle in any order; a Launchfile that is another one at the next `up`.

### Native process manager
`providers/macos-dev/src/process-manager.ts`, `health.ts`, `provider.ts` (`runUp`)

- **State**: for each component its `ManagedProcess` (status, child, `healthPassed`,
  exit), the dependency batches of `topologicalSort`, which batch `startAll` is
  on, `state.json`'s `processes`, the SIGINT handler.
- **Operations**: `startAll`, `startOne` (with its `condition: healthy` gates),
  `awaitHealth`, the final sweep (`watchForExit` for the unchecked), `stopAll` and
  `stopOne`; `runUp` records the pids in its `finally`; the handler stops all,
  clears the pids and exits.
- **Interacts with**: the processes (exit events), port and HTTP probes, the clock,
  the user's Ctrl+C, `state.json`.
- **Hard**: components of a batch start concurrently and any of them may reject,
  exit or be polled meanwhile; exit events race probes, and the installation of
  their own listener; Ctrl+C races the launch; the session may die anywhere.
- **Correct when**: nothing starts before its gates are clear; success means that
  everything came up; a component is stopped after those that need it; what survives
  the session is on record; what was forgotten is dead; `startAll` always settles and
  Ctrl+C always ends.

### Native `down` and the process stopper
`providers/macos-dev/src/process-stopper.ts`, `provider.ts` (`runDown`)

- **State**: the recorded pids and start times; who now has each pid; how far
  `stopProcess` is.
- **Operations**: `kill(pid, 0)`, `checkIdentity` by `ps -o lstart`, SIGTERM to the
  group, a grace period, SIGKILL to the group, dropping all pids.
- **Hard**: `down` runs minutes or weeks after `up`, in another process: between any
  two steps a process exits and its pid may go to a stranger; `ps` fails; the
  clock has been set; `down` is killed.
- **Correct when**: no stranger gets a signal; a forgotten component is dead; `down`
  ends.

### Native `up`, `down`, `env`, `bootstrap` and `state.json`
`providers/macos-dev/src/provider.ts`, `state.ts`, `env-writer.ts`, `resources/*.ts`,
`prepare-fingerprint.ts`, `storage.ts`, `secret-generator.ts`

- **State**: `.launchfile/state.json` (records of resources, secrets, generated
  variables, ports, bound paths, publication URL, fingerprints, processes), the env
  files, the role and databases of the app on each shared server, what each directory
  was last prepared from.
- **Operations**: refusals that narrow the components; provisioning of each resource
  name, the record saved before the role is made; ports, addresses, variables; env
  files; prepare, once per directory and command; release; start and record; `down`,
  `down --destroy`, `env`, `bootstrap`.
- **Hard**: state.json is read, held for minutes and written back whole, by commands
  that may run beside one another; a truncating write; a role that remembers its
  first password; fingerprints taken before the command they stand for; selectors,
  optional resources and edits that change what an `up` sees.
- **Correct when**: a url handed out opens its server; what is on a server is on record;
  what is generated is kept; a prepare is skipped only when it was done; what runs
  can be stopped; `env` says what the running app has; two uses never share a database.

### Deployment index, and the CLI's `up` and `down`
`packages/launchfile/src/state/index.ts`, `commands/up.ts`, `commands/down.ts`, `state/fs.ts`

- **State**: `~/.launchfile/deployments/index.json` (id, source and name, provider,
  status); for each instance, whether its provider has anything running and any state.
- **Operations**: `findBySource`, `addDeployment`, `updateDeployment`,
  `removeDeployment`, each a read of the whole file and an atomic replacement of it;
  the status a launch earns, by the phase in which it failed.
- **Hard**: the row looked up before a launch decides what is written after it; no
  lock; a command killed between provider and index.
- **Correct when**: what runs has a row; an instance has one; the row tells the truth;
  a destroyed deployment has none; no command loses another's row.

### Error records and `diagnose`
`packages/launchfile/src/state/errors.ts`, `commands/diagnose.ts`, `up.ts`, `down.ts`, `bootstrap.ts`

- **State**: `errors/<key>.json`, one per key; `errors/last.json`, the pointer; the key
  is a slug, or what was typed before there is one, or a directory, and the file's name
  is made from it by replacing characters and cutting.
- **Operations**: a launch error captured (record, then pointer, then row); a success or
  a destroy that clears what it supersedes (record, look at the pointer, pointer).
- **Hard**: three files written by commands that run beside one another and may be
  killed between any two; two keys for one deployment; a key whose file is another's,
  or the pointer's.
- **Correct when**: `diagnose` shows the failure that the operator asks about; a
  record does not outlive the success that supersedes it.

### Docker provider: state and secrets
`providers/docker/src/provider.ts` (`dockerUp`, `dockerDown`), `state.ts`

- **State**: `state.json` (source, minted secrets) and `docker-compose.yml` of a slug,
  its compose project's volumes and containers.
- **Operations**: load or mint, refuse a slug that another source owns (D-55), write
  both files, release, `compose up -d`; `compose down [-v]` and remove the directory.
- **Hard**: two commands on a slug; files truncated and then written; a `compose down`
  whose failure is ignored; the database remembers the first password for ever.
- **Correct when**: a volume's password is never lost; containers run with the volume's
  password, for the source that owns it; only `--destroy` ends a deployment.

### Docker provider: generation, releases, start and health
`providers/docker/src/compose-generator.ts`, `app-url.ts`, `certificates.ts`,
`host-capabilities.ts`, `secrets-namespace.ts`, `release.ts`, `provider.ts`, `sdk/src`
(selection, uses, resolver)

- **State**: the locals of `launchToCompose` (minted values it adds to, the resolver's
  context, the services so far); the compose file; volumes and the containers created
  from it.
- **Operations**: component by component a refusal or a translation, entry by entry a
  backing service, a supplied resource, a granted capability; refusal of the `up`;
  both files written; releases in dependency order; `compose up`; the health wait.
- **Hard**: a component is refused when its siblings are already wired to the same
  backing service; an old state.json keeps passwords among secrets; `compose run` and
  `compose up worker` bring up what was not asked for; the Launchfile changes between.
- **Correct when**: what is generated is whole; minted values are kept and open their
  database; uses have databases of their own; nothing serves before its release or
  without what it requires.

### Port allocation
`providers/docker/src/port-allocator.ts`, `own-ports.ts`, `providers/macos-dev/src/port-allocator.ts`

- **State**: the saved ports, the ports given so far in this allocation, the slots the
  deployment's own containers publish, who binds what on the machine.
- **Operations**: for each endpoint probe the saved port, the declared one, then a range
  from a hashed place on; save; publish.
- **Hard**: nothing reserves a port; each probe is an await; the Launchfile is edited.
- **Correct when**: two endpoints never share a port; a busy port is never settled on
  through a stale answer; an unchanged deployment keeps its ports.

### Components without a module

| component | state and operations | why not |
|---|---|---|
| native runtimes | installs toolchains by running commands | no state of the deployment |
| path confinement | refuses a path before any write | no state |
| source resolution and locks | looks a target up on disk and on the network | which deployment a target names is in DeploymentIndex (`BeginUp`, `BeginDown`) and ErrorRecords (`KeyOf`) |
| list, status, logs | views of the state the modules keep | read-only |
| SDK: reader, schema, lint, writer | parse and check one document | no state |
| SDK: durations, versions, toolchains, source URLs | parsers of short strings | unit tests exhaust them |
| redaction and logging | string replacement on the way out | no deployment state depends on it |
| AWS provider | Launchfile to Terraform text, never applied | its one piece of memory, the prior stack, is in the plan |
| catalog, sites, scripts, smoke tests | examples | around the program |

## 2. Modules

| module | models | extends, instantiates |
|---|---|---|
| `ProcessManager` | one `up` session of the native provider | |
| `ProcessStopper` | one native `down` after another on what an `up` recorded | |
| `DeploymentRegistry` | abstract: a registry with indivisible edits | |
| `DeploymentIndex` | `index.json` under any number of commands | `DeploymentRegistry` (refinement `Registry`) |
| `DeploymentLifecycle` | abstract: what a deployment promises its operator | |
| `DockerDeployment` | a slug's files, volume and containers under concurrent commands | `DeploymentLifecycle` (refinement `Lifecycle`) |
| `PortAllocator` | both port allocators, what runs and what others bind | |
| `Launchfile` | pure: selection, uses, expressions of the SDK | |
| `AppAddress` | pure: published endpoints, certificates, `$app` | `Launchfile` |
| `HostCapabilities` | pure: granting and refusing host capabilities | `Launchfile` |
| `BackingServices` | pure: docker's factories, passwords, covered uses | `Launchfile` |
| `ComposeGenerator` | `launchToCompose`, entry by entry | the three above |
| `DockerUp` | docker's `up` and `down` around it, one after another | `ComposeGenerator` |
| `NativeResources` | pure: the native provisioners' records and properties | `Launchfile` |
| `NativeEnv` | pure: the native variables, addresses, refusals, fingerprints | `NativeResources` |
| `NativeUp` | native `up`, `down`, `env`, `bootstrap` on one project | `NativeEnv` |
| `ErrorRecords` | records, pointer and rows of failures, `diagnose` | |
| `MC...` | the small instances for TLC | the module of that name |
| `...Proofs` | theorems and proofs | the module of that name, `TLAPS` |

Definitions whose comment begins with *Faulty* are deliberately wrong variants of the
operator that follows them. No specification uses them; each is a bug one could make
in that piece of code, and TLC finds the property named for it in `PROJECT.json`
(`mutants`) violated when the operator is replaced by it. They show that the property
has something to say.

Several modules keep a history variable `odd`: the set of things that have happened
which the code does not provide for (two commands at once, a torn file, a recycled pid).
In ProcessStopper and DeploymentIndex it is kept per component and per instance, so that
what befalls one takes nothing from what is said of the others.
Nothing is excluded from the behaviours: they go on, and a property says after which of
these it still holds. Section 6 lists them all.

### ProcessManager

The session is one Node process, so an action is what runs between two awaits.

| code | model |
|---|---|
| `topologicalSort` | `NextBatch`, `Placed`, `BatchNo`: a cycle puts what is left in one batch |
| `startAll`'s loop over batches, `Promise.all` | `LaunchBatch`: enabled when all of the placed are spawned; `Reject`: the first rejection settles `startAll`, siblings go on |
| `startOne`: the loop over healthy dependencies | `CheckGate`, `PollPassed`, `PollFailed` in state `gating`; the dependency's status is read here and used after the await |
| `startOne`: log opened, `spawn`, log closed, `exit` listener | `BeginStart`, `Spawn`, `Listen` (an await lies between each two: states `opening` and `closing`) |
| `pollUntilHealthy` | `poll`: `open`, or `doomed` when the process had exited before |
| final sweep | `BeginSweep`, `WatchEnds`, `PollPassed`, `PollFailed`, `SettleSweep` (exits first) |
| the `exit` listeners of `startOne` and `stopOne` | `ProcessExit`: status is `failed` only if it was not being stopped and the code is not 0; an exit in `closing` is heard by nobody (`missed`) |
| `ManagedProcess.exit` | `Heard(c)`: it ended, and somebody listened |
| `runUp`'s `finally`, the CLI's exit | `RecordPids`, `EndSession` |
| SIGINT handler, `stopAll`, `stopOne` | `Interrupt`, `StopBatch`, `Escalate`, `ClearPids`, `HandlerExit`; batches in reverse; what is heard to have exited, or is not spawned yet, is passed over |

`at[c]` is where a component's `startOne`, and then its share of the sweep, stands.
`exit` is what the process did, `Heard` what the session knows of it: they differ when
the process ends while `startOne` closes its copy of the log file
(`process-manager.ts:494`), before line 502 installs the listener. `early` remembers a Ctrl+C that came before `startAll` had settled.

### ProcessStopper

`holder[c]` is whoever has the pid recorded for `c`: nobody, the component's own
process, or a stranger; `near` says that its start time is within the tolerance of
`checkIdentity`, `leads` that `kill(-pid)` finds a group, `mine` that the user may
signal it. A recycled pid may go to a stranger of any kind, one that is `near` included
(`process-stopper.ts:27`); `odd[c]` then has `unsure`, as when `ps` failed on a process
that was there. `Probe`, `checkIdentity`, `Mismatch`, `Term`, `Escalate` are the branches of
`stopProcess`, in order and one process at a time as in `runDown`'s loop; `Forget`
drops the pids whatever the outcomes. `LeaderExits`, `ChildExits` and `Recycle` are the
operating system, which never reuses a number while a group has it.

### DeploymentIndex

`BeginUp` is the lookup (and the made-up id), `Launch` and `LaunchFailsEarly` the
provider's work with the status its phase earns, `BeginDown`, `NothingToStop` and
`Stop` the other command, `ReadIndex` and `WriteIndex` the two halves of every edit,
`Edited` what `addDeployment`, `updateDeployment` and `removeDeployment` make of the
file. `machine` is what is really running and stored. There is no lock, as in the code:
any command may read or replace the file between the two halves of another's edit, on
the same instance or not, with either provider. `odd[i]` says what has befallen instance
`i`; `WriteIndex` finds for each instance whether the copy it edits has its rows as the
file has them, and notes `lost` where not. `InTurn(i)` is an instance whose commands came
one after another and none of whose rows were written over. `DeploymentRegistry` has
`contended`, the instances it promises nothing any more.

### DockerDeployment

Of the Launchfile, one minted password is kept: minted if `loadState` finds nothing
whole (`LoadState`), written into the compose file and `state.json`
(`TruncateCompose`/`WriteCompose`, `TruncateState`/`WriteState`, in this order, each
a truncation and a write), and baked into the volume at its first start (`Start`).

### PortAllocator

One model for both allocators, told apart by `Docker`: `dockerAccepts` compares a saved
port with those already given and lets the deployment's own containers hold it;
`macosAccepts` does neither. `Take` and `PassOver` are one probe each. `OthersBind`,
`OthersRelease` and `End` happen between any two probes.

### Launchfile and the modules of pure operators

A Launchfile is a record: the components in their declared order, each with its
`requires` and `supports` entries, endpoints, variables, volumes and dependencies.
Text is abstracted by what tells it apart: a use is a pair, a path a sequence of
segments, a url the tuple `<<"url", type, password, database>>`, a minted value the
tuple of who minted it for what. Each operator has the name of the function it
translates (`selectionClosure`, `allocateDbIndexes`, `resolveExpression`,
`computeAppContext`, `resolveHostCapabilities`, `migrateResourcePasswords`,
`withCoveredUses`, `allocatePorts`, `prepareFingerprint`, ...). They are used by the
runs through the modules that extend them.

### ComposeGenerator and DockerUp

`launchToCompose` is a loop with early `continue`s and a throw; its locals are the
variables `at`, `stored`, `todo`, `cur`, `ctx`, `out`.

| code | model |
|---|---|
| entry of `launchToCompose`: migration, secrets, `$app` | `launchToCompose` |
| the refusals of a component, in their order | `Refusal`, `Skip` |
| endpoints, `env`, generators | `Translate`, `resolveEnvVar`, `Generated` |
| the loop over `requires` and `supports` | `WireHost`, `applySuppliedResource`, `OmitOptional`, `Provision` |
| the service of a component | `Emit`; `Return` |
| `UnresolvedUseError` leaving the function | `Fail` |
| `dockerUp` up to the write | `Up`, `RefuseUp`, `Preview` (dry run), `WriteFiles` |
| pull and build | `Prepare`, `PrepareFails` |
| `dependencyOrder`, call by call | `VisitDeclared`, `VisitTarget`, `Place`; `run.visiting` is its call stack, `run.done` its `done` |
| `planReleases` | `Place` (what of the order releases), `planReleases`, `PlanFails` |
| `runReleases` | `RunRelease`, `ReleaseFails`: `compose run` brings up what the component needs |
| `compose up -d` | `StartServices`, `StartFails` (also when a selected service is not in the file) |
| `waitForHealth` | `waitForHealth`, `HealthTimesOut` |
| `dockerDown` | `Down`, `Destroy` |

An embedder that calls `launchToCompose` with resources and capabilities of its own
(`Embed`) writes nothing, so such a behaviour ends with that call.

### NativeUp

| code | model |
|---|---|
| `runLaunchUp` up to the load, the refusals that narrow | `Up` (a refused one writes nothing, and is no step), `Narrowed` |
| the provisioning loop | `SkipEntry`, `ProvisionDry`, `ProvisionRedis`, `ProvisionSqlite`, `RefuseSqlite`, `SkipOptional`, `PersistRecord` |
| `provision` of PostgreSQL and MySQL after the record is saved | `Create(made)`, `CreateNothing` |
| ports, addresses, bound paths | `Wire` |
| env files, generators | `WriteEnv` |
| `saveState` (a dry run saves too) | `SaveUp` |
| `runSourcePrepare` | `SkipPrepare`, `BeginPrepare`, `EndPrepare` |
| releases, `startAll`, the `finally` that records pids | `RunReleases`, `StartAll`, `RecordProcesses` |
| SIGINT handler, from `startAll` on | `Interrupt(late)` |
| what `startAll` spawns after the record or the Ctrl+C | `late`, `Spawning(late)` |
| `runDown`, `--destroy` | `Down`, `Destroy(dropped)` |
| `runEnv`, `runBootstrap` | `Env`, `Bootstrap` |
| any throw, any kill, a kill within `saveState` | `Abort`, `KillSaving` |
| edits of dependency files | `EditFiles` |

`up.state` is the copy of state.json an `up` holds in memory; `stale` names who holds
a copy that another command has written over since. A process in `alive` is `late` if it
was spawned once the record had been taken: `Promise.all` goes on with the siblings of a
refused gate, and `startAll` beside the Ctrl+C handler. `down`, `env` and `bootstrap` are
one step each. They come between ups, or beside one that is preparing or in session,
the two places where an `up` stays for long (`Quiet`).

### ErrorRecords

A command works (`UpFails`, `UpSucceeds`, ...), then touches the files one at a time:
`WriteRecord`, `WritePointer`, `RecordFailure` after a failure (`WriteFails` at each
write: the failure is swallowed); `RemoveRecord`, `ReadPointer`, `RemovePointer` for each
key a success supersedes, then `Cleared`. `inPhase` and `Failures` give the phase and key
a throw has when it reaches the CLI. `files` is the directory `errors/`: `safeKey` maps each
key to the name of its file, in whatever way, and `LastJson` is the pointer's, so that two
keys may share one and an app named `last` has its record where the pointer is.
`RecordIn` and `readLastPointer` are what the two readers take such a file for.
`Kill` may come anywhere. `handleDiagnose` is what
the operator sees.

## 3. Runs

Distinct states as TLC counts them. Every bound is a set of model values or a constant
of the configuration. The named counters are `MaxUps` (DockerUp), `MaxRounds` and `MaxOdd`
(NativeUp) and `MaxCommands` (ErrorRecords); elsewhere ids, passwords and ports come from
finite sets and everything else is finite.

| run | question | instance | states |
|---|---|---|---|
| `PMStart` | do gates, success, stopping and the record of survivors mean what they say; does `startAll` settle, does Ctrl+C end the session? | 3 components: `api` and `web` in a cycle, `api` gated on `db`, `web` after it; two with checks; exits, Ctrl+C and crashes at any time, `FairSpec` | 233 768 |
| `PMRefusedGate` | is what survives on record after a refused gate? | `api` gated on a `db` without a check, `web` beside it | violated |
| `PMMissedExit` | does `stopAll` await only what has not exited? | 3 components, `web` after `db`; no checks | violated |
| `PSStop` | does `down` spare strangers, leave nothing it forgets, and end? | 2 components, exits, pids recycled at any time and to any process, clock jumps, failing `ps`, kills, `FairSpec` | 431 396 |
| `DIIndex` | does the index state what is on the machine, and implement a registry? | 2 shells, 2 instances, 2 ids, both providers, edits interleaved in any way; overlapping commands, a change of provider, failing stops, Ctrl+C, kills | 1 881 393 |
| `DDSlug` | is a password ever lost, a foreign deployment adopted; do the two files disagree? | 2 commands that may overlap, 2 sources, 4 passwords; failing stops, kills within a write | 109 891 |
| `PADocker` | are docker's ports distinct, fresh and kept? | 3 endpoints declaring one port, one of them udp; the first added or removed by edits; range of 2; 2 contested slots | 2 183 274 |
| `PANative` | are the native ones distinct? | 2 components declaring one port, the first added by an edit | violated |
| `DURun` | is what docker's `up` generates whole, does it keep what was minted, and does nothing serve too early? | up to 3 ups, each of 6 Launchfiles under 4 sets of flags; 2 embedders; from nothing or from an earlier version's state.json | 358 074 |
| `NURun` | does what the native provider hands out, records and skips agree with what is there? | up to 2 ups, each of 2 Launchfiles under 3 sets of flags; one edit of each directory; destroy, env, bootstrap beside them | 250 565 |
| `NUIndexes` | do two uses get databases of their own? | `up web`, `up worker`, each with a redis of its own | violated |
| `ERDiagnose` | does `diagnose` show the failure it should? | 3 commands in 2 shells, 2 docker instances, one of them named `last`, and a native one of one directory, failures in 4 phases | 2 074 060 |

**Why these bounds.** The bugs looked for need at most two parties and a bystander. A
batch with two members behind a third is what makes a sibling race possible, and a cycle
has two members; in `PMStart` the batch is the cycle. `down` stops one process after
the other, so a second process shows only that what happened to the first has no effect
on it. Two shells are enough to lose an update, two instances to overwrite a
bystander's row. `DIIndex` is cut by a constraint (`Bounds`): one instance, `i1`, meets
what can happen, and what a second mishap leads to is not explored (`FewOddities`); the
other is the bystander, which docker launches and destroys while the first is edited
(`Bystander`). Every single mishap, a lost update of either instance included, is in the
run together with all that follows it. The four passwords let a fresh one be minted when the state, the volume,
the compose file and a command each have a different one. The range of two makes the
scan wrap and, with two contested slots, run out.

For DockerUp three ups are one that creates, one under an edited Launchfile or that
fails half-way, and one that has to live with what both left; the six Launchfiles move a
requirement between components, refuse a component in each way a shared backing
service can be left behind, take a reserved name for a secret, throw from within, and
swap the order of declaration. For NativeUp two ups and the commands beside them do the
same; `MaxOdd` lets one thing the code does not provide for happen, and another after
it before the next `up`; of the processes only the worker's may come late (`FewLate`).
For ErrorRecords three commands are a failure, what supersedes
it and what races with either.

`CHECK_DEADLOCK FALSE` stands where the system really stops: in ProcessManager a session
ends and nothing happens in it afterwards; in DockerUp, NativeUp and ErrorRecords the
number of commands is bounded. In the others commands can always be issued again and
TLC checks that the system never stops.

**Properties.** One type invariant in each of ProcessManager, ProcessStopper, DeploymentIndex,
DockerDeployment and PortAllocator. Otherwise:

| module | property | says |
|---|---|---|
| ProcessManager | `DependencyGate` | a component is spawned only with its gated dependencies' checks passed and, without cycles, every dependency spawned |
| | `SuccessMeansUp` | success: everything spawned, every check passed, nothing ended in failure but unheard |
| | `ClearedMeansDead`, `SurvivorsKnown` | what Ctrl+C forgets is dead; what outlives the session is in state.json |
| | `StopsInReverse` | nothing is told to stop before what depends on it is dead |
| | `StartSettles`, `InterruptEnds` | liveness |
| ProcessStopper | `StrangersSpared`, `ForgottenMeansDead`, `DownEnds` | no stranger signalled; forgotten is dead; liveness |
| DeploymentIndex | `Registered`, `OneRowPerInstance`, `StatusTrue`, `RowsHaveState` | the file against the machine |
| | `Registry` | refinement of `DeploymentRegistry`, whatever the interleaving |
| DockerDeployment | `SecretKept`, `FilesAgree`, `Lifecycle` | passwords; the two files; refinement of `DeploymentLifecycle` |
| PortAllocator | `PortsDistinct`, `AllocatedFree`, `PortsKept` | one endpoint per port; no stale answer; stability |
| DockerUp | `DatabaseOpens` | every url in file and containers carries the password its volume was initialised with |
| | `MintedKept` | no write of state.json changes or drops what was minted |
| | `UsesApart`, `WholeOrAbsent` | uses have their own database; a component is generated whole, or nothing of it is |
| | `ReadyBeforeServing` | no container before its release, or without a required variable or volume |
| NativeUp | `RolesOpen`, `OnRecord` | urls open their server; what is on a server is on record |
| | `GeneratedOnce` | no save changes or drops what was generated |
| | `UpToDate` | a recorded fingerprint that matches stands for a completed prepare of these very files |
| | `Reachable`, `EnvAgrees` | what runs is on record; `env` says what the app was started with, for every component whose resources are those on record |
| ErrorRecords | `BareDiagnose`, `DiagnoseFinds`, `RecordsRelevant` | the latest failure; this deployment's failure; nothing superseded is left |

## 4. Fairness

Only the liveness properties assume any.

`ProcessManager!Fairness`: weak fairness of each component's `StartStep`, of
`SessionStep`, of `HandlerStep`, and of the death of a process that has been sent
SIGKILL. This is what Node and the operating system give: every poll has a deadline and
every probe a timeout, the watch window and the grace period are timers, a promise that
is settled continues, a file is opened. Nobody is assumed to press Ctrl+C, no check to
pass, and no process to exit unless it is killed. `StartSettles` therefore holds because
each gate, watch and poll ends by itself, not because an application helps. A process
whose exit went unheard is no exception: its poll runs out. `InterruptEnds` has to except
it, because `stopOne` then waits for an exit that has been (section 7).

`ProcessStopper!FairSpec`: weak fairness of `Forget` together with all the steps of
`stopProcess`: the loop goes on once `ps` has answered or failed and the grace period is
over. Exits, and pids given away, are not fair.

DockerUp, NativeUp and ErrorRecords state no liveness: each of their commands is a
sequence of steps that either succeed or end it, and the waits in them are ended by a
budget (`HealthTimesOut`).

## 5. Proofs

TLAPS checks every obligation; nothing is assumed but the named assumption of each
module about its constants, and what is written in a theorem's `ASSUME`. The theorems
hold for any numbers of components, shells, instances, ids, sources, passwords,
endpoints, ports, Launchfiles and ups, where a run shows them on one instance.

| module | theorem | assumes |
|---|---|---|
| `ProcessManagerProofs` | `TypeCorrect`, `DependencyGateHolds`, `SuccessMeansUpHolds`, `ClearedMeansDeadHolds`, `SurvivorsKnownHolds` | nothing more |
| `ProcessStopperProofs` | `TypeCorrect`, `ForgottenMeansDeadHolds`, `StrangersSparedHolds` | nothing more |
| `DeploymentIndexProofs` | `TypeCorrect`, `OneRowHolds`, `RegistryImplemented`, `RegisteredHolds`, `StatusTrueHolds`, `RowsHaveStateHolds` | nothing more |
| `DockerDeploymentProofs` | `TypeCorrect`, `SecretKeptHolds`, `FilesAgreeHolds`, `LifecycleImplemented` | nothing more |
| `DockerUpProofs` | `MintedKeptAlways`, `DatabaseOpensAlways` | nothing more |
| | `WholeOrAbsentAlways`, `ReadyBeforeServingAlways` | `NamesApart` |
| | `UsesApartAlways` | `OneTypePerKey` |
| `ErrorRecordsProofs` | `BareDiagnoseHolds`, `RecordsRelevantHolds`, `DiagnoseFindsHolds` | nothing more |
| `NativeUpProofs` | `ReachableAlways`, `UpToDateAlways`, `EnvAgreesAlways`, `WiredApartAlways` | nothing more |
| | `GeneratedOnceHolds` | `KeysStaySql` |
| | `OnRecordAlways`, `RolesOpenAlways` | `KeysKeepServer` |
| `PortAllocatorProofs` | `TypeCorrect`, `AllocatedFreeHolds`, `FirstPortsDistinctHolds` | nothing more |
| | `PortsDistinctHolds`, `PortsKeptHolds` | `Docker` |

**ProcessManager.** `DependencyGate` says nothing of what a gate that is gone has to do
with a check that passed, so it is not inductive. `GateInv` keeps that: a dependency no
longer in `gates[c]` has passed, a status `healthy` is never without a pass (it is what
lets a gate go without a poll), and nothing is past `gating` with a gate left.
`BatchInv` keeps that a dependency of a placed component is spawned if it reaches no
cycle (`Grounded`): `NextBatch` then always finds a component without a dependency left
in the set left over, and takes no one whose dependencies are in it. `SpawnedStays`
carries it along. `SweepInv` says of each place in the sweep what is known there, that a
checked component is through only with a pass or an exit that was *heard*; the verdict in
`SettleSweep` follows from it, and `SettleOnlyInSweep` shows that no other step settles
`startAll` with success. `FullInv` ties a settled `startAll` of a launch that was not cut
short to all components being spawned. On it rest `StopInv` (what `stopAll` is done with
has exited, heard or not, and it passes over nothing of a launch in full), which gives
`ClearedMeansDead`, and `SavedInv` (what has been recorded covers what is alive), which
gives `SurvivorsKnown`. `ProcessStays` and `ThrewStays` are what both use of the steps in
between: a process there was stays one the session has a handle of, and a gate that
threw stays thrown.

**ProcessStopper.** `DeadInv`: a component's own process that still runs has its
recorded start time, leads its group, may be signalled, and has no outcome yet; so every
way to an outcome lies through its death. It holds as long as the clock has not been
set: with a shifted clock the identity check takes the component for a stranger and lets
it live. `SparedInv`: a stranger that the check can tell apart, and that had the pid
before it, is never past the identity check. One with a start time within the tolerance
of the recorded one is beyond what any check of start times can do, and `unsure`.

**DeploymentIndex.** Nothing is serialised: the invariant is about one instance at a time,
and says something of it as long as its own commands came in turn, whatever the others
do to the same file. `OneOwner`: an id belongs to one instance, in the rows, in the copies
and in the commands that made it up. `Turn(i)`, which holds while `InTurn(i)`: one command
at most is at work on `i` (`Solo`), the row of `i` is the one this command knows
(`OwnRow`), and rows of `i` are one (`OneRow`). A write by a command of `i` replaces its
rows by what it has made of them, a write by another command leaves them as its copy has
them: either these are the rows there are, or `lost` is noted. `RegistryImplemented` maps
each write to `Record`, `MarkDown` or `Forget` of one instance, `contended` growing by
those whose rows it put back, and every other step to a stutter.

The rows against the machine need more, `Home(i)` while `Calm(i)`: a command knows
whether its instance has a row, and unless it is an `up` that changes it that row's
provider is its own (`KnownRow`); as long
as no command has touched the instance on the machine, its rows and the machine agree
(`Agree`); and once one has, what it is about to write agrees (`Ahead`). So agreement is
lost at the launch or the stop and restored by the write, unless the stop failed, the
command was killed in between, or the row was lost to another's edit. That nothing runs
under a provider the row does not name is claimed only while the instance has had one
provider (`Faithful`).

**DockerDeployment.** `Inv` describes a command step by step as long as nothing odd
has happened: what it has in memory is what the volume has, `state.json` describes the
volume except while that command rewrites it, a whole `state.json` comes with a compose
file that agrees (or is being rewritten), and a command about to remove the state has
removed what it describes. `LifecycleImplemented` maps `Start` to `Create` or `Launch`,
`StopContainers` to `Stop` or `Destroy`, and once something odd has happened promises
nothing more. `AgreeInv` is weaker and lives longer: it only needs that two commands have
not overlapped, and gives `FilesAgree` through torn writes and failed stops.

**DockerUp.** Two assumptions describe the constants: a Launchfile declares each of its
components once, with its sequences of entries (`LaunchesAssumption`), and a use is a
token with a name of `UseNames` or without (`UsesAssumption`). `NamesApart`, the hypothesis of
`WholeOrAbsentAlways` and `ReadyBeforeServingAlways`, is about the Launchfiles and nothing in the code checks it: a
component named like the type of a declared resource takes the place of its service
(section 7, *Docker generation*), the password minted for it then belongs to no
service, and bringing up a resource starts that component before its release. `MCDockerUp` assumes it of the runs' Launchfiles (`ProjectAssumption`). `Kinds`
divides the steps: an `up` or an embedder's call begins, launchToCompose takes a step, the
files are written, compose is at work or the command is over, `down`. `IMinted`: what is
being generated extends what is on disk, which is what `WriteFiles` then replaces.
`IWhole` keeps an account of a generation half way: components come one after another,
each once (`Ordered`); every backing service is needed by a component that is there or
by the one in the making, and its needs are there before it is (`Accounted`); and of
this round's values, which their round tells from all earlier ones (`AllStamped`),
each belongs to one of those (`Owned`). It is the last that a component refused half
way would break: the code decides all refusals before the first entry.

`IOpens` is about passwords. `Held` is what `state.json` knows, an old one's passwords
among the secrets included, which is just what launchToCompose starts with. What it adds
to it (`KeptIn`) changes none of it, so whatever opened stays open: every value that is
a url carries the password held for its service, in the resources, in a component's
variables, in the services, in the file and in the containers (`Work`, `Serving`; that a
reference, however it is resolved, finds nothing else is `ResolveOpen`), and every volume
was initialised with it (`Baked`). Without a `state.json` there is neither volume nor
container, unless a destroy left one: `odd` counted volumes only, and the proof did not
go through. A container that runs alone, its database never started, can survive a
failed destroy with the old password in its url, and `odd` now counts it as well.

`IApart` is about the databases of uses. Whatever a redis resource has registered under
`db` is what the operator supplied for it, or its own number, or its own name; and a named
SQL use has a name that is not the instance's. That leaves the numbers: each use's is how
many uses come before it, and `Before` is a strict total order (`BeforeOrders`: resources
by where their first entry stands, a resource's own uses by name, the bare one first), so
of two uses the later counts all that the earlier does and that one too (`IndexesDiffer`).
`OneTypePerKey`, the hypothesis, says that entries of one name have one type. D-24
(`spec/DESIGN.md:316`) says they describe one resource, the linter warns of some that do not,
and nothing refuses them; a `db` use declared under the name of a redis resource by an entry of
another type is pooled with it but has no number, so that `coverUse` gives it 0, which is
the first use's. Two things came of the proof: the allocation is now
written by counting instead of by folds, which the provers cannot reason about (both forms
give the same numbers on some 14000 small Launchfiles), and a use without a number gets 0
(`DatabaseOf`), as in `coverUse`, where the model had left it undefined.

`IServing` is about what comes before a container, in three parts. *Generation*: a
component that is there has every required variable and every volume it declares, or is
noted as a gap (`Provided`). What is launched has no gap (`Deployable`), and what is
launched is closed under `depends_on` (`SelectionCloses`), so bringing up the dependencies
of something selected brings up nothing that was not asked about. *The order of releases*:
the calls of `dependencyOrder` that are under way form a path, each the target of the one
before (`Visits`). It passes over a target still under way, which is how it breaks a cycle;
but then that target needs itself, and compose has refused such a file before
(`NoTargetUnderWay`, from `Valid`). *The plan*: whatever a release of the plan brings up,
and itself releases, has been released or comes earlier in the plan (`Planned`), and at
the end of the plan everything that releases has been. So neither `compose run` nor
`compose up` creates a container too early, in a cyclic Launchfile too: no container is
created there at all. For this proof `dependencyOrder` became actions, one per call and
return, where it was one recursive definition, and `selectionClosure` and what compose brings
up became least closed sets (`Closure`), where they were searches: the prover cannot
reason about recursion, and the source's own order of calls is now in the model.

**PortAllocator.** `SlotInv`: endpoints without their turn have no port, so a port
compared with `Slots(result)` is compared with all that are given; the slots the
deployment was said to hold are its own or free, or somebody bound them since.
`KeepInv`: as long as the answer about its own slots is good and nobody else holds a
saved port, every endpoint is given its saved port at the first probe. `PortsDistinct` and
`PortsKept` need `Docker`; the native allocator breaks them (for the first, section 7; a
native process that runs holds its port, and the next `up` moves on from it).
`AllocatedFree` holds of both. What the native allocator has of `PortsDistinct` is
`FirstPortsDistinct`: while the state file has no ports, in a first `up` and after a
destroy, no two endpoints are given one and no two are saved, because the unseen
candidate is the saved port. It is one of the two properties stated in a module of proofs
and checked by no run.

**ErrorRecords.** `safeKey` is any function from keys to files. A command is described first by what it does at most (`Kind`), which
is what the invariants are proved over. `RelevantInv`: every record is under the key its
instance or its words are looked for (`RightKeys`), a command that has been alone still is
(`Lone`), and what it is to supersede and is still there lies ahead of it
(`StillToClear`). `FindsInv`: a failed launch has a row (`UpKnown`), finds what it wrote (`Written`) and,
once it has ended, nobody of its instance is there to change it (`LeftAlone`); this is of
records whose file is not the pointer's. `BareInv`: the pointer names the failure
captured last, or whoever removed that record is about to remove the pointer (`Pointed`),
and what it names is in a file of its own (`PointedAtExists`, `Stored`); what makes this
inductive is that a removal half way has the last failure behind it (`Removed`) and a
pointer to remove is as it was read (`ReadStands`), both because no two commands are at
one file (`Apart`).

**NativeUp.** Three assumptions describe the constants (`LaunchesAssumption`: a
Launchfile has an order of its components, each of these its sequences of entries, and
an entry under `requires` that is no host capability is required; `UsesAssumption`: a use
is a token with a name of `UseNames` or without; `ContentsAssumption`: files have a first
content, and no content is the mark of a prepare half done). Two more are hypotheses of
single theorems, about *edits between two ups*, and no code checks them. They restrict
the set `Launches`, never a behaviour:

- `KeysStaySql`: a key under which there was a role with a password is not given to a
  resource that has none. `KeysKeepServer`: nor to one of another product. A key is the
  entry's `name`, or else its type, so an edit must retype an entry and keep its `name`
  to break them. `provision` is then handed the former record (`provider.ts:1082`), whose
  role nothing remembers any more: `OnRecord` and `GeneratedOnce` are false.

`MCNativeUp` assumes both of the run's Launchfiles (`ProjectAssumption`), so TLC
evaluates them. Everything else that makes one of the properties false is a behaviour of
the model which the property itself excepts: two resources of one product (`twins`),
files put back to an earlier content (`returned`), a component that has had another
directory, a variable that operator and resource both set (`Contested`). Section 6 lists
them; the run's Launchfiles have none of these four, so the theorems alone speak of
what is left when they occur.

The model's records have fields that come and go with what is resolved, so `Shapes` comes
first: which fields state.json and an `up` have. `Kinds` then divides all steps into
eight kinds: an `up` begins (`Begins`), works (`Labours`), starts processes (`Starts`),
records them (`RecordProcesses`, `Interrupt`, together `Concludes`) or breaks off
(`Breaks`), another command runs beside it (`Besides`), or nothing of this happens
(`Rests`). A kind says what such a step does to what is on record. Each invariant is
carried through the kinds, and through the two or three actions that matter to it:

- `IReachable` follows the processes through an `up`: what runs and is not late is on the
  record that the `up` has loaded until the start, then among what it has started.
- `IDeclared`: every record is of a declared entry, and has a password if its type has
  roles. This is what the hypotheses on edits are applied to.
- `IGenerated`: the copy an `up` holds, while no other command has written over it,
  keeps all that is on disk (`Keeps`). A step that saves then changes nothing that was there.
- `IOnRecord`: what is on disk is carried by that copy (`Carries`, weaker than `Keeps`,
  and true of a copy that is behind as well), and at `create` the two are the same. So
  a role is made only with a password that is already on disk, and *no kill between record
  and role* leaves one without.
- `IRolesOpen` needs most. `IStanding` puts off the envs: no password, secret or generated
  value is itself a url, a process of this `up` is later than all others, and at `start`
  every component has its env. `Opened` then follows a url from the record to the map of
  resources, to the env, to the file and the process: wherever it is, its password is on
  record for its product, and as long as there are no twins that record is the role's:
  `ISingle` keeps that a product has one record (`SingleKept`).
- `IUpToDate`: a fingerprint on record is of files that once were (`Was`), and if they are
  those of now the directory was prepared from them in full (`Serves`), unless they have
  been so before (`Foreseen`); what is being
  prepared is `Partial` until the command ends (`Underway`).
- `IEnv` compares two computations that never run side by side: what `up` gave a component
  when it was wired, and what `env` computes in a later process from state.json alone. What
  is registered is what would be registered off the record (`Mapped`), which is where a
  record must be saved with the indexes it was provisioned with, and MariaDB's under the
  name of MySQL must cover the same uses (`ServerCovers`). Every required resource is
  still to be provisioned, provisioned, or ends the `up` (`Provides`, `Provided`). And a
  component's variables would be given it again (`Given`): while the components after it
  have theirs generated, what was drawn for it stays, so `Drawn` says that there is
  nothing left to draw. The two contexts are then `Alike` on all a component reads
  (`Reads`), a reference resolves alike (`ResolveAlike`), and only generated ports differ.
- `IWired`: what is registered of a resource was registered with the numbers allocated
  among the components this `up` is left with (`Allotted`), and these differ because
  `Before` is a strict total order of the uses (`BeforeOrders`, `IndexesDiffer`). So
  `WiredApart` holds of every `up`, in a dry run too, and `IndexesApart` is violated only
  across two ups that are left with different components (section 7). `WiredApart` is
  the other property that no run checks; it is stated beside its proof.

The proofs corrected the model three times. `ahead` was counted by all records of any
product and now by those of the server's own; the third case of `coverUse` overlapped the
second; and a component that *shares* a prepare was taken to be covered whenever the
command had run in this `up`, where the code (`provider.ts:587`) records for it the
fingerprint of the files *as they are now*, an edit since that run included, though by the
comment at `provider.ts:552` the record is of the last successful run. The
instance could not show it because its two components had prepares of their own; they
now share one, and `shared` counts the case (section 6).

The proof of `EnvAgrees` corrected the property twice: its comparison has to leave out the
resources that are on record though this `up` did not provision them (section 6), and the
order was to be that of the whole Launchfile. The instance shows the first now: the worker
of the original Launchfile may use the MySQL resource that an `up --with-optional` of the
edited one has made.

Left to TLC: the three liveness properties, which are beyond the prover, and
`StopsInReverse`: that a component's batch comes after those of its dependencies is a
statement about the numbers of batches, `Placed[n]`, and needs induction on them. Of the
four properties that the code violates (section 7) it is proved what remains of three:
`SurvivorsKnown`, `FirstPortsDistinct` and `WiredApart`; of the fourth, `AwaitsLiving`,
`InterruptEnds` says what follows from it.

## 6. What the properties except

Each property says what it claims until something happens that the code does not provide
for. These are the things; none is hidden by the model, each is behaviour of the code,
and the exceptions are needed: without one TLC finds the property violated in its run. The
rows marked * are the exception to that: the instance has no such Launchfile, edit or
file name, and the proof of the theorem, or the code, is what asked for them.

| recorded as | of | then not claimed | because |
|---|---|---|---|
| `~LaunchedInFull` (Ctrl+C before `startAll` settled, or a gate that threw) | ProcessManager | `SurvivorsKnown` | `startAll` goes on spawning after its record was taken, or after the handler has cleared the pids (`macos-dev/src/provider.ts:1383`); section 7 for the gate |
| `stop[c] = "absent"`: `stopAll` found `c` not yet spawned | ProcessManager | `ClearedMeansDead` of `c`, `StopsInReverse` of what `c` depends on | it is passed over (`process-manager.ts:551`), and spawned afterwards |
| `missed` (an exit between spawn and listener) | ProcessManager | `SuccessMeansUp` of the component, `InterruptEnds` | `ManagedProcess.exit` stays unset and its status `running`; `stopOne` awaits an `exit` that has been (section 7) |
| `unsure` of a component: a pid given to a process that started within the tolerance, or given away between the check and the signals, or `ps` failing on it | ProcessStopper | `StrangersSpared` of that component | identity is a start time give or take 3 s (`process-stopper.ts:27`); it is compared before SIGTERM and not again before SIGKILL (`:193`); a process whose start time cannot be had is stopped |
| `skew` of a component | ProcessStopper | `ForgottenMeansDead` of that component | a process taken for a stranger is spared and its pid dropped with the others (`macos-dev/src/provider.ts:1559`) |
| `lost` of an instance | DeploymentIndex | all five, of that instance | read-edit-replace cycles on `index.json` without a lock: a command replaces the file by an edit of a copy in which the rows of the instance are out of date (`state/index.ts:75`); a second row of one instance comes of it with three ids, one more than in the run |
| `overlap` (two commands at once on an instance) | DeploymentIndex | all five, of that instance | two first `up`s each add a row; a `--destroy` during an `up` removes the row it then updates in vain |
| `switched` | DeploymentIndex | `Registered`, of that instance | an `up` with the other provider takes over the row of a deployment that still runs |
| `fault` (a kill, a failing stop) | DeploymentIndex | `Registered`, `StatusTrue`, `RowsHaveState`, of that instance | the row is written after the launch (`up.ts:300`) and removed after the state (`down.ts:28`); the exit code of `compose down` is ignored (`docker/src/provider.ts:934`) |
| `ctrlc` | DeploymentIndex | `StatusTrue`, of that instance | the Ctrl+C handler does not touch the index: its row stays `up` |
| `overlap` | DockerDeployment | all three | two first `up`s of a slug mint two passwords; the foreign-source guard of one looks before the other saves |
| `stop` | DockerDeployment | `SecretKept`, `Lifecycle` | after a failed `compose down -v` the state directory is removed and the volume is not |
| `torn` | DockerDeployment | `SecretKept`, `Lifecycle` | a torn `state.json` is read as none, so another password, and another source, are taken |
| `odd` (a destroy left a volume or a container) | DockerUp | `DatabaseOpens` | `compose down -v` failed, or removes only the volumes of the compose file of now: one of a service no longer in it stays, its password gone; a container that stays keeps its url (* the container: section 5) |
| `lost` | NativeUp | `GeneratedOnce` | state.json is written whole from a copy read before another command wrote it |
| `torn` | NativeUp | `RolesOpen`, `OnRecord`, `Reachable` | it is truncated and then written: a kill in between leaves no record of what is on the server |
| `twins` * (two resources of one product) | NativeUp | `RolesOpen` | role and database are named after the app alone: one of the two passwords opens nothing (section 7, *Native roles*) |
| `drop` | NativeUp | `RolesOpen`, `OnRecord` | `--destroy` drops databases and role with `allowFailure` and removes the state whatever came of it |
| `overlap` (a destroy beside an `up`) | NativeUp | `RolesOpen`, `OnRecord` | the `up` goes on with what it holds |
| `ahead` | NativeUp | `OnRecord` | `env` and `bootstrap` create a database that an edit of the Launchfile names, and put it on no record |
| `shared` | NativeUp | `UpToDate` | the record is kept per component and the work per directory: a failed prepare for one leaves the fingerprint of another of the same directory and command; a second component records files edited since the prepare it counts as its own (`macos-dev/src/provider.ts:587`) |
| `returned` * (files put back to an earlier content) | NativeUp | `UpToDate` | after a prepare of other files that failed half-way they match a fingerprint still on record, and the prepare is skipped |
| a component that has had another directory * | NativeUp | `UpToDate` of it | the record is one fingerprint per component, whatever the directory |
| `killed` (between start and record) | NativeUp | `Reachable` | the pids are recorded after `startAll` |
| a process that is `late` | NativeUp | `Reachable` of it | `startAll` spawns after the record was taken: the sibling of a refused gate (`process-manager.ts:292`), and what it goes on with after Ctrl+C (`macos-dev/src/provider.ts:1383`) |
| `again` (an `up` beside running processes) | NativeUp | `Reachable` | the record of processes is replaced (`macos-dev/src/provider.ts:1424`) |
| a resource on record that this `up` did not provision, or provisioned without a record | NativeUp | `EnvAgrees`, of the components that read it | `env` wires whatever state.json has under a name the component declares (`macos-dev/src/provider.ts:1626`): an optional resource of an earlier `up --with-optional`, or one whose databases could not all be made; a sqlite file's record is dropped |
| a variable that the operator is asked for and a resource sets too * (`Contested`) | NativeUp | `EnvAgrees` of it | `up` puts the operator's value over the resource's (`macos-dev/src/provider.ts:1281`), while `env` takes from its environment only what nothing else sets (`:1669`) |
| `overlap` (two commands at one key) | ErrorRecords | `BareDiagnose` | no lock on record and pointer |
| `half` | ErrorRecords | `BareDiagnose` | a kill between the removal of the record and of the pointer |
| `raced` | ErrorRecords | `BareDiagnose` | the pointer is removed after it was read: one written in between goes with it |
| `clash` | ErrorRecords | `BareDiagnose` | an app named `last` has its record in the file of the pointer (`errors.ts:68`, `:90`); * two keys of one file name |
| a record in the pointer's file | ErrorRecords | `DiagnoseFinds` of it | the pointer is written over it |
| `foreign` | ErrorRecords | `DiagnoseFinds` | a native deployment and a docker one without a slug share the key of their directory; * two keys of one file name |

More behaviours are in the models and no property claims otherwise:

- A gate rejects with a stuck check as soon as it sees one, though another component
  has exited meanwhile (`process-manager.ts:450`): exits win only within the sweep, and
  there only those that were heard.
- A child that outlives the leader of its group makes `stopProcess` answer `stopped`
  without SIGKILL: the grace period looks at the leader alone (`process-stopper.ts:186`).
- A required resource that is retyped under the same name leaves the role of its former
  type to nobody's record but the operator's memory: the record is the new one's. The runs
  give a name one type. (`KeysStaySql` and `KeysKeepServer` in section 5.)
- A pre-slug record is cleared only by an `up` given the same words (`up.ts:286`): in
  another spelling it stays. `RecordsRelevant` speaks of the records a command can find.

## 7. Disagreements found

Shown by a run:

- **`PMRefusedGate`**, `SurvivorsRecorded`. `Promise.all` in `startAll` rejects on the
  first refused gate while a component of the same batch is between opening its log and
  `spawn`. `runUp`'s `finally` then records the pids and the CLI exits; the process
  spawned in between survives without a record, though the comment at
  `process-manager.ts:280` has processes that did start "stay registered, so the caller
  can record their pids for `status`/`logs`/`down`".
- **`PMMissedExit`**, `AwaitsLiving`. The comment at `process-manager.ts:548` has
  `stopOne` pass over what has exited: "A process that already exited fires no second
  `exit`; waiting on one would hang shutdown." It goes by `exit` and the status, and
  between `spawn` and the listener that sets both lies `await log.close()`
  (`process-manager.ts:494`): a process that ends in between has neither set, `stopOne`
  signals it and waits, and Ctrl+C does not end the session. For the same reason
  `startAll` can report success of a component that is dead, which `SuccessMeansUp`
  excepts, and its sweep can name a stuck check for one that has exited.
- **`PANative`**, `PortsDistinct`. `providers/macos-dev/src/port-allocator.ts:76` takes a
  saved port that probes free without asking whether this allocation has given it
  already, as all its other candidates are asked and as docker's allocator does. A
  component added in front of one whose saved port it declares gets the same port; the
  test at `port-allocator.test.ts:55` expects ports of two components to differ. While
  nothing is saved they do (`FirstPortsDistinctHolds`).
- **`NUIndexes`**, `IndexesApart`. The native provider allocates the numbered databases of
  redis among the components this `up` was left with (`provider.ts:1023`), though the
  comment above it has them counted across the whole app: `up web` and then `up worker`,
  each with a redis resource of its own, are both given database 0. Within one `up` no two
  uses share a database (`WiredApartAlways`).

Seen while modelling, in the models, and not shown by a run of their own:

- *Docker namespaces.* A secret of the Launchfile named like a resource type
  (`postgres`) is copied into the passwords at the second `up` of a current state file, as
  if it came from an old one (`secrets-namespace.ts:83`, `compose-generator.ts:907`); a
  database that joins later is given the application's secret for its password.
  `MintedKept` excepts reserved names for that reason.
- *Docker siblings.* A component that was refused stays in the `depends_on` of those that
  were not, and under a selector among the services asked for; compose then rejects the
  project, where `DESIGN.md:830` and the comment at `docker/src/provider.ts:838` have the
  siblings launched. (`Valid`, `Rejected` in DockerUp.)
- *Docker health.* The wait for health passes on the first complete answer
  (`docker/src/provider.ts:1213`): a service whose container is not listed yet is not
  waited for, and services outside a selector are. A release that times out goes on in its
  container and may meet its own retry (`release.ts:221`).
- *Native roles.* Role and database are named after the app alone (`postgres.ts:124`,
  `mysql.ts:74`): two PostgreSQL resources told apart by `name` (`SPEC.md:284`) share them,
  and one of the two passwords opens nothing. `RolesOpen` excepts them (`twins`). With
  `Launches <- MCNamed` in `NURun.cfg` TLC finds it violated once `twins` is taken out of
  its exceptions.
  A `mysql` entry beside a `mariadb` one shares a role in the same way.
- *Native sqlite.* The record of a sqlite resource has port 0, which `loadState`
  (`state.ts:234`) takes for no port: it is dropped, and its variables are missing from
  `env`, which is to report what the app has (`provider.ts:1626`). `validResources` models
  the drop, and `EnvAgrees` says nothing of a component that reads such a file.
- *Native env.* It wires what is on record under a declared name. After an
  `up --with-optional`, a plain `up` starts the component without the optional resource and
  `env` prints its variables all the same, where it is to report what the running app has
  (`provider.ts:1626`). TLC finds this in `NURun` when the last condition of `EnvAgrees` is
  left out.
- *Native state.* A dry run saves state.json. Ctrl+C saves the session's copy over what
  `env` or `bootstrap` have minted meanwhile (`lost`). Env files are written before the
  values in them are saved. An `up` that fails before its save has provisioned and
  recorded, so the next one finds its role. A required variable bound only by an
  `https-origin` entry counts as missing (`provider.ts:907`). After `up
  <selector>`, `env` answers for the whole file and may throw on a use without a record.
- *Native bootstrap* resolves its command without the volumes.
- *Docker generation.* `$components.x.url` is empty when `x` is declared later; a component
  named like a resource type takes the place of its service; a default that reads
  `$postgres.url` is resolved before the entries are wired.
- *Errors.* `errors.ts:9` and `:17` promise a pointer to the latest failure; section 6 gives
  the ways it is lost or left dangling. The record of an app named `last` is
  `errors/last.json`, which the pointer is written over at once (`errors.ts:68`, `:90`):
  neither `diagnose` nor `diagnose <id>` then finds the failure. `safeKey` also cuts keys at
  96 characters, so that two long ones may share a file. `down --destroy` clears the slug's key only
  (`errors.ts:137`): what failed before there was a slug stays.

## 8. What is abstracted, and what is not modelled

- *Time* is nondeterminism: any deadline may pass at any point, any probe be answered.
- *ProcessManager*: Node is taken to deliver an exit as soon as the process ends, which
  makes the window of a missed exit the whole of `log.close()` and no longer. A spawn that
  fails is the `error` event nobody handles, and so `Crash`.
- *Process groups*: one process each in ProcessManager; a leader and perhaps one child in
  ProcessStopper, where the difference matters. Log tails, environment and the shell
  command of a component are left out.
- *Signals*: `EPERM` at SIGKILL is left out, as what may be sent SIGTERM by this user may
  be sent SIGKILL.
- *DeploymentIndex*: processes do not die by themselves (the index has no way to learn of
  it, and the `status` command asks the machine); ids of 28 random bits do not collide;
  the write is one rename, as in `state/fs.ts`. Slugs that name two deployments,
  `up` without arguments and dry runs are left out.
- *DockerDeployment*: one backing service, one password; the removal of the state
  directory is one step; creating the directory and opening the file are one step; of
  two writers within one file the last wins. Which files a refusal would have touched
  (path confinement, missing variables) does not matter: all refusals come before the
  first write. The wait for health changes none of the modelled state.
- *PortAllocator*: the hash is a constant; components that are skipped or not selected
  have no endpoint; the probe is exact, while the native one binds one address only and
  may overlook a wildcard binding of another program; one `up` of a deployment at a
  time.
- *Launchfile and what extends it*: the parser of `${...}`, its pipes and defaults are
  left out, an expression is one reference; addresses and urls are tuples.
- *ComposeGenerator*: the YAML, image names, memory, user and health-check text, and
  warnings are left out. Ports are PortAllocator's: an endpoint's is its key. One
  docker command at a time; concurrent ones, kills and foreign sources are
  DockerDeployment's. Docker is modelled by what compose is asked for: `run` and `up`
  bring up needs first, a container is created anew when its service has changed, a
  volume keeps what it was initialised with.
- *NativeUp*: one `up` at a time; `down`, `destroy`, `env` and `bootstrap` are single steps
  at the places where an `up` stays for long, so their own kills and partial failures
  are those of the `up`'s model only (`drop` for a failing drop), and a copy that one of
  them holds never overwrites what an `up` saves meanwhile: only the opposite happens here
  (`lost`). Which component is spawned late is any that had not been; whether its gate
  would have let it is ProcessManager's. A server is there
  or provisioning fails; runtimes and extensions are not installed. `bootstrap` runs
  one component's command. The `.env.local` of a project and the file of a
  single-component app hold what the env file holds. How processes come up and are
  stopped is ProcessManager's and ProcessStopper's.
- *ErrorRecords*: which keys `safeKey` maps to one file is left open by the module (any
  function) and the identity in the run, where only the pointer's file is shared; races on the index row are DeploymentIndex's, so a row is edited in one
  step; a record is its phase, its deployment and the words it was typed with; log tails,
  redaction and wording are left out; docker's slug is known for an instance from the
  start.
- *Not modelled*: section 1 and `PROJECT.json` list each component with the reason.

## 9. Plan

In order of importance; modules with theorems use no recursive operators.

1. The native commands beside one another step by step, `env` and `bootstrap` among them,
   with two `up`s of a project: what `lost` now counts as one event.
2. An abstract specification of the health wait: a gate that passes only over services
   seen healthy, and the assumption about compose's listing under which the code
   implements it.
3. AWS prior stacks as a pure operator.
