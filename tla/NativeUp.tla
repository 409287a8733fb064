------------------------------ MODULE NativeUp ------------------------------
(***************************************************************************)
(* `up`, `down`, `env` and `bootstrap` of the native provider for one      *)
(* project: what they keep in .launchfile/, create on the machine's shared *)
(* servers and start, while the Launchfile and the dependency files are    *)
(* edited.  One `up` at a time; the others may come beside it, and it may  *)
(* die at any step.  How processes come up and are stopped is              *)
(* ProcessManager's and ProcessStopper's.                                  *)
(***************************************************************************)
EXTENDS NativeEnv

CONSTANTS
  Launches,   \* a name -> a Launchfile the project may have
  Requests,   \* what `up` may be asked
  Contents,   \* what a directory's dependency files are, edit by edit
  MaxRounds,  \* how many ups there are
  MaxOdd      \* how much the code does not provide for happens before an `up`

IsSeq(s) == s \in Seq(ToSet(s))

ASSUME LaunchesAssumption ==
  \A n \in DOMAIN Launches :
    LET launch == Launches[n]
    IN  /\ launch = [order |-> launch.order, secrets |-> launch.secrets, comp |-> launch.comp]
        /\ launch.order \in Seq(DOMAIN launch.comp)
        /\ \A c \in DOMAIN launch.comp :
             /\ IsSeq(launch.comp[c].requires) /\ IsSeq(launch.comp[c].supports)
             /\ \A e \in ToSet(launch.comp[c].requires) : ~e.host => e.required

ASSUME UsesAssumption ==
  \A n \in DOMAIN Launches : \A c \in Names(Launches[n]) :
    \A e \in ToSet(Entries(Launches[n].comp[c])) :
      e.uses \in Seq(STRING \X ({""} \cup ToSet(UseNames)))

Partial == <<"partial">>   \* what a prepare leaves that is not yet done

ASSUME ContentsAssumption ==
  IsSeq(Contents) /\ Contents # <<>> /\ Partial \notin ToSet(Contents)

VARIABLES
  disk,       \* state.json
  server,     \* product -> the app's role, its password, and its databases
  envFiles,   \* component -> its file under .launchfile/env
  deps,       \* directory -> the edit its dependency files are at
  installed,  \* <<directory, command>> -> what it was last prepared from
  alive,      \* the processes, each with the `up` and the variables it has
  up,         \* what the running `up` is doing and what it holds in memory
  round,      \* how many ups there have been
  stale,      \* who holds a copy of state.json another has written since
  odd         \* what has happened that the code does not provide for

vars == <<disk, server, envFiles, deps, installed, alive, up, round, stale, odd>>

initState == [resources |-> <<>>, secrets |-> <<>>, generated |-> <<>>, ports |-> <<>>,
              bound |-> <<>>, appUrl |-> "none", primaryEndpoint |-> "",
              prepared |-> <<>>, processes |-> <<>>]

NoUp   == [at |-> "idle"]
Absent == [none |-> "absent"]   \* no state.json that loads: a truncated one is none

NoRole  == [password |-> Empty, bases |-> {}]

Dirs == UNION {{Launches[n].comp[c].dir : c \in Names(Launches[n])} : n \in DOMAIN Launches}

Init ==
  /\ disk = Absent /\ server = [s \in Servers |-> NoRole] /\ envFiles = <<>>
  /\ deps = [d \in Dirs \cup {"."} |-> 1] /\ installed = <<>> /\ alive = {}
  /\ up = NoUp /\ round = 0 /\ stale = {} /\ odd = {}

Files(dir) == Contents[deps[dir]]

loadState == [disk EXCEPT !.resources = validResources(@)]

\* What is written is the whole of a copy; whoever else holds one is behind.
Holding == IF up.at = "idle" THEN {} ELSE {"up"}

written(who, state) == disk' = state /\ stale' = (stale \cup Holding) \ {who}
When(holds, what) == IF holds THEN {what} ELSE {}

Lost(who) == IF who \in stale THEN {"lost"} ELSE {}

saveState(who, state) == written(who, state) /\ odd' = odd \cup Lost(who)

-----------------------------------------------------------------------------
(* up: the refusals, which narrow the components, and the load.            *)

Launch == [Launches[up.launch] EXCEPT !.order = up.order]
Comp(c) == Launch.comp[c]
By == <<"up", round>>

\* The entries in the order they are provisioned.
Provisioned(launch, optional) ==
  LET entries(c) == launch.comp[c].requires \o
                      (IF optional THEN launch.comp[c].supports ELSE <<>>)
      all == FlattenSeq([i \in DOMAIN launch.order |-> entries(launch.order[i])])
  IN  Among(all, {e \in ToSet(all) : ~e.host /\ e.type # HttpsOrigin})

\* What has to hold of the components that are left before anything is touched:
\* one runs from source, every required variable has a value, and every volume
\* of the operator's a path.
SourceRunnable(launch) == \E c \in Names(launch) : isSourceRunnable(launch.comp[c])

AllSupplied(launch, given) ==
  \A c \in Names(launch) : OperatorEnv(launch.comp[c]) \subseteq given

AllBound(launch, paths) == Undefined \notin Range(operatorStorage(launch, paths))

\* An `up` that is refused has written nothing, and is no step.
Up(name, request) ==
  LET launch == Launches[name]
      state  == IF disk = Absent THEN initState ELSE loadState
      appUrl == IF request.appUrl # "none" THEN request.appUrl ELSE state.appUrl
      start  == selectionClosure(launch, request.components)
      whole  == [launch EXCEPT !.order = Among(@, start)]
      left   == [launch EXCEPT
                   !.order = Narrowed(launch, request.components, appUrl, request.optional)]
  IN  /\ up.at = "idle" /\ round < MaxRounds /\ Cardinality(odd) <= MaxOdd
      /\ SourceRunnable(left) /\ AllSupplied(left, request.env) /\ AllBound(left, request.paths)
      /\ round' = round + 1
      /\ up' = [at |-> "entry", launch |-> name, order |-> left.order, request |-> request,
                state |-> [state EXCEPT
                  !.appUrl = appUrl,
                  !.secrets = generateSecrets(launch.secrets, @, <<"up", round + 1>>)],
                map |-> <<>>, todo |-> Provisioned(left, request.optional),
                refused |-> {}, required |-> {},
                primary |-> declaredPrimary(whole, appUrl),
                envs |-> <<>>, begun |-> <<>>, prepared |-> {}, procs |-> <<>>]
      /\ stale' = stale \ {"up"}
      /\ UNCHANGED <<disk, server, envFiles, deps, installed, alive, odd>>

\* It fails, is refused or is killed: what it holds in memory is gone.
End == up' = NoUp /\ stale' = stale \ {"up"}

-----------------------------------------------------------------------------
(* Provisioning, one resource name after another.                          *)

Entry == Head(up.todo)
AtEntry == up.at = "entry" /\ up.todo # <<>>

Uses(key) == IF key \in DOMAIN declaredUses(Launch) THEN declaredUses(Launch)[key] ELSE {}

\* The indexes are allocated among the components this `up` is left with.
Indexes(key) ==
  LET allocated == allocateDbIndexes(Launch)
  IN  IF key \in DOMAIN allocated THEN allocated[key] ELSE <<>>

\* Done with an entry: its properties are registered under its name.
Registered(record, base) ==
  up' = [up EXCEPT !.at = "entry", !.todo = Tail(@),
           !.state.resources = IF record = NoRecord THEN @ ELSE Only(Entry.key, record) ++ @,
           !.map = Only(Entry.key, registerResource(Entry.type, Entry.key, declaredUses(Launch),
                                                  base, Indexes(Entry.key))) ++ @]

\* An optional entry this provider does not cover is left unfulfilled.
Unsatisfied(e) ==
  ~e.required /\ (e.type \notin Provisioners \/ uncoveredUses(e.type, useKeys(e)) # {})

\* Provisioned or refused before, or not to be had.
Settled(e) == e.key \in DOMAIN up.map \cup up.refused \/ Unsatisfied(e)

SkipEntry ==
  /\ AtEntry /\ Settled(Entry)
  /\ up' = [up EXCEPT !.todo = Tail(@),
              !.required = IF Entry.required /\ Entry.key \in up.refused
                           THEN @ \cup {Entry.key} ELSE @]
  /\ UNCHANGED <<disk, server, envFiles, deps, installed, alive, round, stale, odd>>

ProvisionDry ==
  /\ AtEntry /\ ~Settled(Entry) /\ up.request.dry
  /\ Registered(NoRecord, Placeholder)
  /\ UNCHANGED <<disk, server, envFiles, deps, installed, alive, round, stale, odd>>

Existing == Get(up.state.resources ++ Only(Entry.key, NoRecord), Entry.key)

Record == ResourceState(Entry.type, Entry.key, Existing, namedDatabases(Uses(Entry.key)),
                        Indexes(Entry.key), By)

Provisioning == AtEntry /\ ~Settled(Entry) /\ ~up.request.dry

\* redis and sqlite make nothing on a server, and need no record before.
ProvisionRedis ==
  /\ Provisioning /\ Entry.type = "redis"
  /\ Registered(Record, Properties(Record))
  /\ UNCHANGED <<disk, server, envFiles, deps, installed, alive, round, stale, odd>>

ProvisionSqlite ==
  /\ Provisioning /\ Entry.type = "sqlite"
  /\ Registered(Record, Properties(Record))
  /\ UNCHANGED <<disk, server, envFiles, deps, installed, alive, round, stale, odd>>

\* The data directory of a sqlite file is refused: a required entry ends the
\* `up` once every other has had its turn.
RefuseSqlite ==
  /\ Provisioning /\ Entry.type = "sqlite"
  /\ up' = [up EXCEPT !.todo = Tail(@), !.refused = @ \cup {Entry.key},
              !.required = IF Entry.required THEN @ \cup {Entry.key} ELSE @]
  /\ UNCHANGED <<disk, server, envFiles, deps, installed, alive, round, stale, odd>>

\* An optional entry that fails is skipped, and tried again for the next
\* component that names it.
SkipOptional ==
  /\ Provisioning /\ ~Entry.required
  /\ up' = [up EXCEPT !.todo = Tail(@)]
  /\ UNCHANGED <<disk, server, envFiles, deps, installed, alive, round, stale, odd>>

\* Faulty: the record stays in memory until the state is saved.
KeepRecord ==
  /\ Provisioning /\ Entry.type \in SqlTypes
  /\ up' = [up EXCEPT !.at = "create", !.state.resources = Only(Entry.key, Record) ++ @]
  /\ UNCHANGED <<disk, server, envFiles, deps, installed, alive, round, stale, odd>>

\* Another resource is on record that has the same server.
HasTwin(resources) ==
  \E k \in DOMAIN resources \ {Entry.key} : resources[k].type = Record.type

\* The record, its password among it, is saved before the role is created.  The
\* role is named after the app: a second resource on the server has it too.
PersistRecord ==
  /\ Provisioning /\ Entry.type \in SqlTypes
  /\ up' = [up EXCEPT !.at = "create", !.state.resources = Only(Entry.key, Record) ++ @]
  /\ written("up", up'.state)
  /\ odd' = odd \cup Lost("up") \cup When(HasTwin(up.state.resources), "twins")
  /\ UNCHANGED <<server, envFiles, deps, installed, alive, round>>

\* What is there is left as it is: a role keeps the password it was made with.
Created(standing, password, bases) ==
  [password |-> IF standing.password = Empty THEN password ELSE standing.password,
   bases |-> standing.bases \cup bases]

\* The named databases are made after the role and the app's own one; the first
\* that cannot be made ends a required entry's `up`.
Create(made) ==
  /\ up.at = "create"
  /\ LET record == up.state.resources[Entry.key]
         names  == namedDatabases(Uses(Entry.key))
     IN  /\ made \subseteq names
         /\ server' = [server EXCEPT ![record.type] = Created(@, record.password, {""} \cup made)]
         /\ IF made = names THEN Registered(record, Properties(record)) /\ UNCHANGED stale
            ELSE IF Entry.required THEN End
            ELSE up' = [up EXCEPT !.at = "entry", !.todo = Tail(@)] /\ UNCHANGED stale
  /\ UNCHANGED <<disk, envFiles, deps, installed, alive, round, odd>>

\* The role may fail to be made, and with it the app's own database: nothing
\* is said of it.
CreateNothing ==
  /\ up.at = "create"
  /\ LET record == up.state.resources[Entry.key]
     IN  /\ server[record.type].password = Empty /\ namedDatabases(Uses(Entry.key)) = {}
         /\ Registered(record, Properties(record))
  /\ UNCHANGED <<disk, server, envFiles, deps, installed, alive, round, stale, odd>>

-----------------------------------------------------------------------------
(* Wiring: ports, addresses, variables.                                    *)

\* A required resource that was refused ends the `up` here instead.
Wire ==
  /\ up.at = "entry" /\ up.todo = <<>> /\ up.required = {}
  /\ LET ports == allocatePorts(Names(Launch), up.state.ports, up.request.taken, round)
     IN  up' = [up EXCEPT !.at = "env", !.todo = up.order,
                  !.state.ports = ports,
                  !.state.primaryEndpoint = printedPrimaryEndpoint(Launch, ports, up.primary),
                  !.state.bound = operatorStorage(Launch, up.request.paths)]
  /\ UNCHANGED <<disk, server, envFiles, deps, installed, alive, round, stale, odd>>

Context == resolverContextFor(Launch, up.map, up.state, up.primary)

\* An unresolved use is thrown; a dry run writes no file.
WriteEnv(c) ==
  /\ up.at = "env" /\ up.todo # <<>> /\ c = Head(up.todo)
  /\ LET started == StartedEnv(Comp(c), c, Context, up.state, By)
     IN  /\ Unresolved \notin Range(started.env)
         /\ up' = [up EXCEPT !.todo = Tail(@), !.state.generated = started.generated,
                             !.envs = Only(c, started.env) ++ @]
         /\ envFiles' = IF up.request.dry THEN envFiles ELSE Only(c, started.env) ++ envFiles
  /\ UNCHANGED <<disk, server, deps, installed, alive, round, stale, odd>>

\* Faulty: the bound paths are not part of what is saved.
SaveWithoutBound ==
  /\ up.at = "env" /\ up.todo = <<>>
  /\ up' = IF up.request.dry THEN NoUp
           ELSE [up EXCEPT !.at = IF up.request.noBuild THEN "release" ELSE "prepare",
                           !.todo = up.order, !.state.bound = <<>>]
  /\ saveState("up", [up.state EXCEPT !.bound = <<>>])
  /\ UNCHANGED <<server, envFiles, deps, installed, alive, round>>

\* A dry run saves too, and ends.
SaveUp ==
  /\ up.at = "env" /\ up.todo = <<>>
  /\ up' = IF up.request.dry THEN NoUp
           ELSE [up EXCEPT !.at = IF up.request.noBuild THEN "release" ELSE "prepare",
                           !.todo = up.order]
  /\ saveState("up", up.state)
  /\ UNCHANGED <<server, envFiles, deps, installed, alive, round>>

-----------------------------------------------------------------------------
(* Prepare: once per directory and command, and only when what it depends  *)
(* on has changed.                                                         *)

Preparing == Head(up.todo)
Command(c) == PrepareCommand(Comp(c), Files("."))
Key(c) == <<Comp(c).dir, Command(c)>>
Fingerprint(c) == prepareFingerprint(Command(c), Files(Comp(c).dir))
Prepared(c) == Get(up.state.prepared, c)

AtPrepare == up.at = "prepare" /\ up.todo # <<>>

\* A component that shares a prepare of this `up` is recorded for the files as
\* they are by now, which may no longer be those it ran on.
Outrun(c) == IF Get(installed, Key(c)) = Files(Comp(c).dir) THEN {} ELSE {"shared"}

SkipPrepare ==
  /\ AtPrepare
  /\ \/ /\ Command(Preparing) = NoCommand
        /\ up' = [up EXCEPT !.todo = Tail(@)]
        /\ UNCHANGED <<disk, stale, odd>>
     \/ /\ Command(Preparing) # NoCommand
        /\ Prepared(Preparing) = Fingerprint(Preparing) \/ Key(Preparing) \in up.prepared
        /\ up' = [up EXCEPT !.todo = Tail(@), !.prepared = @ \cup {Key(Preparing)},
                            !.state.prepared = Only(Preparing, Fingerprint(Preparing)) ++ @]
        /\ IF Prepared(Preparing) = Fingerprint(Preparing) THEN UNCHANGED <<disk, stale, odd>>
           ELSE /\ written("up", up'.state)
                /\ odd' = odd \cup Lost("up") \cup Outrun(Preparing)
  /\ UNCHANGED <<server, envFiles, deps, installed, alive, round>>

\* Faulty: recorded when the command begins.
BeginRecorded ==
  /\ AtPrepare
  /\ Command(Preparing) # NoCommand /\ Key(Preparing) \notin up.prepared
  /\ Prepared(Preparing) # Fingerprint(Preparing)
  /\ up' = [up EXCEPT !.at = "preparing", !.begun = <<Key(Preparing), Fingerprint(Preparing)>>,
              !.state.prepared = Only(Preparing, Fingerprint(Preparing)) ++ @]
  /\ installed' = Only(Key(Preparing), Partial) ++ installed
  /\ saveState("up", up'.state)
  /\ UNCHANGED <<server, envFiles, deps, alive, round>>

\* The components of another name that are on record for the same prepare.
Covering == {c \in DOMAIN up.state.prepared : up.state.prepared[c] = Fingerprint(Preparing)}

\* The fingerprint is taken before the command runs: what it reads may change.
BeginPrepare ==
  /\ AtPrepare
  /\ Command(Preparing) # NoCommand /\ Key(Preparing) \notin up.prepared
  /\ Prepared(Preparing) # Fingerprint(Preparing)
  /\ up' = [up EXCEPT !.at = "preparing", !.begun = <<Key(Preparing), Fingerprint(Preparing)>>]
  /\ installed' = Only(Key(Preparing), Partial) ++ installed
  /\ odd' = IF Covering = {} THEN odd ELSE odd \cup {"shared"}
  /\ UNCHANGED <<disk, server, envFiles, deps, alive, round, stale>>

EndPrepare ==
  /\ up.at = "preparing"
  /\ LET key == up.begun[1]
     IN  /\ \E read \in {up.begun[2][2], Files(key[1])} : installed' = Only(key, read) ++ installed
         /\ up' = [up EXCEPT !.at = "prepare", !.todo = Tail(@), !.begun = <<>>,
                     !.prepared = @ \cup {key},
                     !.state.prepared = Only(Preparing, up.begun[2]) ++ @]
  /\ saveState("up", up'.state)
  /\ UNCHANGED <<server, envFiles, deps, alive, round>>

-----------------------------------------------------------------------------
(* Release, start, record.                                                 *)

RunReleases ==
  /\ up.at = "release" \/ (up.at = "prepare" /\ up.todo = <<>>)
  /\ up' = [up EXCEPT !.at = "start", !.todo = <<>>]
  /\ UNCHANGED <<disk, server, envFiles, deps, installed, alive, round, stale, odd>>

Runnable == {c \in Names(Launch) : isSourceRunnable(Comp(c))}

\* A process is late that is spawned when the record has been taken.
Process(c, late) == [component |-> c, round |-> round, env |-> up.envs[c], late |-> late]

\* What startAll has not spawned: a gate's refusal leaves it at work on these.
Unspawned == Runnable \ DOMAIN up.procs
Spawning(late) == late \subseteq Unspawned /\ alive' = alive \cup {Process(c, TRUE) : c \in late}

\* All come up, or some do and one does not; a gate may fail with all of them up.
StartAll(started, failed) ==
  /\ up.at = "start" /\ started \subseteq Runnable /\ (started # Runnable => failed)
  /\ alive' = alive \cup {Process(c, FALSE) : c \in started}
  /\ up' = [up EXCEPT !.at = IF failed THEN "failed" ELSE "started",
                      !.procs = [c \in started |-> round]]
  /\ odd' = IF alive = {} THEN odd ELSE odd \cup {"again"}
  /\ UNCHANGED <<disk, server, envFiles, deps, installed, round, stale>>

\* Faulty: a start that failed records nothing.
RecordStarted(late) ==
  \/ /\ up.at = "failed" /\ End /\ Spawning(late)
     /\ UNCHANGED <<disk, server, envFiles, deps, installed, round, odd>>
  \/ /\ up.at = "started" /\ late = {}
     /\ LET state == [up.state EXCEPT !.processes = up.procs]
        IN  /\ up' = IF up.request.detach THEN NoUp
                     ELSE [up EXCEPT !.at = "session", !.state = state]
            /\ saveState("up", state)
     /\ UNCHANGED <<server, envFiles, deps, installed, alive, round>>

\* Recorded also when a component did not come up: its process is left running,
\* and its siblings may yet be spawned.
RecordProcesses(late) ==
  /\ up.at \in {"started", "failed"} /\ Spawning(late)
  /\ LET state == [up.state EXCEPT !.processes = up.procs]
     IN  /\ up' = IF up.at = "failed" \/ up.request.detach THEN NoUp
                  ELSE [up EXCEPT !.at = "session", !.state = state]
         /\ saveState("up", state)
  /\ UNCHANGED <<server, envFiles, deps, installed, round>>

Earlier == {p \in alive : p.round # round}

\* Ctrl+C, from startAll on: the session stops its own processes and saves what
\* it holds, with none on record; startAll may go on spawning meanwhile.
Interrupt(late) ==
  /\ up.at \in {"start", "started", "failed", "session"} /\ ~up.request.detach
  /\ late \subseteq Unspawned
  /\ alive' = Earlier \cup {Process(c, TRUE) : c \in late}
  /\ written("up", [up.state EXCEPT !.processes = <<>>])
  /\ odd' = odd \cup Lost("up") \cup When(Earlier # {}, "again")
  /\ up' = NoUp
  /\ UNCHANGED <<server, envFiles, deps, installed, round>>

-----------------------------------------------------------------------------
(* What ends an `up`.                                                      *)

\* A step fails or the `up` is killed.  Between start and record only a kill
\* ends it, which leaves processes no record names.
Abort ==
  /\ up.at # "idle"
  /\ End
  /\ odd' = IF up.at \in {"started", "failed"} /\ up.procs # <<>> THEN odd \cup {"killed"} ELSE odd
  /\ UNCHANGED <<disk, server, envFiles, deps, installed, alive, round>>

\* state.json is truncated and then written: a kill in between leaves none.
KillSaving ==
  /\ up.at \notin {"idle", "session"} /\ disk # Absent
  /\ End
  /\ disk' = Absent /\ odd' = odd \cup {"torn"}
  /\ UNCHANGED <<server, envFiles, deps, installed, alive, round>>

-----------------------------------------------------------------------------
(* down, env, bootstrap.                                                   *)

IsRecorded(p, processes) ==
  p.component \in DOMAIN processes /\ processes[p.component] = p.round

Stopped == {p \in alive : IsRecorded(p, loadState.processes)}

\* They come between two ups or while one is at a step that takes its time.
Quiet == disk # Absent /\ up.at \in {"idle", "preparing", "session"}

\* With no process on record nothing is saved.
Down ==
  /\ Quiet /\ disk.processes # <<>>
  /\ alive' = alive \ Stopped
  /\ saveState("down", [loadState EXCEPT !.processes = <<>>])
  /\ UNCHANGED <<server, envFiles, deps, installed, up, round>>

Bases(record)  == {""} \cup record.databases
Mine(s, state) == {r \in Range(state.resources) : r.type = s}

\* PostgreSQL does not drop a role that still owns a database.
RoleStays(s, left) == s = "postgres" /\ left # {}

\* The databases on record are dropped, then the role; a drop may fail, and
\* `down` goes on.
Dropped(s, records) ==
  LET left == server[s].bases \ UNION {Bases(r) : r \in records}
  IN  IF records = {} THEN server[s]
      ELSE [password |-> IF RoleStays(s, left) THEN server[s].password ELSE Empty,
            bases |-> left]

Destroy(dropped) ==
  /\ Quiet
  /\ alive' = alive \ Stopped
  /\ server' = IF dropped THEN [s \in Servers |-> Dropped(s, Mine(s, disk))] ELSE server
  /\ disk' = Absent /\ envFiles' = <<>>
  /\ stale' = Holding
  /\ odd' = CASE up.at # "idle" -> odd \cup {"overlap"}
              [] up.at = "idle" /\ server' # [s \in Servers |-> NoRole] -> odd \cup {"drop"}
              [] OTHER -> odd
  /\ UNCHANGED <<deps, installed, up, round>>

\* `env` and `bootstrap` provision what is on record, for the Launchfile of now.
NamedBases(launch, key) ==
  IF key \in DOMAIN declaredUses(launch) THEN namedDatabases(declaredUses(launch)[key]) ELSE {}

Ensured(launch, s) ==
  LET held == {k \in DOMAIN loadState.resources : loadState.resources[k].type = s}
  IN  IF held = {} THEN server[s]
      ELSE Created(server[s], loadState.resources[CHOOSE k \in held : TRUE].password,
                   {""} \cup UNION {NamedBases(launch, k) : k \in held})

\* What was minted is saved, and only then.
Answer(launch, state) ==
  /\ server' = [s \in Servers |-> Ensured(launch, s)]
  /\ LET ahead == {s \in Servers : ~(server'[s].bases \subseteq
                     server[s].bases \cup UNION {Bases(r) : r \in Mine(s, loadState)})}
         who   == IF ahead = {} THEN odd ELSE odd \cup {"ahead"}
     IN  IF state = loadState THEN UNCHANGED <<disk, stale>> /\ odd' = who
         ELSE disk' = state /\ stale' = stale \cup Holding /\ odd' = who
  /\ UNCHANGED <<envFiles, deps, installed, alive, up, round>>

StateContext(launch) ==
  resolverContextFor(launch, resourceMapFromState(launch, loadState.resources), loadState,
                     declaredPrimary(launch, loadState.appUrl))

EnvOf(launch, c, context, given) ==
  AnsweredEnv(launch.comp[c], c, context, loadState,
              storagePaths(launch.comp[c], c, loadState.bound), given, <<"env", round>>)

Env(launch) ==
  /\ Quiet
  /\ LET context == StateContext(launch)
         answers == [c \in Names(launch) |-> EnvOf(launch, c, context, {})]
     IN  /\ \A c \in Names(launch) : Unresolved \notin Range(answers[c].env)
         /\ Answer(launch, [loadState EXCEPT
              !.generated = @ ++ [k \in UNION {DOMAIN answers[c].generated : c \in Names(launch)} |->
                                    answers[k[1]].generated[k]]])

\* One component's command; it gets the variables without its volumes.
Bootstrap(launch, c) ==
  /\ launch.comp[c].bootstrap # <<>> /\ Quiet
  /\ LET context == StateContext(launch)
         answer  == AnsweredEnv(launch.comp[c], c, context, loadState, <<>>, {},
                                <<"bootstrap", round>>)
     IN  /\ resolveExpression(launch.comp[c].bootstrap, context) # Unresolved
         /\ Unresolved \notin Range(answer.env)
         /\ Answer(launch, [loadState EXCEPT !.generated = answer.generated])

\* The dependency files of a directory change.  Nothing but the prepare reads
\* them, so an edit at another time is one at the beginning of the next.
EditFiles(dir) ==
  /\ up.at \in {"prepare", "preparing"}
  /\ deps[dir] < Len(Contents)
  /\ deps' = [deps EXCEPT ![dir] = @ + 1]
  /\ odd' = odd \cup When(\E i \in 1..deps[dir] : Contents[i] = Contents[deps'[dir]], "returned")
  /\ UNCHANGED <<disk, server, envFiles, installed, alive, up, round, stale>>

Next ==
  \/ \E name \in DOMAIN Launches :
       \/ \E request \in Requests : Up(name, request)
       \/ Env(Launches[name])
       \/ \E c \in Names(Launches[name]) : Bootstrap(Launches[name], c)
  \/ SkipEntry \/ ProvisionDry \/ ProvisionRedis \/ ProvisionSqlite \/ RefuseSqlite \/ SkipOptional
  \/ PersistRecord \/ CreateNothing
  \/ up.at = "create" /\ \E made \in SUBSET namedDatabases(Uses(Entry.key)) : Create(made)
  \/ Wire \/ SaveUp \/ SkipPrepare \/ BeginPrepare \/ EndPrepare \/ RunReleases
  \/ up.at = "env" /\ \E c \in Names(Launch) : WriteEnv(c)
  \/ up.at = "start" /\ \E started \in SUBSET Runnable, failed \in BOOLEAN : StartAll(started, failed)
  \/ up.at \in {"started", "failed"} /\ \E late \in SUBSET Unspawned : RecordProcesses(late)
  \/ up.at \in {"start", "started", "failed", "session"} /\
       \E late \in SUBSET Unspawned : Interrupt(late)
  \/ Abort \/ KillSaving
  \/ Down \/ \E dropped \in BOOLEAN : Destroy(dropped)
  \/ \E dir \in DOMAIN deps : EditFiles(dir)

Spec == Init /\ [][Next]_vars

-----------------------------------------------------------------------------
(* What a theorem needs of the Launchfiles and the files a project has had;  *)
(* the code does not see to any of it.                                       *)

Declared(n) == UNION {ToSet(Entries(Launches[n].comp[c])) : c \in Names(Launches[n])}
AllDeclared == UNION {Declared(n) : n \in DOMAIN Launches}

\* A key under which there was a role with a password is not given to a resource
\* that has none, whose record would replace it,
KeysStaySql ==
  \A e, f \in AllDeclared :
    e.key = f.key /\ e.type \in SqlTypes /\ f.type \in Provisioners => f.type \in SqlTypes

\* nor to another product's.
KeysKeepServer ==
  \A e, f \in AllDeclared :
    e.key = f.key /\ e.type \in SqlTypes /\ f.type \in Provisioners =>
      f.type \in SqlTypes /\ Server(f.type) = Server(e.type)

-----------------------------------------------------------------------------
(* Properties                                                              *)

\* A url that was handed out opens its server: the password in every file and
\* every process on record is the one the role was made with, whatever failed,
\* was stopped or edited in between.  Not provided for: two resources of one
\* product, which have a password each and one role; a state.json lost to a kill
\* within its write; a role `down --destroy` could not drop; a destroy beside an
\* `up`.
Opens(value) ==
  Len(value) = 4 /\ value[1] = "url" /\ value[2] \in Servers
    /\ server[value[2]].password # Empty
  => value[3] = server[value[2]].password

HandedOut ==
  Range(envFiles) \cup
    {p.env : p \in {q \in alive : disk # Absent /\ IsRecorded(q, disk.processes)}}

RolesOpen ==
  odd \cap {"torn", "drop", "overlap", "twins"} = {} =>
    \A env \in HandedOut : \A v \in DOMAIN env : Opens(env[v])

\* What is on a server is on record, so that `down --destroy` reaches it: the
\* role with its password, and every database.  A database that `env` makes for
\* a Launchfile edited since the last `up` is beyond it.
OnRecord ==
  odd \cap {"torn", "drop", "overlap", "ahead"} = {} =>
    \A s \in Servers :
      server[s] # NoRole =>
        /\ disk # Absent
        /\ server[s].bases \subseteq UNION {Bases(r) : r \in Mine(s, disk)}
        /\ server[s].password \in {r.password : r \in Mine(s, disk)}

\* Generated once, then kept (D-49): no command that saves changes or drops a
\* secret, a generated variable or a database password, be it an `up`, the
\* `env` or `bootstrap` after an edit, or the `down` in between.
KeptIn(old, new) == \A k \in DOMAIN old : k \in DOMAIN new /\ new[k] = old[k]

Passwords(state) ==
  LET sql == {k \in DOMAIN state.resources : state.resources[k].type \in Servers}
  IN  [k \in sql |-> state.resources[k].password]

GeneratedOnce ==
  [][disk # Absent /\ disk' # Absent /\ "lost" \notin odd' =>
       /\ KeptIn(disk.generated, disk'.generated) /\ KeptIn(disk.secrets, disk'.secrets)
       /\ KeptIn(Passwords(disk), Passwords(disk'))]_vars

\* A prepare that is skipped has nothing to do: while a component's recorded
\* fingerprint is that of the files as they are, its directory was prepared
\* from them in full.  Not provided for: files put back to an earlier content, a
\* component that has had another directory, and a directory in which a second
\* component begins the prepare anew, or counts it as done for it in this `up`
\* although an edit came in between.
DirsOf(c) ==
  {Launches[n].comp[c].dir : n \in {m \in DOMAIN Launches : c \in Names(Launches[m])}}

UpToDate ==
  disk # Absent /\ odd \cap {"shared", "returned"} = {} =>
    \A n \in DOMAIN Launches : \A c \in Names(Launches[n]) \cap DOMAIN disk.prepared :
      LET comp    == Launches[n].comp[c]
          command == PrepareCommand(comp, Files("."))
      IN  DirsOf(c) = {comp.dir} /\ disk.prepared[c] = prepareFingerprint(command, Files(comp.dir))
            => Get(installed, <<comp.dir, command>>) = Files(comp.dir)

\* Whatever an `up` had started by the time it succeeded, failed or was stopped
\* with Ctrl+C, and leaves running, is on record for `down`.  Not so what it
\* spawns once the record is taken: a sibling of the component whose gate was
\* refused, or what startAll goes on with after Ctrl+C.  Nor after a kill between
\* start and record or within a write of state.json, or a second `up` beside
\* processes that still run.
Reachable ==
  up.at = "idle" /\ odd \cap {"killed", "again", "torn"} = {} =>
    \A p \in alive : p.late \/ (disk # Absent /\ IsRecorded(p, disk.processes))

\* `env` reports what the running app has: in a session that runs the whole
\* Launchfile, from the state it has just saved, every variable of a component
\* but a generated port, if of the resources the component reads those are on
\* record that this `up` provisioned.  An optional one that an earlier `up` made,
\* or this one in part, is on record and `env` shows it; a sqlite file is not.
\* Nor does it hold of a variable that the operator is asked for and a resource
\* sets too: the app has the operator's value, `env` shows the resource's.
Reads(comp) ==
  LET defaults == {comp.env[v].ref : v \in OfKind(comp, {"default"})}
      refs     == defaults \cup UNION {Range(e.env) : e \in Resources(comp)}
  IN  {e.key : e \in Resources(comp)} \cup {ref[1] : ref \in refs}

Contested(comp) == OperatorEnv(comp) \cap UNION {DOMAIN e.env : e \in Resources(comp)}

EnvAgrees ==
  up.at = "session" /\ "up" \notin stale /\ up.order = Launches[up.launch].order =>
    \A c \in Names(Launch) :
      LET but    == OfKind(Comp(c), {"port"}) \cup Contested(Comp(c))
          answer == EnvOf(Launch, c, StateContext(Launch), up.request.env).env
      IN  Reads(Comp(c)) \cap DOMAIN loadState.resources = Reads(Comp(c)) \cap DOMAIN up.map =>
            Restrict(answer, DOMAIN answer \ but) = Restrict(up.envs[c], DOMAIN up.envs[c] \ but)

\* Across all uses of the app's redis resources the databases on record differ
\* (D-56): no two uses share one.
IndexesApart ==
  disk # Absent =>
    \A k \in DOMAIN disk.resources, j \in DOMAIN disk.resources :
      \A u \in DOMAIN disk.resources[k].indexes, v \in DOMAIN disk.resources[j].indexes :
        <<k, u>> # <<j, v>> => disk.resources[k].indexes[u] # disk.resources[j].indexes[v]
=============================================================================
