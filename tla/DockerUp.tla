------------------------------ MODULE DockerUp ------------------------------
(***************************************************************************)
(* `up` and `down` of the docker provider for one deployment, with the     *)
(* whole of launchToCompose in between: what an `up` launches and refuses, *)
(* what it writes, and in which order releases and services start.  The    *)
(* Launchfile may be edited between two of them.  Concurrent commands,     *)
(* kills and foreign sources are DockerDeployment's.                       *)
(*                                                                         *)
(* Docker itself is modelled by what compose is asked to do: it rejects a  *)
(* file that names a service it does not have, `run` and `up` bring up     *)
(* what a service depends on first, and a volume keeps the password its    *)
(* database was initialised with.                                          *)
(***************************************************************************)
EXTENDS ComposeGenerator

CONSTANTS
  Launches,   \* the Launchfiles a deployment of this name may have
  Requests,   \* what `up` may be asked: components, appUrl, env, paths, local, dry
  Embeddings, \* what an embedder of launchToCompose may supply: resources, policy
  MaxUps      \* how many ups and embedder's calls there are

ASSUME LaunchesAssumption ==
  \A launch \in Launches :
    /\ launch.order \in Seq(DOMAIN launch.comp)
    /\ \A i, j \in DOMAIN launch.order : launch.order[i] = launch.order[j] => i = j
    /\ \A c \in DOMAIN launch.comp :
         /\ launch.comp[c].requires \in Seq(ToSet(launch.comp[c].requires))
         /\ launch.comp[c].supports \in Seq(ToSet(launch.comp[c].supports))

ASSUME UsesAssumption ==
  \A launch \in Launches : \A c \in Names(launch) :
    \A e \in ToSet(Entries(launch.comp[c])) :
      e.uses \in Seq(STRING \X ({""} \cup ToSet(UseNames)))

ASSUME MaxUpsAssumption == MaxUps \in Nat

VARIABLES
  disk,       \* state.json: the minted values and the recorded publication URL
  file,       \* docker-compose.yml: its services
  volumes,    \* type -> the passwords and databases its volume was initialised with
  containers, \* service -> the service as of which its container was created
  run,        \* what this `up` is doing
  round,      \* how many there have been
  odd         \* whether a `down --destroy` left a volume or a container

upVars == <<disk, file, volumes, containers, run, round, odd>>
vars   == <<genVars, upVars>>

Absent == [none |-> "absent"]   \* no state.json, no compose file

NoRun == [start |-> {}, selector |-> FALSE, dry |-> FALSE, embedded |-> FALSE,
          visiting |-> <<>>, done |-> {}, plan |-> <<>>, created |-> {}, released |-> {}]

initState == [secrets |-> <<>>, passwords |-> <<>>, generated |-> <<>>, appUrl |-> "none"]

\* A deployment of an earlier version keeps its passwords among the secrets.
Legacy == [initState EXCEPT !.secrets = Only("postgres", <<"minted", 0, "secret", "postgres">>)]

Init ==
  /\ at = "idle"
  /\ opts = [launch |-> [order |-> <<>>, comp |-> <<>>]] /\ stored = initState
  /\ todo = <<>> /\ cur = NoComponent /\ ctx = <<>> /\ out = NothingEmitted
  /\ \/ disk = Absent /\ volumes = <<>>
     \/ disk = Legacy
        /\ volumes = Only("postgres", [env |-> Legacy.secrets, databases |-> {}])
  /\ file = Absent /\ containers = <<>> /\ run = NoRun /\ round = 0 /\ odd = FALSE

-----------------------------------------------------------------------------
\* One port per published endpoint of every component, translated or not.
hostPorts(launch) ==
  LET keys == UNION {{<<c, i>> : i \in DOMAIN publishedEndpoints(launch.comp[c])} :
                       c \in Names(launch)}
  IN  [k \in keys |-> <<"host", k>>]

\* Omitted, the publication URL stays as recorded.
AppUrl(state, supplied) == IF supplied # "none" THEN supplied ELSE state.appUrl

\* A selector that names no component ends here.
Up(launch, request) ==
  LET start == selectionClosure(launch, request.components)
      state == IF disk = Absent THEN initState ELSE disk
  IN  /\ at = "idle" /\ round < MaxUps /\ start # {}
      /\ round' = round + 1
      /\ run' = [NoRun EXCEPT !.start = start, !.dry = request.dry,
                              !.selector = request.components # {}]
      /\ launchToCompose([launch |-> launch, round |-> round + 1,
                          hostPorts |-> hostPorts(launch), local |-> request.local,
                          operatorEnv |-> request.env, storagePaths |-> request.paths,
                          appUrl |-> AppUrl(state, request.appUrl),
                          resources |-> <<>>, policy |-> <<>>], state)
      /\ UNCHANGED <<disk, file, volumes, containers, odd>>

\* An embedder calls launchToCompose with what its orchestrator supplies. It
\* leaves nothing behind, so a behaviour that begins with such a call ends there.
Embed(launch, supply) ==
  /\ at = "idle" /\ round = 0
  /\ round' = MaxUps
  /\ run' = [NoRun EXCEPT !.embedded = TRUE]
  /\ launchToCompose([launch |-> launch, round |-> MaxUps,
                      hostPorts |-> hostPorts(launch), local |-> TRUE,
                      operatorEnv |-> {}, storagePaths |-> {}, appUrl |-> supply.appUrl,
                      resources |-> supply.resources, policy |-> supply.policy], initState)
  /\ UNCHANGED <<disk, file, volumes, containers, odd>>

Translating == Generate /\ UNCHANGED upVars

End == at' = "idle" /\ UNCHANGED <<opts, stored, todo, cur, ctx, out>>

\* Either way nothing has been written.
GenerateFails == at = "thrown" /\ End /\ UNCHANGED upVars
Embedded      == at = "returned" /\ run.embedded /\ End /\ UNCHANGED upVars

-----------------------------------------------------------------------------
(* What is refused before anything is written: a gap of a component that   *)
(* this `up` launches, and having nothing to launch.                       *)

launching == out.components \cap run.start

OfLaunching(gaps) == {g \in gaps : g[1] \in launching}

Blocked == \/ OfLaunching(out.unsupplied) # {}
           \/ OfLaunching(out.unbound) # {}
           \/ launching = {}

\* A bound path may not be readable.
RefuseUp ==
  /\ at = "returned" /\ ~run.embedded
  /\ Blocked \/ OfLaunching(out.binds) # {}
  /\ End
  /\ UNCHANGED upVars

Preview == at = "returned" /\ ~run.embedded /\ ~Blocked /\ run.dry /\ End /\ UNCHANGED upVars

WriteFiles ==
  /\ at = "returned" /\ ~run.embedded /\ ~Blocked /\ ~run.dry
  /\ file' = out.services
  /\ disk' = [stored EXCEPT !.appUrl = opts.appUrl]
  /\ at' = "prepare"
  /\ UNCHANGED <<opts, stored, todo, cur, ctx, out, volumes, containers, run, round, odd>>

-----------------------------------------------------------------------------
(* What compose does.                                                      *)

Needs(s) == DOMAIN file[s].needs

\* A set of services of the file with everything they need.
WithNeeds(services) == Closure([s \in DOMAIN file |-> Needs(s)], services)

\* A service that is named and is not there, or needs itself, is an error.
Valid == /\ \A s \in DOMAIN file : Needs(s) \subseteq DOMAIN file
         /\ \A s \in DOMAIN file : s \notin WithNeeds(Needs(s))

\* A container is created anew only when its service has changed.
Stale(services) ==
  {s \in services : s \notin DOMAIN containers \/ containers[s] # file[s]}

\* A volume is initialised by the first container that mounts it.
Initialised(services) ==
  LET new == {s \in services : file[s].backing /\ KeepsData(s) /\ s \notin DOMAIN volumes}
  IN  [s \in new |-> [env |-> file[s].env, databases |-> file[s].databases]]

\* There is no more to bring up than the file has.
Bring(services) ==
  LET there == services \cap DOMAIN file
  IN  /\ containers' = Restrict(file, there) ++ containers
      /\ volumes' = volumes ++ Initialised(there)

\* Bringing services up may stop short: of a service all that it needs is up.
Begun(services) == {up \in SUBSET services : WithNeeds(up) = up}

-----------------------------------------------------------------------------
(* Images, and what there is to release.                                   *)

\* A release sees the secrets and `$app`, from the ports that were published.
ReleaseContext ==
  LET ports == [k \in DOMAIN out.ports |-> out.ports[k].port]
      app   == computeAppContext(Launch, ports, opts.appUrl, {})
  IN  [resources |-> <<>>, resource |-> <<>>, components |-> <<>>, storage |-> <<>>,
       secrets |-> declaredSecrets(Launch.secrets, disk.secrets),
       app |-> app.app, appEndpoints |-> app.endpoints, uses |-> <<>>]

Releasing(c) ==
  c \in out.components /\ Comp(c).release # <<>> /\ (run.selector => c \in run.start)

\* A command that resolves to nothing is thrown, before any release runs.
PlanThrows ==
  \E c \in Names(Launch) :
    Releasing(c) /\ resolveExpression(Comp(c).release, ReleaseContext) = Empty

AbortUp == End /\ UNCHANGED upVars

\* Pulling and building read the file; either may fail.
PrepareFails == at = "prepare" /\ AbortUp

Planning == UNCHANGED <<opts, stored, todo, cur, ctx, out, disk, file, volumes, containers,
                        round, odd>>

Prepare == at = "prepare" /\ Valid /\ at' = "plan" /\ UNCHANGED run /\ Planning

-----------------------------------------------------------------------------
(* dependencyOrder, call by call: every target of a depends_on before its  *)
(* dependents, else as declared.  `visiting` is the calls under way, the   *)
(* innermost first; the targets of one are visited in any order.  Of what  *)
(* is ordered the plan keeps those that release.                           *)

\* Faulty: the components as they are declared.
declaredTargets(c) == {}

Targets(c) == dependsOn(Launch)[c]

visit(c) ==
  /\ c \notin run.done \cup ToSet(run.visiting)
  /\ run' = [run EXCEPT !.visiting = <<c>> \o @]

VisitDeclared ==
  /\ run.visiting = <<>>
  /\ \E i \in DOMAIN Launch.order : /\ \A j \in 1..(i - 1) : Launch.order[j] \in run.done
                                   /\ visit(Launch.order[i])

VisitTarget == run.visiting # <<>> /\ \E c \in Targets(Head(run.visiting)) : visit(c)

Place ==
  /\ run.visiting # <<>>
  /\ LET c == Head(run.visiting)
     IN  /\ Targets(c) \subseteq run.done \cup ToSet(run.visiting)
         /\ run' = [run EXCEPT !.visiting = Tail(@), !.done = @ \cup {c},
                               !.plan = IF Releasing(c) THEN Append(@, c) ELSE @]

dependencyOrder ==
  at = "plan" /\ (VisitDeclared \/ VisitTarget \/ Place) /\ UNCHANGED at /\ Planning

Visited == at = "plan" /\ run.visiting = <<>> /\ Names(Launch) \subseteq run.done

PlanFails == Visited /\ PlanThrows /\ AbortUp

planReleases == Visited /\ ~PlanThrows /\ at' = "release" /\ UNCHANGED run /\ Planning

-----------------------------------------------------------------------------
(* Releases, one after another, and the services.                          *)

Created(services) == run' = [run EXCEPT !.created = @ \cup Stale(services)]

\* `compose run`: what the component needs, and its own one-shot container.
RunRelease ==
  /\ at = "release" /\ run.plan # <<>>
  /\ LET c == Head(run.plan)
         needed == WithNeeds(Needs(c))
     IN  /\ Bring(needed)
         /\ run' = [run EXCEPT !.plan = Tail(@), !.released = @ \cup {c},
                               !.created = @ \cup Stale(needed)]
  /\ UNCHANGED <<genVars, disk, file, round, odd>>

\* What it needs did not come up, or the command failed: the deploy is aborted.
ReleaseFails ==
  /\ at = "release" /\ run.plan # <<>>
  /\ \E up \in Begun(WithNeeds(Needs(Head(run.plan)))) : Bring(up) /\ Created(up)
  /\ End
  /\ UNCHANGED <<disk, file, round, odd>>

\* `compose up -d` of everything, or under a selector of the start-set, which
\* names the components that were refused too.
Asked == IF run.selector THEN run.start ELSE DOMAIN file

Rejected == ~(Asked \subseteq DOMAIN file)

AtStart == at = "release" /\ run.plan = <<>>

StartServices ==
  /\ AtStart /\ ~Rejected
  /\ Bring(WithNeeds(Asked)) /\ Created(WithNeeds(Asked))
  /\ at' = "health"
  /\ UNCHANGED <<opts, stored, todo, cur, ctx, out, disk, file, round, odd>>

StartFails ==
  /\ AtStart
  /\ \E up \in IF Rejected THEN {{}} ELSE Begun(WithNeeds(Asked)) : Bring(up) /\ Created(up)
  /\ End
  /\ UNCHANGED <<disk, file, round, odd>>

-----------------------------------------------------------------------------
(* The health gate.                                                        *)

\* A poll lists the containers of the services that were generated, in any
\* state; an unhealthy one keeps the gate waiting until its budget is gone.
isContainerHealthy(s, status) ==
  CASE status = "exited" -> s \in out.mayExit
    [] status = "healthy" -> TRUE
    [] status = "running" -> ~file[s].checked
    [] OTHER -> FALSE

Rows == DOMAIN file \cap DOMAIN containers

waitForHealth ==
  /\ at = "health"
  /\ \E status \in [Rows -> {"exited", "failed", "running", "healthy"}] :
       \A s \in Rows : isContainerHealthy(s, status[s])
  /\ AbortUp

HealthTimesOut == at = "health" /\ AbortUp

-----------------------------------------------------------------------------
(* down: `compose down` works from the file, and so does its -v.  It may   *)
(* fail, and `down` goes on.                                               *)

NotOfFile(what) == Restrict(what, DOMAIN what \ DOMAIN file)

Down ==
  /\ at = "idle" /\ disk # Absent
  /\ containers' = IF file = Absent THEN containers ELSE NotOfFile(containers)
  /\ run' = NoRun
  /\ UNCHANGED <<genVars, disk, file, volumes, round, odd>>

Destroy(stopped) ==
  /\ at = "idle" /\ disk # Absent
  /\ containers' = IF stopped THEN <<>> ELSE containers
  /\ volumes' = IF stopped /\ file # Absent THEN NotOfFile(volumes) ELSE volumes
  /\ odd' = (odd \/ volumes' # <<>> \/ containers' # <<>>)
  /\ disk' = Absent /\ file' = Absent
  /\ run' = NoRun
  /\ UNCHANGED <<genVars, round>>

Next ==
  \/ \E launch \in Launches : \/ \E request \in Requests : Up(launch, request)
                              \/ \E supply \in Embeddings : Embed(launch, supply)
  \/ Translating \/ GenerateFails \/ Embedded
  \/ RefuseUp \/ Preview \/ WriteFiles
  \/ PrepareFails \/ Prepare \/ dependencyOrder \/ PlanFails \/ planReleases
  \/ RunRelease \/ ReleaseFails \/ StartServices \/ StartFails
  \/ waitForHealth \/ HealthTimesOut
  \/ Down \/ \E stopped \in BOOLEAN : Destroy(stopped)

Spec == Init /\ [][Next]_vars

-----------------------------------------------------------------------------
(* What is asked of the Launchfiles where a theorem about them needs it:   *)
(* the code does not see to any of it.                                     *)

Declared(launch) == UNION {ToSet(Entries(launch.comp[c])) : c \in Names(launch)}

\* No component is named as a resource is typed: it takes the service's place.
NamesApart ==
  \A launch \in Launches : \A e \in Declared(launch) : e.type \notin Names(launch)

\* Entries of one name describe one resource (D-24), so they have one type.
OneTypePerKey ==
  \A launch \in Launches : \A d, e \in Declared(launch) :
    ~d.host /\ ~e.host /\ d.key = e.key => d.type = e.type

-----------------------------------------------------------------------------
(* Properties                                                              *)

\* What a database was initialised with is what opens it: in the file and in
\* every container, whatever was edited, refused, destroyed or carried over
\* from an old state.json in between.  `up` reads the password it minted back
\* from state.json; what `down --destroy` leaves behind is beyond it.
Opens(value) ==
  Len(value) = 4 /\ value[1] = "url" /\ value[2] \in DOMAIN volumes /\ BakesPassword(value[2])
  => value[3] = Credential(value[2], volumes[value[2]].env)

DatabaseOpens ==
  odd \/ \A services \in {containers} \cup ({file} \ {Absent}) : \A s \in DOMAIN services :
           \A v \in DOMAIN services[s].env : Opens(services[s].env[v])

\* Minted once, then kept: while there is a state.json no write of it changes
\* or drops a password, a generated variable or a secret (D-49), a reserved
\* name that moved to the passwords excepted.
KeptIn(old, new) == \A k \in DOMAIN old : k \in DOMAIN new /\ new[k] = old[k]

MintedKept ==
  [][disk # Absent /\ disk' # Absent =>
       /\ KeptIn(disk.passwords, disk'.passwords)
       /\ KeptIn(disk.generated, disk'.generated)
       /\ KeptIn(Restrict(disk.secrets, DOMAIN disk.secrets \ ResourcePasswordKeys), disk'.secrets)]_vars

\* No two uses share a database: across all redis resources of the app the
\* indexes differ, and a named SQL database is not the instance's.
UsesApart ==
  at = "returned" =>
    \A k \in DOMAIN ctx.resources, j \in DOMAIN ctx.resources :
      \A p \in DOMAIN ctx.resources[k], q \in DOMAIN ctx.resources[j] :
        /\ Len(p) = 3 /\ Len(q) = 3 /\ p[1] = "db" /\ q[1] = "db" /\ <<k, p>> # <<j, q>>
             => ctx.resources[k][p] # ctx.resources[j][q]
        /\ Len(p) = 3 /\ p[2] # "" /\ p[3] = "url" /\ <<"url">> \in DOMAIN ctx.resources[k]
             => ctx.resources[k][p] # ctx.resources[k][<<"url">>]

\* A component is translated whole or not at all: what is generated is its
\* components and the backing services they need, each there with everything
\* it requires, and of one that was refused nothing was created, published or
\* minted (D-64 rule 3).
WholeOrAbsent ==
  at = "returned" =>
    /\ \A s \in DOMAIN out.services :
         IF out.services[s].backing
         THEN \E c \in out.components : s \in DOMAIN out.services[c].needs
         ELSE s \in out.components
    /\ \A c \in out.components : DOMAIN out.services[c].needs
         \subseteq DOMAIN out.services \cup DOMAIN Comp(c).depends
    /\ \A k \in DOMAIN out.ports : k[1] \in out.components
    /\ \A k \in DOMAIN stored.generated :
         stored.generated[k][2] = round => k[1] \in out.components
    /\ \A k \in DOMAIN stored.passwords :
         stored.passwords[k] = <<"minted", round, "password", k>>
           => \E s \in DOMAIN out.services : out.services[s].backing /\ k \in passwordKeys(s)

\* A container is never created by an `up` that has not run its component's
\* release, nor without a required variable or an operator volume that the
\* component declares, whether it was selected or comes up as the dependency of
\* another (SPEC: resources ready, release, start; D-50, D-52).
ReadyBeforeServing ==
  \A c \in run.created \cap Names(Launch) :
    /\ Comp(c).release # <<>> => c \in run.released
    /\ \A v \in DOMAIN Comp(c).env :
         Comp(c).env[v].kind = "required" => v \in DOMAIN containers[c].env
    /\ DOMAIN Comp(c).storage \subseteq containers[c].mounts
=============================================================================
