------------------------------ MODULE NativeEnv -----------------------------
(***************************************************************************)
(* What the native provider resolves a component's variables to, and the   *)
(* pure decisions of its `up`: which components it refuses, which ports,   *)
(* volumes and minted values they get, and what a prepare depends on.      *)
(*                                                                         *)
(* A component has one port, 0 standing for the one it declares and n for  *)
(* the one the n-th `up` found free instead.  A file's content is a        *)
(* number, a directory maps the files it has to their content.             *)
(***************************************************************************)
EXTENDS NativeResources

CONSTANT LOCKFILE_ORDER   \* lockfiles, the package manager's that wins first

NoPrimary == [component |-> "", refused |-> FALSE]

\* The component whose https-origin entry names the primary endpoint; an entry
\* under `requires` that the publication URL does not satisfy refuses it.
declaredPrimary(launch, appUrl) ==
  LET origin(e)  == e.type = HttpsOrigin /\ e.endpoint # ""
      declares(c) == \E e \in ToSet(Entries(launch.comp[c])) : origin(e)
      declaring  == SelectSeq(launch.order, declares)
      required(c) == \E e \in ToSet(launch.comp[c].requires) : origin(e)
  IN  IF declaring = <<>> THEN NoPrimary
      ELSE [component |-> Head(declaring),
            refused |-> required(Head(declaring)) /\ ~httpsOriginSatisfied(appUrl)]

\* Without a declared one the first component that publishes and has a port.
primaryComponent(launch, ports, primary) ==
  LET serves(c) == publishedEndpoints(launch.comp[c]) # <<>> /\ c \in DOMAIN ports
      serving   == SelectSeq(launch.order, serves)
  IN  IF primary # NoPrimary
      THEN IF primary.component \in DOMAIN ports THEN primary.component ELSE ""
      ELSE IF serving = <<>> THEN "" ELSE Head(serving)

computeAppProperties(launch, ports, appUrl, primary) ==
  LET c == primaryComponent(launch, ports, primary)
  IN  [name |-> <<"name">>,
       url |-> CASE primary.refused  -> Empty
                 [] ~primary.refused /\ appUrl # "none" -> <<"supplied", appUrl>>
                 [] ~primary.refused /\ appUrl = "none" ->
                      IF c = "" THEN Empty ELSE <<"local", c, ports[c]>>]

\* The component whose printed address is the publication URL.
printedPrimaryEndpoint(launch, ports, primary) ==
  LET c == primaryComponent(launch, ports, primary)
      speaksHttp == c # "" /\
        Head(publishedEndpoints(launch.comp[c])).protocol \in {"http", "https"}
  IN  IF primary.refused \/ (primary = NoPrimary /\ ~speaksHttp) THEN "" ELSE c

\* One port per component is published here, and no named endpoint.
computeAppEndpoints(launch) ==
  LET published == UNION {ToSet(publishedEndpoints(launch.comp[c])) : c \in Names(launch)}
  IN  [n \in {e.name : e \in published} \ {""} |-> Empty]

\* Endpoints are named only while the process listens where it declares.
allocatedEndpoints(launch, c, port) ==
  IF port = 0 /\ c \in Names(launch)
  THEN {e.name : e \in ToSet(launch.comp[c].provides)} \ {""} ELSE {}

buildResolverContext(launch, resources, state, app) ==
  LET addresses(c) ==
        LET port == state.ports[c]
        IN  Only(<<"url">>, <<"local", c, port>>)
              ++ [p \in {<<n, "url">> : n \in allocatedEndpoints(launch, c, port)} |->
                    <<"endpoint", c, p[1]>>]
  IN  [resources |-> resources, resource |-> <<>>, storage |-> <<>>,
       components |-> [c \in DOMAIN state.ports |-> addresses(c)],
       secrets |-> state.secrets, app |-> app,
       appEndpoints |-> computeAppEndpoints(launch), uses |-> declaredUses(launch)]

\* An origin the publication URL satisfies has that URL; no use of it is covered.
wireHttpsOrigins(launch, resources, appUrl) ==
  LET entries == UNION {ToSet(Entries(launch.comp[c])) : c \in Names(launch)}
      wired   == {e \in entries : e.type = HttpsOrigin /\ e.uses = <<>>
                                     /\ httpsOriginSatisfied(appUrl)}
  IN  [k \in {e.key : e \in wired} |-> Only(<<"url">>, <<"supplied", appUrl>>)] ++ resources

resolverContextFor(launch, resources, state, primary) ==
  buildResolverContext(launch, wireHttpsOrigins(launch, resources, state.appUrl), state,
                       computeAppProperties(launch, state.ports, state.appUrl, primary))

\* `env` and `bootstrap` register what is on record as `up` registered it.
resourceMapFromState(launch, resources) ==
  [k \in DOMAIN resources |->
     registerResource(resources[k].type, k, declaredUses(launch), Properties(resources[k]),
                      resources[k].indexes)]

-----------------------------------------------------------------------------
(* A component's variables.                                                *)

Injected(entry, ctx) ==
  [v \in DOMAIN entry.env |->
     resolveExpression(entry.env[v], [ctx EXCEPT !.resource = ctx.resources[entry.key]])]

\* set_env of what was provisioned, a later entry over an earlier one, and then
\* the defaults; a generator outranks a default and is not resolved here.
resolveComponentEnv(comp, ctx, storage) ==
  LET scope == [ctx EXCEPT !.storage = storage]
      entry == Entries(comp)
      wired == {i \in DOMAIN entry : ~entry[i].host /\ entry[i].key \in DOMAIN ctx.resources}
      last(v) == Max({i \in wired : v \in DOMAIN entry[i].env})
      bound == [v \in UNION {DOMAIN entry[i].env : i \in wired} |->
                  Injected(entry[last(v)], scope)[v]]
  IN  bound ++ [v \in {d \in DOMAIN comp.env : comp.env[d].kind = "default"} |->
                  resolveExpression(comp.env[v].ref, scope)]

\* Kept by component and variable once generated; a port is generated anew.
OfKind(comp, kinds) == {v \in DOMAIN comp.env : comp.env[v].kind \in kinds}

Generated(c, names, by) == [k \in {<<c, v>> : v \in names} |-> Minted(by, "env", k)]

WithGenerated(comp, c, env, held, by) ==
  [generated |-> held,
   env |-> env ++ [v \in OfKind(comp, {"secret", "uuid"}) \ DOMAIN env |-> held[<<c, v>>]]
               ++ [v \in OfKind(comp, {"port"}) |-> Minted(by, "port", <<c, v>>)]]

\* Faulty: what is on record is not looked at.
generatorsAnew(comp, c, env, generated, by) ==
  WithGenerated(comp, c, env,
    Generated(c, OfKind(comp, {"secret", "uuid"}) \ DOMAIN env, by) ++ generated, by)

resolveGenerators(comp, c, env, generated, by) ==
  WithGenerated(comp, c, env,
    generated ++ Generated(c, OfKind(comp, {"secret", "uuid"}) \ DOMAIN env, by), by)

generateSecrets(names, held, by) == held ++ [s \in names |-> Minted(by, "secret", s)]

\* A component's own volumes, and the operator's that this `up` was given.
storagePaths(comp, c, bound) ==
  LET operator == {v \in DOMAIN comp.storage : comp.storage[v] = "operator"}
      given    == {v \in operator : <<c, v>> \in DOMAIN bound}
  IN  [v \in (DOMAIN comp.storage \ operator) \cup given |->
         IF v \in given THEN <<"operator", bound[<<c, v>>]>> ELSE <<"own", c, v>>]

WithPort(env, c, ports) ==
  IF c \in DOMAIN ports THEN env ++ Only("PORT", <<"port", ports[c]>>) ELSE env

\* The required variables that `up` takes from the launching environment: those
\* no `requires` entry with a provisioner injects.
OperatorEnv(comp) ==
  LET binding == {e \in ToSet(comp.requires) : ~e.host /\ e.type \in Provisioners}
  IN  unsuppliedRequiredEnv(comp, UNION {DOMAIN e.env : e \in binding})

Supplied(names) == [v \in names |-> <<"operator", v>>]

\* What a component is started with: the environment's answer over any other.
StartedEnv(comp, c, ctx, state, by) ==
  LET resolved == resolveGenerators(comp, c,
                    resolveComponentEnv(comp, ctx, storagePaths(comp, c, state.bound)),
                    state.generated, by)
  IN  [resolved EXCEPT !.env = WithPort(Supplied(OperatorEnv(comp)) ++ @, c, state.ports)]

\* What `env` prints and `bootstrap` runs with: the environment answers for
\* what nothing else did.  `bootstrap` resolves no volume.
AnsweredEnv(comp, c, ctx, state, storage, given, by) ==
  LET resolved == resolveGenerators(comp, c, resolveComponentEnv(comp, ctx, storage),
                                    state.generated, by)
      asked == unsuppliedRequiredEnv(comp, DOMAIN resolved.env) \cap given
  IN  [resolved EXCEPT !.env = WithPort(@ ++ Supplied(asked), c, state.ports)]

-----------------------------------------------------------------------------
(* What a native `up` refuses before anything is provisioned.              *)

refusedHostCapabilities(comp) ==
  \E e \in ToSet(comp.requires) \cup ToSet(comp.hostBlock) : e.host /\ e.required

refusedHttpsOrigins(comp, appUrl) ==
  ~httpsOriginSatisfied(appUrl) /\ \E e \in ToSet(comp.requires) : e.type = HttpsOrigin

\* Native TLS is selected by --with-optional.
refusedCertificates(comp, optional) ==
  LET declared == {e.key : e \in {s \in ToSet(comp.supports) : ~s.host /\ s.type = Certificate}}
  IN  optional /\ \E e \in ToSet(certificateBindings(comp)) : e.cert \in declared

refusedResourceTypes(comp) ==
  \E e \in ToSet(comp.requires) :
    ~e.host /\ e.type # HttpsOrigin /\ e.type \notin Provisioners

refusedResourceUses(comp) ==
  \E e \in ToSet(comp.requires) : ~e.host /\ uncoveredUses(e.type, useKeys(e)) # {}

Refused(comp, appUrl, optional) ==
  \/ refusedHostCapabilities(comp) \/ refusedHttpsOrigins(comp, appUrl)
  \/ refusedCertificates(comp, optional)
  \/ refusedResourceTypes(comp) \/ refusedResourceUses(comp)

isSourceRunnable(comp) == comp.runs

\* The components selected, without the refused ones, in declaration order.
Narrowed(launch, requested, appUrl, optional) ==
  LET start == selectionClosure(launch, requested)
  IN  Among(launch.order, {c \in start : ~Refused(launch.comp[c], appUrl, optional)})

\* Every component gets a port: the one on record, or else the declared one,
\* unless something else listens on it.
allocatePorts(names, saved, taken, round) ==
  [c \in names |-> IF taken THEN round ELSE IF c \in DOMAIN saved THEN saved[c] ELSE 0]

\* The operator's volumes among what will run, with the paths given for them.
operatorStorage(launch, paths) ==
  LET volumes == UNION {{<<c, v>> : v \in {s \in DOMAIN launch.comp[c].storage :
                                             launch.comp[c].storage[s] = "operator"}} :
                          c \in {n \in Names(launch) : isSourceRunnable(launch.comp[n])}}
  IN  [p \in volumes |-> lookup(paths, p[1], p[2])]

-----------------------------------------------------------------------------
(* Prepare commands.                                                       *)

NoCommand == <<"no command">>

detectPackageManager(files) ==
  LET found == SelectSeq(LOCKFILE_ORDER, LAMBDA lockfile : lockfile \in DOMAIN files)
  IN  IF found = <<>> THEN NoCommand ELSE <<"install", Head(found)>>

\* A component's own prepare command, or the package manager's.
PrepareCommand(comp, root) ==
  IF comp.prepare # "" THEN <<"run", comp.prepare>> ELSE detectPackageManager(root)

prepareFingerprint(command, files) == <<command, files>>
=============================================================================
