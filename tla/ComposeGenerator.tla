-------------------------- MODULE ComposeGenerator --------------------------
(***************************************************************************)
(* launchToCompose: one component after another, and of a component one    *)
(* `requires` or `supports` entry after another, is translated into compose*)
(* services, or skipped.  The variables are the function's locals.         *)
(*                                                                         *)
(* Service names drop the `<app>-` they all begin with, so a component's   *)
(* is its own name and a backing service's is its type.  Warnings are      *)
(* dropped; `skipped` keeps why a component was left out.                  *)
(***************************************************************************)
EXTENDS AppAddress, HostCapabilities, BackingServices

VARIABLES
  at,      \* "component" or "entry" while translating; "returned", "thrown"
  opts,    \* what launchToCompose was called with
  stored,  \* the minted values it was handed, which it adds to in place
  todo,    \* the components not yet looked at
  cur,     \* the component being translated
  ctx,     \* the resolver's context
  out      \* the result so far

genVars == <<at, opts, stored, todo, cur, ctx, out>>

Launch == opts.launch
Comp(c) == Launch.comp[c]

NoComponent == [name |-> "", env |-> <<>>, needs |-> <<>>, todo |-> <<>>,
                granted |-> {}]

NothingEmitted == [services |-> <<>>, components |-> {}, ports |-> <<>>,
                   skipped |-> <<>>, mayExit |-> {}, unsupplied |-> {},
                   unbound |-> {}, binds |-> {}, primary |-> NoKey]

\* The declared use keys are known before anything resolves, and so is `$app`.
launchToCompose(o, held) ==
  LET launch == o.launch
      moved  == migrateResourcePasswords(held, launch.secrets)
      minted == Mint(moved.secrets, launch.secrets, "secret", o.round)
      active == planCertificates(launch, o.resources).active
      app    == computeAppContext(launch, o.hostPorts, o.appUrl, active)
  IN  /\ at' = "component"
      /\ opts' = o
      /\ stored' = [moved EXCEPT !.secrets = minted]
      /\ todo' = launch.order
      /\ cur' = NoComponent
      /\ ctx' = [resources |-> <<>>, resource |-> <<>>, components |-> <<>>,
                 storage |-> <<>>, secrets |-> declaredSecrets(launch.secrets, minted),
                 app |-> app.app, appEndpoints |-> app.endpoints,
                 uses |-> declaredUses(launch), active |-> active]
      /\ out' = [NothingEmitted EXCEPT !.primary = app.primary]

-----------------------------------------------------------------------------
(* The refusals, in the order they are made.  An entry under a supplied    *)
(* key is the orchestrator's, and an `https-origin` is satisfied by the    *)
(* publication URL alone.                                                  *)

OriginProperties == Only(<<"url">>, ctx.app.url)

SuppliedProperties(key) == [p \in opts.resources[key] |-> <<"supplied", key, p>>]

Satisfied(e) == IF e.type = HttpsOrigin THEN httpsOriginSatisfied(opts.appUrl)
                ELSE e.key \in DOMAIN opts.resources

SatisfiedBy(e) == IF e.type = HttpsOrigin THEN OriginProperties ELSE SuppliedProperties(e.key)

Required(c) == {e \in ToSet(Comp(c).requires) : ~e.host}

HostOutcome(c) == resolveHostCapabilities(Comp(c), opts.policy)

UnsatisfiedOrigin(c) == \E e \in Required(c) : e.type = HttpsOrigin /\ ~Satisfied(e)

Unprovisionable(c) ==
  \E e \in Required(c) : e.type # HttpsOrigin /\ ~Satisfied(e) /\ e.type \notin Factories

UncoveredUses(c) ==
  \E e \in Required(c) :
    IF Satisfied(e) THEN uncoveredSuppliedUses(e, DOMAIN SatisfiedBy(e)) # {}
    ELSE uncoveredProvisionedUses(e) # {}

UncreatableBucket(c) ==
  ~Launch.bucketName /\ \E e \in Required(c) : e.type \in ObjectStoreTypes /\ ~Satisfied(e)

\* A relative build context needs the project's directory.
NoContext(c) == Comp(c).source = "build" /\ ~opts.local

Refusal(c) ==
  CASE Comp(c).source = "none"       -> "no image or build"
    [] HostOutcome(c).refused # {}   -> "host capability"
    [] UnsatisfiedOrigin(c)          -> "https-origin"
    [] c \in planCertificates(Launch, opts.resources).refusals -> "certificate"
    [] Unprovisionable(c)            -> "no provisioner"
    [] UncoveredUses(c)              -> "uncovered use"
    [] UncreatableBucket(c)          -> "bucket name"
    [] NoContext(c)                  -> "no build context"
    [] OTHER                         -> ""

\* Faulty: the backing services of a component come before its refusal.
SkipProvisioned(c) ==
  /\ at = "component" /\ todo # <<>> /\ c = Head(todo)
  /\ Refusal(c) # ""
  /\ LET types == {e.type : e \in {d \in Required(c) : d.type \in Factories}}
     IN  out' = [out EXCEPT
           !.skipped = Only(c, Refusal(c)) ++ @,
           !.services = @ ++ [t \in types |->
              [backing |-> TRUE, env |-> <<>>, needs |-> <<>>, checked |-> TRUE,
               onNetwork |-> TRUE, databases |-> {}, creator |-> c, mounts |-> {}]]]
  /\ todo' = Tail(todo)
  /\ UNCHANGED <<at, opts, stored, cur, ctx>>

Skip(c) ==
  /\ at = "component" /\ todo # <<>> /\ c = Head(todo)
  /\ Refusal(c) # ""
  /\ out' = [out EXCEPT !.skipped = Only(c, Refusal(c)) ++ @]
  /\ todo' = Tail(todo)
  /\ UNCHANGED <<at, opts, stored, cur, ctx>>

-----------------------------------------------------------------------------
(* A component that is translated: its endpoints, then its variables.      *)

\* Its in-network addresses, which `$components` reads: the first endpoint's
\* says https only for an active certificate, the named ones' by protocol.
componentProperties(c) ==
  LET provides == Comp(c).provides
      https(i) == effectiveProtocol(provides[i], ctx.active) = "https"
      named    == {i \in DOMAIN provides : provides[i].name # ""}
      address(i, tls) == <<"internal", c, i, IF tls THEN "https" ELSE "http">>
  IN  Only(<<"url">>, address(1, provides[1].cert \in ctx.active))
        ++ [p \in {<<provides[i].name, "url">> : i \in named} |->
              LET i == CHOOSE j \in named : provides[j].name = p[1]
              IN  address(i, https(i))]

Published(c) ==
  LET addresses == ToSet(publishedEndpointAddresses(Launch, c, opts.hostPorts, ctx.active))
  IN  [k \in {a.key : a \in addresses} |->
         LET a == CHOOSE b \in addresses : b.key = k IN [port |-> a.port, protocol |-> a.protocol]]

\* The variables with a generator whose value is kept from one `up` to the next.
Kept(c) == {v \in DOMAIN Comp(c).env : Comp(c).env[v].kind \in {"secret", "uuid"}}

\* Faulty: minted at every `up`.
GeneratedAnew(c, held) == MintAnew(held, {<<c, v>> : v \in Kept(c)}, "env", opts.round)

\* Minted per declaration, by component and variable.
Generated(c, held) == Mint(held, {<<c, v>> : v \in Kept(c)}, "env", opts.round)

resolveEnvVar(c, v, generated, context) ==
  LET var == Comp(c).env[v]
  IN  CASE var.kind \in {"secret", "uuid"} -> generated[<<c, v>>]
        [] var.kind = "port"    -> <<"minted", opts.round, "port", <<c, v>>>>
        [] var.kind = "default" -> resolveExpression(var.ref, context)

\* The kinds of variable the file itself has a value for.
Answered(c) ==
  {v \in DOMAIN Comp(c).env : Comp(c).env[v].kind \in {"secret", "uuid", "port", "default"}}

Within(c, context) ==
  [context EXCEPT !.storage = [v \in DOMAIN Comp(c).storage |-> <<"path", v>>]]

\* UnresolvedUseError leaves launchToCompose, whatever was translated before.
Throws(env) == Unresolved \in Range(env)

Fail ==
  /\ at' = "thrown"
  /\ UNCHANGED <<opts, stored, todo, cur, ctx, out>>

Translate(c) ==
  /\ at = "component" /\ todo # <<>> /\ c = Head(todo)
  /\ Refusal(c) = ""
  /\ LET addressed == IF Comp(c).provides = <<>> THEN ctx
                      ELSE [ctx EXCEPT !.components = Only(c, componentProperties(c)) ++ @]
         generated == Generated(c, stored.generated)
         env == [v \in Answered(c) |-> resolveEnvVar(c, v, generated, Within(c, addressed))]
     IN  \/ Throws(env) /\ Fail
         \/ /\ ~Throws(env)
            /\ at' = "entry"
            /\ stored' = [stored EXCEPT !.generated = generated]
            /\ ctx' = addressed
            /\ cur' = [name |-> c, env |-> env, needs |-> <<>>, todo |-> Entries(Comp(c)),
                       granted |-> HostOutcome(c).granted]
            /\ out' = [out EXCEPT !.ports = Published(c) ++ @]
            /\ todo' = Tail(todo)
            /\ UNCHANGED opts

-----------------------------------------------------------------------------
(* Its entries.                                                            *)

Entry == Head(cur.todo)
AtEntry == at = "entry" /\ cur.todo # <<>>

\* set_env, resolved within the entry's own properties; it overrides `env`.
Injected(properties, context) ==
  [v \in DOMAIN Entry.env |->
     resolveExpression(Entry.env[v], [Within(cur.name, context) EXCEPT !.resource = properties])]

\* The entry is wired: registered for other references and injected.
Wire(properties, needs) ==
  LET context == [ctx EXCEPT !.resources = Only(Entry.key, properties) ++ @]
      env     == Injected(properties, context)
  IN  \/ Throws(env) /\ at' = "thrown" /\ UNCHANGED <<ctx, cur>>
      \/ /\ ~Throws(env)
         /\ ctx' = context
         /\ cur' = [cur EXCEPT !.env = env ++ @, !.needs = needs ++ @, !.todo = Tail(@)]
         /\ UNCHANGED at

\* A granted capability wires its coordinates, one left ungranted nothing.
WireHost ==
  /\ AtEntry /\ Entry.host
  /\ cur' = [cur EXCEPT !.todo = Tail(@),
                        !.env = IF Entry \in cur.granted
                                THEN LET granted == opts.policy[Entry.type].props
                                     IN  Injected([p \in granted |-> <<"granted", Entry.type, p>>], ctx) ++ @
                                ELSE @]
  /\ UNCHANGED <<at, opts, stored, todo, ctx, out>>

\* An entry the orchestrator satisfies: no service, nothing to wait for.
applySuppliedResource ==
  /\ AtEntry /\ ~Entry.host /\ Satisfied(Entry)
  /\ Entry.required \/ uncoveredSuppliedUses(Entry, DOMAIN SatisfiedBy(Entry)) = {}
  /\ Wire(SatisfiedBy(Entry), <<>>)
  /\ UNCHANGED <<opts, stored, todo, out>>

\* An optional entry nothing satisfies, or not in full, is left out.
OmitOptional ==
  /\ AtEntry /\ ~Entry.host /\ ~Entry.required
  /\ ~Satisfied(Entry) \/ uncoveredSuppliedUses(Entry, DOMAIN SatisfiedBy(Entry)) # {}
  /\ cur' = [cur EXCEPT !.todo = Tail(@)]
  /\ UNCHANGED <<at, opts, stored, todo, ctx, out>>

\* The named databases every provisioned entry of the type declares.
namedDatabasesByType(type) ==
  LET entries == UNION {Required(c) : c \in Names(Launch)}
  IN  UNION {namedDatabases(useKeys(e)) : e \in {d \in entries : d.type = type /\ ~Satisfied(d)}}

\* One service per type, whichever component's entry creates it.
addBackingService(type, passwords) ==
  IF type \in DOMAIN out.services THEN out.services
  ELSE Only(type, [backing |-> TRUE, env |-> Restrict(passwords, passwordKeys(type)),
                 needs |-> <<>>, checked |-> TRUE, onNetwork |-> TRUE,
                 databases |-> namedDatabasesByType(type), creator |-> cur.name,
                 mounts |-> {}]) ++ out.services

Provision ==
  /\ AtEntry /\ ~Entry.host /\ Entry.required /\ ~Satisfied(Entry)
  /\ LET type == Entry.type
         passwords == Mint(stored.passwords, passwordKeys(type), "password", opts.round)
         allocated == allocateDbIndexes(Launch)
         indexes == IF Entry.key \in DOMAIN allocated THEN allocated[Entry.key] ELSE <<>>
         uses == IF Entry.key \in DOMAIN ctx.uses THEN ctx.uses[Entry.key] ELSE {}
     IN  /\ stored' = [stored EXCEPT !.passwords = passwords]
         /\ out' = [out EXCEPT !.services = addBackingService(type, passwords)]
         /\ Wire(withCoveredUses(type, uses, Properties(type, passwords), indexes),
                 Only(type, "healthy"))
  /\ UNCHANGED <<opts, todo>>

-----------------------------------------------------------------------------
(* Its service.                                                            *)

OperatorVolumes(c) == {v \in DOMAIN Comp(c).storage : Comp(c).storage[v] = "operator"}

Restart(c) == IF Comp(c).restart # "" THEN Comp(c).restart
              ELSE IF Comp(c).schedule THEN "no" ELSE "unless-stopped"

\* The required variables that arrived from neither the file nor the operator.
Unsupplied(c) == unsuppliedRequiredEnv(Comp(c), DOMAIN cur.env) \ opts.operatorEnv

\* A service's own network_mode takes it off the project's network.  What a
\* component depends on is named whether or not it was translated.
Emit ==
  /\ at = "entry" /\ cur.todo = <<>>
  /\ LET c == cur.name
         asked == unsuppliedRequiredEnv(Comp(c), DOMAIN cur.env) \cap opts.operatorEnv
         bound == {v \in OperatorVolumes(c) : lookup(opts.storagePaths, c, v) # Undefined}
         own   == DOMAIN Comp(c).storage \ OperatorVolumes(c)
         service == [backing |-> FALSE,
                     env |-> cur.env ++ [v \in asked |-> <<"operator", v>>],
                     needs |-> Comp(c).depends ++ cur.needs,
                     checked |-> Comp(c).checked,
                     onNetwork |-> OnNetwork(opts.policy, cur.granted),
                     databases |-> {}, creator |-> c, mounts |-> own \cup bound]
     IN  out' = [out EXCEPT
           !.services = Only(c, service) ++ @,
           !.components = @ \cup {c},
           !.mayExit = IF Restart(c) \in {"no", "on-failure"} THEN @ \cup {c} ELSE @,
           !.unsupplied = @ \cup {<<c, v>> : v \in Unsupplied(c)},
           !.unbound = @ \cup {<<c, v>> : v \in OperatorVolumes(c) \ bound},
           !.binds = @ \cup {<<c, v>> : v \in bound}]
  /\ at' = "component"
  /\ cur' = NoComponent
  /\ UNCHANGED <<opts, stored, todo, ctx>>

Return ==
  /\ at = "component" /\ todo = <<>>
  /\ at' = "returned"
  /\ UNCHANGED <<opts, stored, todo, cur, ctx, out>>

Generate ==
  \/ \E c \in Names(Launch) : Skip(c) \/ Translate(c)
  \/ WireHost \/ applySuppliedResource \/ OmitOptional \/ Provision
  \/ Emit \/ Return
=============================================================================
