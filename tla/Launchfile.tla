----------------------------- MODULE Launchfile -----------------------------
(***************************************************************************)
(* What the SDK answers about a normalized Launchfile: which components a  *)
(* selector starts, what an endpoint speaks, which uses of a resource are  *)
(* declared and where they live, which operator path covers a volume, and  *)
(* what a $-expression resolves to.  These are the pure functions every    *)
(* provider calls; this module has no variables.                           *)
(*                                                                         *)
(* A launch is a record [name, order, secrets, comp]: `order` lists the    *)
(* components as declared, `comp` describes each one.  A requires or       *)
(* supports entry is a record with `type`, `key` (name or type), `host`,   *)
(* `uses`, `config`, `endpoint` and `env` (variable -> expression path).   *)
(* Text is abstracted: a use is a pair <<token, name>>, name "" when it    *)
(* has none, a path is a sequence of segments and a value a tuple, Empty   *)
(* standing for "" and Undefined for a miss.                               *)
(***************************************************************************)
EXTENDS Naturals, Sequences, FiniteSets, SequencesExt

CONSTANT UseNames   \* the names of named uses, in string order

ASSUME UseNamesAssumption == UseNames \in Seq(STRING)

Undefined == <<"undefined">>
Empty     == <<"">>
Unresolved == <<"throws">>   \* UnresolvedUseError

HttpsOrigin == "https-origin"
Certificate == "certificate"

\* One function over another, a function at a single point, and the elements of
\* a sequence that are in a set: the provers unfold neither @@ and :> of TLC nor
\* SelectSeq.
f ++ g == [x \in DOMAIN f \cup DOMAIN g |-> IF x \in DOMAIN f THEN f[x] ELSE g[x]]

Only(key, value) == [k \in {key} |-> value]

Among(s, set) ==
  LET kept[i \in 0..Len(s)] ==
        IF i = 0 THEN <<>>
        ELSE IF s[i] \in set THEN Append(kept[i - 1], s[i]) ELSE kept[i - 1]
  IN  kept[Len(s)]

Names(launch) == ToSet(launch.order)

Entries(comp) == comp.requires \o comp.supports
Resources(comp) == {e \in ToSet(Entries(comp)) : ~e.host}

-----------------------------------------------------------------------------
(* Selection. *)

resourceNames(launch) ==
  {e.key : e \in UNION {Resources(launch.comp[c]) : c \in Names(launch)}}

\* What a selector names: nothing is everything; a name that is no component
\* is either a backing resource or unknown.
selectComponents(launch, requested) ==
  [selected  |-> IF requested = {} THEN Names(launch) ELSE requested \cap Names(launch),
   resources |-> (requested \ Names(launch)) \cap resourceNames(launch),
   unknown   |-> (requested \ Names(launch)) \ resourceNames(launch)]

\* The least set around `from` that follows every link: what a search finds.
Closure(links, from) ==
  LET around(S) == from \subseteq S /\ \A x \in S : links[x] \subseteq S
  IN  {x \in DOMAIN links : \A S \in SUBSET DOMAIN links : around(S) => x \in S}

\* Downward along depends_on, past a dangling target.
dependsOn(launch) ==
  [c \in Names(launch) |-> DOMAIN launch.comp[c].depends \cap Names(launch)]

selectionClosure(launch, requested) ==
  LET base == selectComponents(launch, requested)
  IN  IF base.unknown # {} \/ base.resources # {} THEN {}
      ELSE Closure(dependsOn(launch), base.selected)

-----------------------------------------------------------------------------
(* Listeners and the certificates bound to them. *)

effectiveProtocol(endpoint, active) ==
  IF endpoint.cert \in active THEN "https" ELSE endpoint.protocol

certificateBindings(comp) == SelectSeq(comp.provides, LAMBDA e : e.cert # "")

publishedEndpoints(comp) == SelectSeq(comp.provides, LAMBDA e : e.exposed)

\* `appUrl` is the orchestrator's publication URL, abstracted to its scheme.
httpsOriginSatisfied(appUrl) == appUrl = "https"

-----------------------------------------------------------------------------
(* Uses of a resource. *)

useKeys(entry) == ToSet(entry.uses)

\* Same-name entries describe one resource and pool the uses they declare.
declaredUses(launch) ==
  LET entries == UNION {Resources(launch.comp[c]) : c \in Names(launch)}
      using   == {e \in entries : e.uses # <<>>}
  IN  [k \in {e.key : e \in using} |-> UNION {useKeys(e) : e \in {d \in using : d.key = k}}]

namedDatabases(keys) == {u[2] : u \in {v \in keys : v[1] = "database" /\ v[2] # ""}}

\* Where the entries stand: which component, as declared, and which of its own.
Places(launch) ==
  UNION {{i} \X DOMAIN Entries(launch.comp[launch.order[i]]) : i \in DOMAIN launch.order}

EntryAt(launch, place) == Entries(launch.comp[launch.order[place[1]]])[place[2]]

p \prec q == p[1] < q[1] \/ (p[1] = q[1] /\ p[2] < q[2])

dbKeys(entry) == {u \in useKeys(entry) : u[1] = "db"}

\* The redis entries that use a database, and which use of which resource each is.
UsingDb(launch) ==
  {p \in Places(launch) : LET e == EntryAt(launch, p)
                          IN  ~e.host /\ e.type = "redis" /\ dbKeys(e) # {}}

DbUses(launch) ==
  UNION {LET e == EntryAt(launch, p) IN {e.key} \X dbKeys(e) : p \in UsingDb(launch)}

PlacesOf(launch, key) == {p \in UsingDb(launch) : EntryAt(launch, p).key = key}

\* Within a resource the bare `db` comes first and the named ones by name.
Rank(use) == IF use[2] = "" THEN 0 ELSE CHOOSE i \in DOMAIN UseNames : UseNames[i] = use[2]

\* The resources come in the order in which their first entries stand.
Before(launch, x, y) ==
  IF x[1] = y[1] THEN Rank(x[2]) < Rank(y[2])
  ELSE \E p \in PlacesOf(launch, x[1]) : \A q \in PlacesOf(launch, y[1]) : p \prec q

allocateDbIndexes(launch) ==
  LET index(use) == Cardinality({x \in DbUses(launch) : Before(launch, x, use)})
  IN  [k \in {x[1] : x \in DbUses(launch)} |->
         [u \in {x[2] : x \in {y \in DbUses(launch) : y[1] = k}} |-> index(<<k, u>>)]]

-----------------------------------------------------------------------------
(* Values the operator supplies. *)

\* The path supplied for a volume: `component.volume` wins over `volume`.
lookup(paths, component, volume) ==
  IF <<component, volume>> \in paths THEN <<component, volume>>
  ELSE IF <<"", volume>> \in paths THEN <<"", volume>> ELSE Undefined

unsuppliedRequiredEnv(comp, supplied) ==
  {v \in DOMAIN comp.env : comp.env[v].kind = "required"} \ supplied

-----------------------------------------------------------------------------
(* Expressions. *)

Get(f, k) == IF k \in DOMAIN f THEN f[k] ELSE Undefined

\* `$redis.db.url` on an entry that declares `uses`: the use must be declared
\* and its property registered, or the resolver throws.
resolveUse(path, ctx) ==
  LET declared == ctx.uses[path[1]]
      named    == /\ Len(path) >= 4
                  /\ \E u \in declared : u[1] = path[2] /\ u[2] # ""
      use      == <<path[2], IF named THEN path[3] ELSE "">>
      property == use \o SubSeq(path, IF named THEN 4 ELSE 3, Len(path))
      value    == Get(Get(ctx.resources, path[1]), property)
  IN  IF use \in declared /\ path[1] \in DOMAIN ctx.resources /\ value # Undefined
      THEN value ELSE Unresolved

\* One reference against a context: the reserved namespaces first, then the
\* enclosing resource, declared uses strictly, and named resources.
resolvePath(path, ctx) ==
  LET first == path[1]
      scoped(key) == IF key \in DOMAIN ctx.resource THEN ctx.resource[key] ELSE Undefined
      general ==
        IF Len(path) >= 2 /\ first \in DOMAIN ctx.resources
             /\ Tail(path) \in DOMAIN ctx.resources[first]
        THEN ctx.resources[first][Tail(path)] ELSE scoped(path)
  IN  CASE first = "app" /\ Len(path) = 2 -> Get(ctx.app, path[2])
        [] first = "app" /\ Len(path) > 2 /\ path[2] = "endpoints" ->
             IF Len(path) = 4 THEN Get(ctx.appEndpoints, path[3]) ELSE Undefined
        [] first = "secrets" /\ Len(path) = 2 /\ path[2] \in DOMAIN ctx.secrets ->
             ctx.secrets[path[2]]
        [] first = "components" /\ Len(path) >= 3 ->
             IF path[2] \in DOMAIN ctx.components
             THEN Get(ctx.components[path[2]], SubSeq(path, 3, Len(path))) ELSE Undefined
        [] first = "storage" /\ Len(path) = 3 ->
             IF path[3] = "path" THEN Get(ctx.storage, path[2]) ELSE Undefined
        [] Len(path) >= 3 /\ first \in DOMAIN ctx.uses -> resolveUse(path, ctx)
        [] OTHER -> general

\* A miss is the empty string; an unresolved use is thrown to the caller.
resolveExpression(path, ctx) ==
  LET value == resolvePath(path, ctx) IN IF value = Undefined THEN Empty ELSE value
=============================================================================
