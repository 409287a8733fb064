--------------------------- MODULE DockerUpProofs ---------------------------
(***************************************************************************)
(* What an `up` of the docker provider keeps and what it generates, for    *)
(* any Launchfiles and edits of them, any requests and embedders and any   *)
(* number of ups.                                                          *)
(*                                                                         *)
(* Steps are told apart by what they do to what is generated and to what   *)
(* is on disk (Kinds).  IMinted: what is being generated extends what is   *)
(* on disk.  IWhole: of what is generated, component by component and      *)
(* entry by entry, everything is accounted for by a component that is      *)
(* there or in the making, and what this `up` minted tells by its round.   *)
(* IOpens: what is held of passwords opens whatever is on the machine, and *)
(* every url on its way there carries what is held.  IApart: what a use    *)
(* has registered is its own number, which follows a strict order of all   *)
(* uses of redis (BeforeOrders), or its own name.  IServing: what is       *)
(* planned comes after all it needs, along the calls of dependencyOrder,   *)
(* and what is brought up was selected, released and is in want of nothing.*)
(***************************************************************************)
EXTENDS DockerUp, Integers, WellFoundedInduction, FiniteSetTheorems, TLAPS

-----------------------------------------------------------------------------
(* Steps, by what they do to what is generated and to what is on disk. *)

\* launchToCompose is at work, or has returned and nothing is written yet.
Generating == {"component", "entry", "returned"}

Translates == Generate /\ UNCHANGED upVars

\* An `up` goes on after it has written, or is over, in whichever way.
Deploys ==
  /\ at' \notin Generating
  /\ at' # "idle" => at \in {"prepare", "plan", "release"}
  /\ UNCHANGED <<opts, stored, todo, cur, ctx, out, disk, file, round, odd>>
  /\ \/ UNCHANGED <<containers, volumes>>
     \/ at = "release" /\ \E services : Bring(services)

\* These are all the steps there are.
LEMMA Kinds ==
  ASSUME [Next]_vars
  PROVE  \/ \E launch \in Launches, request \in Requests : Up(launch, request)
         \/ \E launch \in Launches, supply \in Embeddings : Embed(launch, supply)
         \/ Translates \/ WriteFiles \/ Deploys
         \/ Down \/ \E stopped \in BOOLEAN : Destroy(stopped)
         \/ UNCHANGED vars
<1>1. CASE GenerateFails \/ Embedded \/ RefuseUp \/ Preview \/ PrepareFails \/ PlanFails
             \/ waitForHealth \/ HealthTimesOut
  BY <1>1 DEF GenerateFails, Embedded, RefuseUp, Preview, PrepareFails, PlanFails,
    waitForHealth, HealthTimesOut, AbortUp, End, upVars, Deploys, Generating
<1>2. CASE Prepare \/ dependencyOrder \/ planReleases
  BY <1>2 DEF Prepare, dependencyOrder, planReleases, Visited, Planning, Deploys, Generating
<1>3. CASE RunRelease
  <2>1. \E services : Bring(services) BY <1>3 DEF RunRelease
  <2> QED BY <1>3, <2>1 DEF RunRelease, genVars, Deploys, Generating
<1>4. CASE ReleaseFails
  <2>1. \E services : Bring(services) BY <1>4 DEF ReleaseFails
  <2> QED BY <1>4, <2>1 DEF ReleaseFails, End, Deploys, Generating
<1>5. CASE StartServices
  <2>1. \E services : Bring(services) BY <1>5 DEF StartServices
  <2> QED BY <1>5, <2>1 DEF StartServices, AtStart, Deploys, Generating
<1>6. CASE StartFails
  <2>1. \E services : Bring(services) BY <1>6 DEF StartFails
  <2>2. at = "release" /\ End /\ UNCHANGED <<disk, file, round, odd>>
    BY <1>6, Zenon DEF StartFails, AtStart
  <2> QED BY <2>1, <2>2 DEF End, Deploys, Generating
<1> QED BY <1>1, <1>2, <1>3, <1>4, <1>5, <1>6 DEF Next, Translating, Translates

-----------------------------------------------------------------------------
(* Minted once, then kept. *)

StateShape(s) ==
  s = [secrets |-> s.secrets, passwords |-> s.passwords, generated |-> s.generated,
       appUrl |-> s.appUrl]

Shapes == StateShape(stored) /\ (disk = Absent \/ StateShape(disk))

Free(secrets) == Restrict(secrets, DOMAIN secrets \ ResourcePasswordKeys)

Extends(s, t) ==
  /\ KeptIn(s.passwords, t.passwords) /\ KeptIn(s.generated, t.generated)
  /\ KeptIn(Free(s.secrets), t.secrets)

IMinted ==
  /\ Shapes
  /\ at \in Generating /\ ~run.embedded /\ disk # Absent => Extends(disk, stored)

LEMMA StateApart == ASSUME NEW s, StateShape(s) PROVE s # Absent
BY DEF StateShape, Absent

LEMMA KeptInTransitive ==
  ASSUME NEW f, NEW g, NEW h, KeptIn(f, g), KeptIn(g, h) PROVE KeptIn(f, h)
BY DEF KeptIn

LEMMA MintKeeps ==
  ASSUME NEW held, NEW keys, NEW space, NEW by PROVE KeptIn(held, Mint(held, keys, space, by))
BY DEF KeptIn, Mint, ++

\* What launchToCompose starts from: passwords moved where they belong, secrets minted.
LEMMA BeginsWith ==
  ASSUME NEW o, NEW held, StateShape(held), launchToCompose(o, held)
  PROVE  LET carried == DOMAIN held.secrets \cap ResourcePasswordKeys
             left == DOMAIN held.secrets \ (carried \ o.launch.secrets)
         IN  /\ StateShape(stored')
             /\ stored'.secrets = Mint(Restrict(held.secrets, left), o.launch.secrets,
                                       "secret", o.round)
             /\ stored'.passwords = held.passwords ++ Restrict(held.secrets, carried)
             /\ stored'.generated = held.generated
<1> DEFINE carried == DOMAIN held.secrets \cap ResourcePasswordKeys
           moved == migrateResourcePasswords(held, o.launch.secrets)
           left == DOMAIN held.secrets \ (carried \ o.launch.secrets)
           minted == Mint(moved.secrets, o.launch.secrets, "secret", o.round)
<1>1. moved = [secrets |-> Restrict(held.secrets, left),
               passwords |-> held.passwords ++ Restrict(held.secrets, carried),
               generated |-> held.generated, appUrl |-> held.appUrl]
  <2>1. PICK s, p, g, u : held = [secrets |-> s, passwords |-> p, generated |-> g, appUrl |-> u]
    BY Zenon DEF StateShape
  <2>2. held.secrets = s /\ held.passwords = p /\ held.generated = g /\ held.appUrl = u
    BY <2>1
  <2> DEFINE p2 == p ++ Restrict(s, carried)
             s2 == Restrict(s, left)
  <2>3. moved = [held EXCEPT !.passwords = p2, !.secrets = s2]
    BY <2>2, Zenon DEF migrateResourcePasswords
  <2> HIDE DEF moved, carried, left, p2, s2
  <2>4. moved = [secrets |-> s2, passwords |-> p2, generated |-> g, appUrl |-> u]
    BY <2>1, <2>3
  <2> QED BY <2>2, <2>4 DEF p2, s2
<1>2. stored' = [moved EXCEPT !.secrets = minted] BY DEF launchToCompose
<1> HIDE DEF moved, minted
<1>3. /\ StateShape(stored') /\ stored'.secrets = minted
      /\ stored'.passwords = moved.passwords /\ stored'.generated = moved.generated
  BY <1>1, <1>2 DEF StateShape
<1> HIDE DEF carried, left
<1>4. minted = Mint(Restrict(held.secrets, left), o.launch.secrets, "secret", o.round)
  BY <1>1 DEF minted
<1> QED BY <1>1, <1>3, <1>4 DEF carried, left

\* What is handed to launchToCompose is in what it starts from.
LEMMA LaunchExtends ==
  ASSUME NEW o, NEW held, StateShape(held), launchToCompose(o, held)
  PROVE  StateShape(stored') /\ Extends(held, stored')
<1> DEFINE carried == DOMAIN held.secrets \cap ResourcePasswordKeys
           left == DOMAIN held.secrets \ (carried \ o.launch.secrets)
           kept == Restrict(held.secrets, left)
<1>1. /\ StateShape(stored')
      /\ stored'.secrets = Mint(kept, o.launch.secrets, "secret", o.round)
      /\ stored'.passwords = held.passwords ++ Restrict(held.secrets, carried)
      /\ stored'.generated = held.generated
  BY BeginsWith
<1>2. KeptIn(held.passwords, stored'.passwords) /\ KeptIn(held.generated, stored'.generated)
  BY <1>1 DEF KeptIn, ++
<1>3. KeptIn(Free(held.secrets), kept)
  BY DEF KeptIn, Free, Restrict
<1> HIDE DEF kept
<1>4. KeptIn(Free(held.secrets), stored'.secrets)
  BY <1>1, <1>3, MintKeeps, KeptInTransitive
<1> QED BY <1>1, <1>2, <1>4 DEF Extends

\* What one step of launchToCompose mints.
LEMMA TranslateMints ==
  ASSUME Translates
  PROVE  /\ at \in Generating
         /\ \/ stored' = stored
            \/ \E c : stored' = [stored EXCEPT !.generated = Generated(c, @)]
            \/ \E keys : stored' = [stored EXCEPT !.passwords = Mint(@, keys, "password", opts.round)]
<1>1. ASSUME NEW c, Skip(c) PROVE stored' = stored BY <1>1 DEF Skip
<1>2. ASSUME NEW c, Translate(c)
      PROVE  stored' = stored \/ stored' = [stored EXCEPT !.generated = Generated(c, @)]
  BY <1>2 DEF Translate, Fail
<1>3. ASSUME WireHost \/ applySuppliedResource \/ OmitOptional \/ Emit \/ Return
      PROVE  stored' = stored
  BY <1>3 DEF WireHost, applySuppliedResource, OmitOptional, Emit, Return
<1>4. ASSUME Provision
      PROVE  \E keys : stored' = [stored EXCEPT
                                  !.passwords = Mint(@, keys, "password", opts.round)]
  BY <1>4 DEF Provision
<1>5. ASSUME NEW c \in Names(Launch), Skip(c) \/ Translate(c) PROVE at = "component"
  BY <1>5 DEF Skip, Translate
<1>6. CASE WireHost \/ applySuppliedResource \/ OmitOptional \/ Emit \/ Return \/ Provision
  <2>1. at \in Generating
    BY <1>6 DEF WireHost, applySuppliedResource, OmitOptional, Emit, Return, Provision,
      AtEntry, Generating
  <2> QED BY <1>3, <1>4, <1>6, <2>1
<1>7. (\E c \in Names(Launch) : Skip(c) \/ Translate(c)) \/
      WireHost \/ applySuppliedResource \/ OmitOptional \/ Emit \/ Return \/ Provision
  BY DEF Translates, Generate
<1> QED BY <1>1, <1>2, <1>5, <1>6, <1>7 DEF Generating

\* launchToCompose adds to what it was handed and changes nothing in it.
LEMMA TranslateExtends ==
  ASSUME StateShape(stored), Translates
  PROVE  /\ StateShape(stored') /\ Extends(stored, stored')
         /\ at \in Generating
<1>1. /\ at \in Generating
      /\ \/ stored' = stored
         \/ \E c : stored' = [stored EXCEPT !.generated = Generated(c, @)]
         \/ \E keys : stored' = [stored EXCEPT !.passwords = Mint(@, keys, "password", opts.round)]
  BY TranslateMints
<1>2. ASSUME NEW c, stored' = [stored EXCEPT !.generated = Generated(c, @)]
      PROVE  StateShape(stored') /\ Extends(stored, stored')
  <2>1. KeptIn(stored.generated, Generated(c, stored.generated)) BY MintKeeps DEF Generated
  <2> QED BY <1>2, <2>1 DEF StateShape, Extends, KeptIn, Free, Restrict
<1>3. ASSUME NEW keys, stored' = [stored EXCEPT !.passwords = Mint(@, keys, "password", opts.round)]
      PROVE  StateShape(stored') /\ Extends(stored, stored')
  <2>1. KeptIn(stored.passwords, Mint(stored.passwords, keys, "password", opts.round)) BY MintKeeps
  <2> QED BY <1>3, <2>1 DEF StateShape, Extends, KeptIn, Free, Restrict
<1>4. Extends(stored, stored) BY DEF Extends, KeptIn, Free, Restrict
<1> QED BY <1>1, <1>2, <1>3, <1>4

LEMMA MintedStep ==
  ASSUME IMinted, [Next]_vars PROVE IMinted' /\ (disk # Absent /\ disk' # Absent =>
                                                 Extends(disk, disk'))
<1>0. \A s : Extends(s, s) BY DEF Extends, KeptIn, Free, Restrict
<1>1. ASSUME NEW launch \in Launches, NEW request \in Requests, Up(launch, request)
      PROVE  IMinted' /\ disk' = disk
  <2> DEFINE state == IF disk = Absent THEN initState ELSE disk
  <2>1. StateShape(state) BY DEF IMinted, Shapes, StateShape, initState
  <2>2. (\E o : launchToCompose(o, state)) /\ disk' = disk
    BY <1>1 DEF Up
  <2>3. StateShape(stored') /\ Extends(state, stored')
    <3> HIDE DEF state
    <3> QED BY <2>1, <2>2, LaunchExtends
  <2> QED BY <2>2, <2>3 DEF IMinted, Shapes
<1>2. ASSUME NEW launch \in Launches, NEW supply \in Embeddings, Embed(launch, supply)
      PROVE  IMinted' /\ disk' = disk
  <2>1. StateShape(initState) BY DEF StateShape, initState
  <2>2. (\E o : launchToCompose(o, initState)) /\ disk' = disk /\ run'.embedded
    BY <1>2 DEF Embed, NoRun
  <2>3. StateShape(stored') BY <2>1, <2>2, LaunchExtends
  <2> QED BY <2>2, <2>3 DEF IMinted, Shapes
<1>3. CASE Translates
  <2>1. StateShape(stored') /\ Extends(stored, stored') /\ at \in Generating
    BY <1>3, TranslateExtends DEF IMinted, Shapes
  <2>2. disk' = disk /\ run' = run BY <1>3 DEF Translates, upVars
  <2>3. disk # Absent /\ ~run.embedded => Extends(disk, stored')
    BY <2>1, KeptInTransitive DEF IMinted, Extends, Free, Restrict, KeptIn
  <2> QED BY <1>0, <2>1, <2>2, <2>3 DEF IMinted, Shapes
<1>4. CASE WriteFiles
  <2>1. /\ at = "returned" /\ ~run.embedded /\ at' = "prepare" /\ stored' = stored
        /\ disk' = [stored EXCEPT !.appUrl = opts.appUrl]
    BY <1>4 DEF WriteFiles
  <2>2. /\ StateShape(disk') /\ disk'.passwords = stored.passwords
        /\ disk'.generated = stored.generated /\ disk'.secrets = stored.secrets
    BY <2>1 DEF IMinted, Shapes, StateShape
  <2>3. disk # Absent => Extends(disk, disk')
    BY <2>1, <2>2 DEF IMinted, Generating, Extends
  <2> QED BY <2>1, <2>2, <2>3 DEF IMinted, Shapes, Generating
<1>5. CASE Deploys BY <1>0, <1>5 DEF Deploys, IMinted, Shapes
<1>6. CASE Down
  BY <1>0, <1>6 DEF Down, genVars, IMinted, Shapes, Generating
<1>7. ASSUME NEW stopped \in BOOLEAN, Destroy(stopped) PROVE IMinted' /\ disk' = Absent
  BY <1>7 DEF Destroy, genVars, IMinted, Shapes
<1>8. CASE UNCHANGED vars
  BY <1>0, <1>8 DEF vars, genVars, upVars, IMinted, Shapes
<1> QED BY <1>0, <1>1, <1>2, <1>3, <1>4, <1>5, <1>6, <1>7, <1>8, Kinds

\* While there is a state.json, no `up` and no `down` changes or drops a
\* password, a generated variable or a secret it holds (D-49).
THEOREM MintedKeptAlways == Spec => MintedKept
<1>1. Init => IMinted
  BY DEF Init, IMinted, Shapes, StateShape, Legacy, initState, Generating
<1>2. IMinted /\ [Next]_vars => IMinted'
  BY MintedStep
<1>3. IMinted /\ [Next]_vars =>
        [disk # Absent /\ disk' # Absent =>
           /\ KeptIn(disk.passwords, disk'.passwords)
           /\ KeptIn(disk.generated, disk'.generated)
           /\ KeptIn(Restrict(disk.secrets, DOMAIN disk.secrets \ ResourcePasswordKeys),
                     disk'.secrets)]_vars
  BY MintedStep DEF Extends, Free
<1> QED BY <1>1, <1>2, <1>3, PTL DEF Spec, MintedKept

-----------------------------------------------------------------------------
(* A component is translated whole or not at all. *)

OutShape(o) ==
  o = [services |-> o.services, components |-> o.components, ports |-> o.ports,
       skipped |-> o.skipped, mayExit |-> o.mayExit, unsupplied |-> o.unsupplied,
       unbound |-> o.unbound, binds |-> o.binds, primary |-> o.primary]

CurShape(c) ==
  c = [name |-> c.name, env |-> c.env, needs |-> c.needs, todo |-> c.todo,
       granted |-> c.granted]

\* Components and entries are taken one after another, each once.
Ordered ==
  /\ OutShape(out) /\ CurShape(cur)
  /\ opts.launch \in Launches /\ opts.round = round
  /\ todo \in Seq(Names(Launch)) /\ \A i, j \in DOMAIN todo : todo[i] = todo[j] => i = j
  /\ out.components \subseteq Names(Launch) \ ToSet(todo)
  /\ at = "entry" =>
       /\ cur.name \in Names(Launch) /\ cur.name \notin out.components \cup ToSet(todo)
       /\ cur.todo \in Seq(Declared(Launch))

\* What is generated is a component or needed by one, and each needs what is there.
Accounted ==
  /\ \A s \in DOMAIN out.services :
       IF out.services[s].backing
       THEN /\ s \in {e.type : e \in Declared(Launch)}
            /\ \/ \E c \in out.components : s \in DOMAIN out.services[c].needs
               \/ at = "entry" /\ s \in DOMAIN cur.needs
       ELSE s \in out.components
  /\ \A c \in out.components :
       /\ c \in DOMAIN out.services /\ ~out.services[c].backing
       /\ DOMAIN out.services[c].needs \subseteq DOMAIN out.services \cup DOMAIN Comp(c).depends
  /\ at = "entry" => DOMAIN cur.needs \subseteq DOMAIN out.services
  /\ at # "entry" => cur = NoComponent

Making == out.components \cup (IF at = "entry" THEN {cur.name} ELSE {})

\* What this `up` published and minted is of what it has translated.
Owned ==
  /\ \A k \in DOMAIN out.ports : k[1] \in Making
  /\ \A k \in DOMAIN stored.generated : stored.generated[k][2] = round => k[1] \in Making
  /\ \A k \in DOMAIN stored.passwords :
       stored.passwords[k] = <<"minted", round, "password", k>>
         => \E s \in DOMAIN out.services : out.services[s].backing /\ k \in passwordKeys(s)

Stamped(f, n) == \A k \in DOMAIN f : f[k][2] \in 0..n

AllStamped(s, n) ==
  Stamped(s.secrets, n) /\ Stamped(s.passwords, n) /\ Stamped(s.generated, n)

IWhole ==
  /\ IMinted /\ round \in Nat
  /\ disk # Absent => AllStamped(disk, round)
  /\ at \in Generating => AllStamped(stored, round) /\ Ordered /\ Accounted /\ Owned

\* A translated component's entry is passed, and nothing else is changed.
LEMMA EntryPassed ==
  ASSUME Ordered, Accounted, Owned, at = "entry", cur.todo # <<>>,
         UNCHANGED <<at, opts, stored, todo, out, round>>, CurShape(cur'),
         cur'.name = cur.name, cur'.todo = Tail(cur.todo), DOMAIN cur'.needs = DOMAIN cur.needs
  PROVE  Ordered' /\ Accounted' /\ Owned'
<1>1. Ordered'
  <2>1. Tail(cur.todo) \in Seq(Declared(Launch)) BY DEF Ordered
  <2> QED BY <2>1 DEF Ordered, Launch
<1>2. Accounted' BY DEF Accounted, Comp, Launch
<1>3. Owned' BY DEF Owned, Making
<1> QED BY <1>1, <1>2, <1>3

LEMMA TailOf ==
  ASSUME NEW S, NEW s \in Seq(S), s # <<>>
  PROVE  /\ Head(s) \in S /\ Tail(s) \in Seq(S) /\ Head(s) \in ToSet(s)
         /\ ToSet(Tail(s)) \subseteq ToSet(s)
         /\ (\A i, j \in DOMAIN s : s[i] = s[j] => i = j) =>
              /\ Head(s) \notin ToSet(Tail(s))
              /\ \A i, j \in DOMAIN Tail(s) : Tail(s)[i] = Tail(s)[j] => i = j
<1>1. Head(s) = s[1] /\ 1 \in DOMAIN s /\ Tail(s) \in Seq(S) OBVIOUS
<1>2. \A i \in DOMAIN Tail(s) : i \in Nat /\ i + 1 \in DOMAIN s /\ Tail(s)[i] = s[i + 1] /\ i + 1 # 1
  OBVIOUS
<1>3. Head(s) \in S /\ Head(s) \in ToSet(s) /\ ToSet(Tail(s)) \subseteq ToSet(s)
  BY <1>1, <1>2 DEF ToSet
<1>4. ASSUME \A i, j \in DOMAIN s : s[i] = s[j] => i = j
      PROVE  /\ Head(s) \notin ToSet(Tail(s))
             /\ \A i, j \in DOMAIN Tail(s) : Tail(s)[i] = Tail(s)[j] => i = j
  <2>1. Head(s) \notin ToSet(Tail(s)) BY <1>1, <1>2, <1>4 DEF ToSet
  <2>2. ASSUME NEW i \in DOMAIN Tail(s), NEW j \in DOMAIN Tail(s), Tail(s)[i] = Tail(s)[j]
        PROVE  i = j
    <3>1. s[i + 1] = s[j + 1] BY <1>2, <2>2
    <3>2. i + 1 = j + 1 BY <1>2, <1>4, <3>1
    <3> QED BY <1>2, <3>2
  <2> QED BY <2>1, <2>2
<1> QED BY <1>1, <1>3, <1>4

\* What is minted bears the round.
LEMMA StampedMint ==
  ASSUME NEW n \in Nat, NEW f, Stamped(f, n), NEW keys, NEW space
  PROVE  Stamped(Mint(f, keys, space, n), n)
<1>1. \A k : <<"minted", n, space, k>>[2] \in 0..n OBVIOUS
<1> QED BY <1>1 DEF Stamped, Mint, ++

LEMMA PublishedKeys ==
  ASSUME NEW c PROVE \A k \in DOMAIN Published(c) : k[1] = c
<1> DEFINE seq == publishedEndpointAddresses(Launch, c, opts.hostPorts, ctx.active)
<1>1. \A i \in DOMAIN seq : seq[i].key = <<c, i>>
  BY DEF publishedEndpointAddresses
<1>2. \A a \in ToSet(seq) : a.key[1] = c BY <1>1 DEF ToSet
<1> HIDE DEF seq
<1>3. DOMAIN Published(c) = {a.key : a \in ToSet(seq)} BY DEF Published, seq
<1> QED BY <1>2, <1>3

\* What an entry of a component is, the Launchfile declares.
LEMMA EntriesDeclared ==
  ASSUME NEW launch \in Launches, NEW c \in Names(launch)
  PROVE  Entries(launch.comp[c]) \in Seq(Declared(launch))
<1> DEFINE r == launch.comp[c].requires
           s == launch.comp[c].supports
<1>1. c \in DOMAIN launch.comp BY LaunchesAssumption DEF Names, ToSet
<1>2. r \in Seq(ToSet(r)) /\ s \in Seq(ToSet(s)) BY <1>1, LaunchesAssumption
<1>3. Entries(launch.comp[c]) = r \o s BY DEF Entries
<1>4. ToSet(r \o s) \subseteq Declared(launch) BY <1>3 DEF Declared
<1> HIDE DEF r, s
<1>5. ToSet(r) \subseteq ToSet(r \o s) /\ ToSet(s) \subseteq ToSet(r \o s)
  <2>1. ASSUME NEW i \in DOMAIN r PROVE r[i] \in ToSet(r \o s)
    <3>1. i \in DOMAIN (r \o s) /\ (r \o s)[i] = r[i] BY <1>2
    <3> QED BY <3>1 DEF ToSet
  <2>2. ASSUME NEW i \in DOMAIN s PROVE s[i] \in ToSet(r \o s)
    <3>1. i + Len(r) \in DOMAIN (r \o s) /\ (r \o s)[i + Len(r)] = s[i] BY <1>2
    <3> QED BY <3>1 DEF ToSet
  <2> QED BY <2>1, <2>2 DEF ToSet
<1>6. r \in Seq(Declared(launch)) /\ s \in Seq(Declared(launch)) BY <1>2, <1>4, <1>5
<1> QED BY <1>3, <1>6

LEMMA SkipWhole ==
  ASSUME IWhole, NEW c, Skip(c), UNCHANGED round
  PROVE  Ordered' /\ Accounted' /\ Owned'
<1>1. Ordered /\ Accounted /\ Owned /\ at = "component" /\ at' = at /\ todo # <<>>
  BY DEF IWhole, Skip, Generating
<1>2. /\ OutShape(out') /\ out'.services = out.services /\ out'.components = out.components
      /\ out'.ports = out.ports
  BY <1>1 DEF Skip, Ordered, OutShape
<1>3. todo' = Tail(todo) /\ UNCHANGED <<opts, stored, cur>> BY DEF Skip
<1>4. Ordered'
  <2>1. /\ Tail(todo) \in Seq(Names(Launch)) /\ ToSet(Tail(todo)) \subseteq ToSet(todo)
        /\ \A i, j \in DOMAIN Tail(todo) : Tail(todo)[i] = Tail(todo)[j] => i = j
    BY <1>1, TailOf DEF Ordered
  <2> QED BY <1>1, <1>2, <1>3, <2>1 DEF Ordered, Launch
<1>5. Accounted' BY <1>1, <1>2, <1>3 DEF Accounted, Comp, Launch
<1>6. Owned' BY <1>1, <1>2, <1>3 DEF Owned, Making
<1> QED BY <1>4, <1>5, <1>6

LEMMA TranslateWhole ==
  ASSUME IWhole, NEW c, Translate(c), UNCHANGED round, at' = "entry"
  PROVE  Ordered' /\ Accounted' /\ Owned'
<1>1. /\ Ordered /\ Accounted /\ Owned /\ at = "component" /\ todo # <<>> /\ c = Head(todo)
      /\ StateShape(stored)
  BY DEF IWhole, IMinted, Shapes, Translate, Generating
<1>2. /\ stored' = [stored EXCEPT !.generated = Generated(c, @)]
      /\ out' = [out EXCEPT !.ports = Published(c) ++ @]
      /\ todo' = Tail(todo) /\ opts' = opts
      /\ \E env, granted : cur' = [name |-> c, env |-> env, needs |-> <<>>,
                                  todo |-> Entries(Comp(c)), granted |-> granted]
  BY DEF Translate, Fail
<1>3. /\ OutShape(out') /\ out'.services = out.services /\ out'.components = out.components
      /\ out'.ports = Published(c) ++ out.ports
  BY <1>1, <1>2 DEF Ordered, OutShape
<1>4. /\ CurShape(cur') /\ cur'.name = c /\ cur'.needs = <<>> /\ cur'.todo = Entries(Comp(c))
  BY <1>2 DEF CurShape
<1>5. /\ stored'.passwords = stored.passwords
      /\ stored'.generated = Generated(c, stored.generated)
  BY <1>1, <1>2 DEF StateShape
<1>6. /\ Tail(todo) \in Seq(Names(Launch)) /\ ToSet(Tail(todo)) \subseteq ToSet(todo)
      /\ c \in Names(Launch) /\ c \in ToSet(todo) /\ c \notin ToSet(Tail(todo))
      /\ \A i, j \in DOMAIN Tail(todo) : Tail(todo)[i] = Tail(todo)[j] => i = j
  BY <1>1, TailOf DEF Ordered
<1>7. Ordered'
  <2>1. Entries(Comp(c)) \in Seq(Declared(Launch))
    BY <1>1, <1>6, EntriesDeclared DEF Ordered, Comp, Launch
  <2> QED BY <1>1, <1>2, <1>3, <1>4, <1>6, <2>1 DEF Ordered, Launch
<1>8. Accounted'
  BY <1>1, <1>2, <1>3, <1>4 DEF Accounted, Comp, Launch
<1>9. Making' = Making \cup {c} BY <1>1, <1>3, <1>4 DEF Making
<1>10. \A k \in DOMAIN out'.ports : k[1] \in Making'
  BY <1>1, <1>3, <1>9, PublishedKeys DEF Owned, ++
<1>11. \A k \in DOMAIN stored'.generated : stored'.generated[k][2] = round => k[1] \in Making'
  BY <1>1, <1>5, <1>9 DEF Owned, Generated, Mint, ++
<1>12. Owned'
  BY <1>1, <1>3, <1>5, <1>10, <1>11 DEF Owned
<1> QED BY <1>7, <1>8, <1>12

\* An entry that is wired, and needs nothing that is not there.
LEMMA WireEntry ==
  ASSUME Ordered, at = "entry", NEW properties, NEW needs, Wire(properties, needs)
  PROVE  \/ at' = "thrown"
         \/ /\ at' = at /\ CurShape(cur') /\ cur'.name = cur.name
            /\ cur'.todo = Tail(cur.todo) /\ cur'.needs = needs ++ cur.needs
<1>1. CASE at' = "thrown" BY <1>1
<1>2. ASSUME at' # "thrown"
      PROVE  at' = at /\ \E env : cur' = [cur EXCEPT !.env = env ++ @, !.needs = needs ++ @,
                                                    !.todo = Tail(@)]
  BY <1>2 DEF Wire
<1> QED BY <1>1, <1>2 DEF Ordered, CurShape

LEMMA EntryWhole ==
  ASSUME IWhole, WireHost \/ applySuppliedResource \/ OmitOptional, UNCHANGED round,
         at' # "thrown"
  PROVE  Ordered' /\ Accounted' /\ Owned'
<1>1. /\ Ordered /\ Accounted /\ Owned /\ at = "entry" /\ cur.todo # <<>>
      /\ UNCHANGED <<opts, stored, todo, out>>
  BY DEF IWhole, WireHost, applySuppliedResource, OmitOptional, AtEntry, Generating
<1>2. CASE WireHost \/ OmitOptional
  <2>1. at' = at /\ \E env : cur' = [cur EXCEPT !.todo = Tail(@), !.env = env]
    <3>1. CASE WireHost BY <3>1 DEF WireHost
    <3>2. CASE OmitOptional
      <4>1. cur' = [cur EXCEPT !.todo = Tail(@)] /\ at' = at BY <3>2 DEF OmitOptional
      <4>2. cur' = [cur EXCEPT !.todo = Tail(@), !.env = cur.env]
        BY <1>1, <4>1 DEF Ordered, CurShape
      <4> QED BY <4>1, <4>2
    <3> QED BY <1>2, <3>1, <3>2
  <2>2. /\ CurShape(cur') /\ cur'.name = cur.name /\ cur'.todo = Tail(cur.todo)
        /\ cur'.needs = cur.needs
    BY <1>1, <2>1 DEF Ordered, CurShape
  <2> QED BY <1>1, <2>1, <2>2, EntryPassed
<1>3. CASE applySuppliedResource
  <2>1. Wire(SatisfiedBy(Entry), <<>>) BY <1>3 DEF applySuppliedResource
  <2>2. /\ at' = at /\ CurShape(cur') /\ cur'.name = cur.name
        /\ cur'.todo = Tail(cur.todo) /\ cur'.needs = <<>> ++ cur.needs
    BY <1>1, <2>1, WireEntry
  <2>3. DOMAIN cur'.needs = DOMAIN cur.needs BY <2>2 DEF ++
  <2> QED BY <1>1, <2>2, <2>3, EntryPassed
<1> QED BY <1>2, <1>3

LEMMA ProvisionWhole ==
  ASSUME NamesApart, IWhole, Provision, UNCHANGED round, at' # "thrown"
  PROVE  Ordered' /\ Accounted' /\ Owned'
<1> DEFINE type == Entry.type
           passwords == Mint(stored.passwords, passwordKeys(type), "password", opts.round)
<1>1. /\ Ordered /\ Accounted /\ Owned /\ at = "entry" /\ cur.todo # <<>> /\ StateShape(stored)
      /\ UNCHANGED <<opts, todo>>
      /\ stored' = [stored EXCEPT !.passwords = passwords]
      /\ out' = [out EXCEPT !.services = addBackingService(type, passwords)]
      /\ \E properties : Wire(properties, Only(type, "healthy"))
  BY DEF IWhole, IMinted, Shapes, Provision, AtEntry, Generating
<1>2. /\ at' = at /\ CurShape(cur') /\ cur'.name = cur.name
      /\ cur'.todo = Tail(cur.todo) /\ cur'.needs = Only(type, "healthy") ++ cur.needs
  BY <1>1, WireEntry
<1>3. DOMAIN cur'.needs = DOMAIN cur.needs \cup {type} BY <1>2 DEF ++, Only
<1>4. /\ stored'.passwords = passwords /\ stored'.generated = stored.generated
  BY <1>1 DEF StateShape
<1>5. /\ OutShape(out') /\ out'.services = addBackingService(type, passwords)
      /\ out'.components = out.components /\ out'.ports = out.ports
  BY <1>1 DEF Ordered, OutShape
<1>6. type \notin Names(Launch) /\ type \in {e.type : e \in Declared(Launch)}
  <2>1. Head(cur.todo) \in Declared(Launch) BY <1>1, TailOf DEF Ordered
  <2> QED BY <1>1, <2>1 DEF NamesApart, Ordered, Entry, Launch
<1>7. type \notin out.components BY <1>1, <1>6 DEF Ordered
<1>8. \E service :
        /\ service.backing
        /\ \/ type \in DOMAIN out.services /\ out'.services = out.services
              /\ service = out.services[type]
           \/ type \notin DOMAIN out.services /\ out'.services = Only(type, service) ++ out.services
  <2>1. CASE type \in DOMAIN out.services
    BY <1>1, <1>5, <1>7, <2>1 DEF addBackingService, Accounted
  <2>2. CASE type \notin DOMAIN out.services
    BY <1>5, <2>2 DEF addBackingService
  <2> QED BY <2>1, <2>2
<1> HIDE DEF type, passwords
<1>9. /\ DOMAIN out'.services = DOMAIN out.services \cup {type} /\ out'.services[type].backing
      /\ \A s \in DOMAIN out.services : out'.services[s] = out.services[s]
  BY <1>8 DEF ++, Only
<1>10. Ordered'
  <2>1. Tail(cur.todo) \in Seq(Declared(Launch)) BY <1>1 DEF Ordered
  <2> QED BY <1>1, <1>2, <1>5, <2>1 DEF Ordered, Launch
<1>11. Accounted'
  BY <1>1, <1>2, <1>3, <1>5, <1>6, <1>9 DEF Accounted, Comp, Launch
<1>12. \A k \in DOMAIN passwords : k \in passwordKeys(type) \/
         (k \in DOMAIN stored.passwords /\ passwords[k] = stored.passwords[k])
  BY DEF passwords, Mint, ++
<1>13. Owned'
  <2>1. Making' = Making BY <1>1, <1>2, <1>5 DEF Making
  <2>2. ASSUME NEW k \in DOMAIN stored'.passwords,
               stored'.passwords[k] = <<"minted", round, "password", k>>
        PROVE  \E s \in DOMAIN out'.services : out'.services[s].backing /\ k \in passwordKeys(s)
    BY <1>1, <1>4, <1>9, <1>12, <2>2 DEF Owned
  <2> QED BY <1>1, <1>4, <1>5, <2>1, <2>2 DEF Owned
<1> QED BY <1>10, <1>11, <1>13

\* The service of the component that is done, and what is noted down with it.
Emits(service, bound) ==
  LET c == cur.name
      required == unsuppliedRequiredEnv(Comp(c), DOMAIN cur.env)
  IN  /\ service.backing = FALSE /\ service.needs = Comp(c).depends ++ cur.needs
      /\ DOMAIN service.env = DOMAIN cur.env \cup (required \cap opts.operatorEnv)
      /\ service.mounts = (DOMAIN Comp(c).storage \ OperatorVolumes(c)) \cup bound
      /\ out'.services = Only(c, service) ++ out.services
      /\ out'.components = out.components \cup {c} /\ out'.ports = out.ports
      /\ out'.unsupplied = out.unsupplied \cup {<<c, v>> : v \in required \ opts.operatorEnv}
      /\ out'.unbound = out.unbound \cup {<<c, v>> : v \in OperatorVolumes(c) \ bound}
      /\ OutShape(out')

LEMMA Emitted ==
  ASSUME OutShape(out), Emit PROVE \E service, bound : Emits(service, bound)
<1> DEFINE c == cur.name
           required == unsuppliedRequiredEnv(Comp(c), DOMAIN cur.env)
           asked == required \cap opts.operatorEnv
           bound == {v \in OperatorVolumes(c) : lookup(opts.storagePaths, c, v) # Undefined}
           own   == DOMAIN Comp(c).storage \ OperatorVolumes(c)
           env   == cur.env ++ [v \in asked |-> <<"operator", v>>]
           service == [backing |-> FALSE, env |-> env,
                       needs |-> Comp(c).depends ++ cur.needs, checked |-> Comp(c).checked,
                       onNetwork |-> OnNetwork(opts.policy, cur.granted),
                       databases |-> {}, creator |-> c, mounts |-> own \cup bound]
           exit == IF Restart(c) \in {"no", "on-failure"} THEN out.mayExit \cup {c}
                   ELSE out.mayExit
           supply == out.unsupplied \cup {<<c, v>> : v \in Unsupplied(c)}
           unbound == out.unbound \cup {<<c, v>> : v \in OperatorVolumes(c) \ bound}
           binds == out.binds \cup {<<c, v>> : v \in bound}
<1>1. out' = [out EXCEPT !.services = Only(c, service) ++ @, !.components = @ \cup {c},
                         !.mayExit = exit, !.unsupplied = supply, !.unbound = unbound,
                         !.binds = binds]
  BY Zenon DEF Emit
<1>2. DOMAIN env = DOMAIN cur.env \cup asked BY DEF ++
<1>3. supply = out.unsupplied \cup {<<c, v>> : v \in required \ opts.operatorEnv}
  BY DEF Unsupplied
<1> HIDE DEF c, env, exit, supply, unbound, binds, own, bound, required
<1>4. /\ service.backing = FALSE /\ service.needs = Comp(c).depends ++ cur.needs
      /\ service.env = env /\ service.mounts = own \cup bound
  OBVIOUS
<1> HIDE DEF service
<1>5. /\ out'.services = Only(c, service) ++ out.services
      /\ out'.components = out.components \cup {c} /\ out'.ports = out.ports
      /\ out'.unsupplied = supply /\ out'.unbound = unbound /\ OutShape(out')
  BY <1>1 DEF OutShape
<1>6. Emits(service, bound)
  BY <1>2, <1>3, <1>4, <1>5, Zenon DEF Emits, c, required, own, unbound
<1> QED BY <1>6

LEMMA EmitWhole ==
  ASSUME NamesApart, IWhole, Emit, UNCHANGED round
  PROVE  Ordered' /\ Accounted' /\ Owned'
<1> DEFINE c == cur.name
<1>1. /\ Ordered /\ Accounted /\ Owned /\ at = "entry" /\ at' = "component"
      /\ cur' = NoComponent /\ UNCHANGED <<opts, stored, todo, ctx>>
  BY DEF IWhole, Emit, Generating
<1>2. \E service :
        /\ service.backing = FALSE /\ service.needs = Comp(c).depends ++ cur.needs
        /\ out'.services = Only(c, service) ++ out.services
        /\ out'.components = out.components \cup {c} /\ out'.ports = out.ports
        /\ OutShape(out')
  <2>1. \E service, bound : Emits(service, bound) BY <1>1, Emitted DEF Ordered
  <2> QED BY <2>1, Zenon DEF Emits
<1>3. c \notin out.components /\ c \in Names(Launch) /\ c \notin ToSet(todo)
  BY <1>1 DEF Ordered
<1> HIDE DEF c
<1>4. /\ DOMAIN out'.services = DOMAIN out.services \cup {c} /\ ~out'.services[c].backing
      /\ DOMAIN out'.services[c].needs = DOMAIN Comp(c).depends \cup DOMAIN cur.needs
      /\ \A s \in DOMAIN out.services \ {c} : out'.services[s] = out.services[s]
      /\ out'.components = out.components \cup {c} /\ out'.ports = out.ports
  BY <1>2 DEF ++, Only
<1>5. Ordered'
  <2>1. CurShape(cur') BY <1>1 DEF CurShape, NoComponent
  <2> QED BY <1>1, <1>2, <1>3, <1>4, <2>1 DEF Ordered, Launch
<1>6. Accounted'
  BY <1>1, <1>3, <1>4 DEF Accounted, Comp, Launch
<1>7. Owned'
  <2>1. Making' = Making BY <1>1, <1>4 DEF Making, c
  <2>2. ASSUME NEW s \in DOMAIN out.services, out.services[s].backing
        PROVE  s \in DOMAIN out'.services /\ out'.services[s] = out.services[s]
    <3>1. s # c BY <1>1, <1>3, <2>2 DEF Accounted, NamesApart, Ordered, Launch
    <3> QED BY <1>4, <3>1
  <2> QED BY <1>1, <1>4, <2>1, <2>2 DEF Owned
<1> QED BY <1>5, <1>6, <1>7

LEMMA ReturnWhole ==
  ASSUME IWhole, Return, UNCHANGED round
  PROVE  Ordered' /\ Accounted' /\ Owned'
<1>1. /\ Ordered /\ Accounted /\ Owned /\ at = "component" /\ at' = "returned"
      /\ UNCHANGED <<opts, stored, todo, cur, out>>
  BY DEF IWhole, Return, Generating
<1>2. Ordered' BY <1>1 DEF Ordered, Launch
<1>3. Accounted' BY <1>1 DEF Accounted, Comp, Launch
<1>4. Owned' BY <1>1 DEF Owned, Making
<1> QED BY <1>2, <1>3, <1>4

\* What is minted bears this round, what was there an earlier one.
LEMMA BeginsStamped ==
  ASSUME NEW o, NEW held, NEW n \in Int, StateShape(held), AllStamped(held, n),
         launchToCompose(o, held), o.round \in Nat, n < o.round
  PROVE  /\ Stamped(stored'.secrets, o.round)
         /\ Stamped(stored'.passwords, n) /\ Stamped(stored'.generated, n)
<1> DEFINE carried == DOMAIN held.secrets \cap ResourcePasswordKeys
           left == DOMAIN held.secrets \ (carried \ o.launch.secrets)
           minted == Mint(Restrict(held.secrets, left), o.launch.secrets, "secret", o.round)
<1>1. /\ stored'.secrets = minted
      /\ stored'.passwords = held.passwords ++ Restrict(held.secrets, carried)
      /\ stored'.generated = held.generated
  BY BeginsWith
<1>2. /\ Stamped(held.secrets, n) /\ Stamped(held.passwords, n) /\ Stamped(held.generated, n)
      /\ 0..n \subseteq 0..o.round
  BY DEF AllStamped
<1>3. Stamped(Restrict(held.secrets, carried), n) /\ Stamped(Restrict(held.secrets, left), n)
  BY <1>2 DEF Stamped, Restrict
<1>4. Stamped(stored'.passwords, n) BY <1>1, <1>2, <1>3 DEF Stamped, ++
<1>5. Stamped(Restrict(held.secrets, left), o.round) BY <1>2, <1>3 DEF Stamped
<1>6. Stamped(minted, o.round)
  <2> HIDE DEF left
  <2> QED BY <1>5, StampedMint
<1> QED BY <1>1, <1>2, <1>4, <1>6

\* Nothing of this round is there when it begins.
LEMMA BeginsWhole ==
  ASSUME NEW o, NEW held, NEW n \in Int, StateShape(held), AllStamped(held, n),
         launchToCompose(o, held), o.launch \in Launches, o.round = round',
         round' \in Nat, n < round'
  PROVE  AllStamped(stored', round') /\ Ordered' /\ Accounted' /\ Owned'
<1>1. /\ Stamped(stored'.secrets, round')
      /\ Stamped(stored'.passwords, n) /\ Stamped(stored'.generated, n)
  BY BeginsStamped
<1>2. /\ at' = "component" /\ opts' = o /\ todo' = o.launch.order /\ cur' = NoComponent
      /\ \E key : out' = [NothingEmitted EXCEPT !.primary = key]
  BY DEF launchToCompose
<1>3. /\ OutShape(out') /\ out'.services = <<>> /\ out'.components = {} /\ out'.ports = <<>>
  BY <1>2 DEF NothingEmitted, OutShape
<1>4. AllStamped(stored', round')
  BY <1>1 DEF AllStamped, Stamped
<1>5. Ordered'
  <2>1. /\ o.launch.order \in Seq(Names(o.launch))
        /\ \A i, j \in DOMAIN o.launch.order :
             o.launch.order[i] = o.launch.order[j] => i = j
    BY LaunchesAssumption DEF Names, ToSet
  <2>2. CurShape(cur') BY <1>2 DEF CurShape, NoComponent
  <2> QED BY <1>2, <1>3, <2>1, <2>2 DEF Ordered, Launch
<1>6. Accounted' BY <1>2, <1>3 DEF Accounted
<1>7. Owned'
  <2>1. \A k \in DOMAIN stored'.generated : stored'.generated[k][2] # round'
    BY <1>1 DEF Stamped
  <2>2. \A k \in DOMAIN stored'.passwords : stored'.passwords[k][2] # round'
    BY <1>1 DEF Stamped
  <2>3. \A k : <<"minted", round', "password", k>>[2] = round' OBVIOUS
  <2> QED BY <1>3, <2>1, <2>2, <2>3 DEF Owned
<1> QED BY <1>4, <1>5, <1>6, <1>7

LEMMA TranslateStamped ==
  ASSUME IWhole, Translates
  PROVE  AllStamped(stored', round')
<1>1. /\ at \in Generating /\ AllStamped(stored, round) /\ StateShape(stored)
      /\ opts.round = round /\ round \in Nat /\ round' = round
  BY TranslateExtends DEF IWhole, IMinted, Shapes, Ordered, Translates, upVars
<1>2. \/ stored' = stored
      \/ \E c : stored' = [stored EXCEPT !.generated = Generated(c, @)]
      \/ \E keys : stored' = [stored EXCEPT !.passwords = Mint(@, keys, "password", opts.round)]
  BY TranslateMints
<1>3. ASSUME NEW c, stored' = [stored EXCEPT !.generated = Generated(c, @)]
      PROVE  AllStamped(stored', round')
  <2>1. Stamped(Generated(c, stored.generated), round)
    BY <1>1, StampedMint DEF Generated, AllStamped
  <2> QED BY <1>1, <1>3, <2>1 DEF StateShape, AllStamped
<1>4. ASSUME NEW keys, stored' = [stored EXCEPT !.passwords = Mint(@, keys, "password", opts.round)]
      PROVE  AllStamped(stored', round')
  <2>1. Stamped(Mint(stored.passwords, keys, "password", opts.round), round)
    BY <1>1, StampedMint DEF AllStamped
  <2> QED BY <1>1, <1>4, <2>1 DEF StateShape, AllStamped
<1> QED BY <1>1, <1>2, <1>3, <1>4

LEMMA TranslateWholly ==
  ASSUME NamesApart, IWhole, Translates, at' # "thrown"
  PROVE  Ordered' /\ Accounted' /\ Owned'
<1>1. UNCHANGED round BY DEF Translates, upVars
<1>2. ASSUME NEW c, Translate(c) PROVE at' = "entry" BY <1>2 DEF Translate, Fail
<1> QED BY <1>1, <1>2, SkipWhole, TranslateWhole, EntryWhole, ProvisionWhole, EmitWhole,
           ReturnWhole DEF Translates, Generate

LEMMA WholeStep ==
  ASSUME NamesApart, IWhole, [Next]_vars PROVE IWhole'
<1>0. IMinted' /\ IMinted /\ round \in Nat
  BY MintedStep DEF IWhole
<1>1. ASSUME NEW launch \in Launches, NEW request \in Requests, Up(launch, request)
      PROVE  IWhole'
  <2> DEFINE state == IF disk = Absent THEN initState ELSE disk
  <2>1. StateShape(state) /\ AllStamped(state, round)
    BY DEF IWhole, IMinted, Shapes, StateShape, initState, AllStamped, Stamped
  <2>2. /\ \E o : launchToCompose(o, state) /\ o.launch = launch /\ o.round = round + 1
        /\ disk' = disk /\ round' = round + 1
    BY <1>1 DEF Up
  <2>3. AllStamped(stored', round') /\ Ordered' /\ Accounted' /\ Owned'
    <3> HIDE DEF state
    <3> QED BY <1>0, <2>1, <2>2, BeginsWhole
  <2>4. disk' # Absent => AllStamped(disk', round')
    BY <1>0, <2>2 DEF IWhole, AllStamped, Stamped
  <2> QED BY <1>0, <2>2, <2>3, <2>4 DEF IWhole
<1>2. ASSUME NEW launch \in Launches, NEW supply \in Embeddings, Embed(launch, supply)
      PROVE  IWhole'
  <2>1. StateShape(initState) /\ AllStamped(initState, -1)
    BY DEF StateShape, initState, AllStamped, Stamped
  <2>2. /\ \E o : launchToCompose(o, initState) /\ o.launch = launch /\ o.round = MaxUps
        /\ disk' = disk /\ round' = MaxUps /\ round = 0
    BY <1>2 DEF Embed
  <2>3. MaxUps \in Nat BY MaxUpsAssumption
  <2>4. AllStamped(stored', round') /\ Ordered' /\ Accounted' /\ Owned'
    BY <2>1, <2>2, <2>3, BeginsWhole
  <2>5. disk' # Absent => AllStamped(disk', round')
    BY <2>2, <2>3 DEF IWhole, AllStamped, Stamped
  <2> QED BY <1>0, <2>2, <2>3, <2>4, <2>5 DEF IWhole
<1>3. CASE Translates
  <2>1. round' = round /\ disk' = disk BY <1>3 DEF Translates, upVars
  <2>2. at' \in Generating => AllStamped(stored', round') /\ Ordered' /\ Accounted' /\ Owned'
    BY <1>3, TranslateStamped, TranslateWholly DEF Generating
  <2> QED BY <1>0, <2>1, <2>2 DEF IWhole
<1>4. CASE WriteFiles
  <2>1. /\ at = "returned" /\ at' = "prepare" /\ round' = round
        /\ disk' = [stored EXCEPT !.appUrl = opts.appUrl]
    BY <1>4 DEF WriteFiles
  <2>2. /\ disk'.passwords = stored.passwords /\ disk'.generated = stored.generated
        /\ disk'.secrets = stored.secrets
    BY <1>0, <2>1 DEF IMinted, Shapes, StateShape
  <2> QED BY <1>0, <2>1, <2>2 DEF IWhole, AllStamped, Generating
<1>5. CASE Deploys BY <1>0, <1>5 DEF Deploys, IWhole
<1>6. CASE Down
  <2>1. at = "idle" /\ at' = at /\ disk' = disk /\ round' = round
    BY <1>6 DEF Down, genVars
  <2> QED BY <1>0, <2>1 DEF IWhole, Generating
<1>7. ASSUME NEW stopped \in BOOLEAN, Destroy(stopped) PROVE IWhole'
  <2>1. at = "idle" /\ at' = at /\ disk' = Absent /\ round' = round
    BY <1>7 DEF Destroy, genVars
  <2> QED BY <1>0, <2>1 DEF IWhole, Generating
<1>8. CASE UNCHANGED vars
  <2>1. UNCHANGED <<at, opts, stored, todo, cur, out, disk, round>>
    BY <1>8 DEF vars, genVars, upVars
  <2> QED BY <1>0, <2>1 DEF IWhole, Ordered, Accounted, Owned, Making, Comp, Launch
<1> QED BY <1>1, <1>2, <1>3, <1>4, <1>5, <1>6, <1>7, <1>8, Kinds

LEMMA WholeInit == Init => IWhole
<1> SUFFICES ASSUME Init PROVE IWhole OBVIOUS
<1>1. IMinted BY DEF Init, IMinted, Shapes, StateShape, Legacy, initState, Generating
<1>2. at = "idle" /\ round = 0 /\ (disk = Absent \/ disk = Legacy) BY DEF Init
<1>3. AllStamped(Legacy, 0)
  <2>1. <<"minted", 0, "secret", "postgres">>[2] = 0 OBVIOUS
  <2> QED BY <2>1 DEF AllStamped, Stamped, Legacy, initState, Only
<1> QED BY <1>1, <1>2, <1>3 DEF IWhole, Generating

LEMMA WholeImplies == IWhole => WholeOrAbsent
<1> SUFFICES ASSUME IWhole, at = "returned" PROVE WholeOrAbsent
  BY DEF WholeOrAbsent
<1>1. Accounted /\ Owned /\ Making = out.components
  BY DEF IWhole, Generating, Making
<1> QED BY <1>1 DEF WholeOrAbsent, Accounted, Owned

\* A component is translated whole or not at all, for any Launchfiles none of
\* which names a component as one of its resources is typed (D-64 rule 3).
THEOREM WholeOrAbsentAlways ==
  ASSUME NamesApart PROVE Spec => []WholeOrAbsent
<1>1. Init => IWhole BY WholeInit
<1>2. IWhole /\ [Next]_vars => IWhole' BY WholeStep
<1>3. IWhole => WholeOrAbsent BY WholeImplies
<1> QED BY <1>1, <1>2, <1>3, PTL DEF Spec

-----------------------------------------------------------------------------
(* What a database was initialised with opens it. *)

\* A value that is the url of a service carries the password held for it.
Opening(held, v) ==
  v[1] = "url" => /\ v[3] = Credential(v[2], held)
                  /\ v[2] \in passwordKeys(v[2]) => v[2] \in DOMAIN held

AllOpen(held, f) == \A x \in DOMAIN f : Opening(held, f[x])

Drawn(f) == \A x \in DOMAIN f : f[x][1] = "minted"

AllDrawn(s) == Drawn(s.secrets) /\ Drawn(s.passwords) /\ Drawn(s.generated)

\* A backing service has the password held for it among its variables.
Serving(held, services) ==
  \A s \in DOMAIN services :
    /\ AllOpen(held, services[s].env)
    /\ services[s].backing /\ s \in passwordKeys(s) =>
         s \in DOMAIN held /\ services[s].env[s] = held[s]

LEMMA OpenMore ==
  ASSUME NEW held, NEW more, KeptIn(held, more), NEW f, AllOpen(held, f) PROVE AllOpen(more, f)
BY DEF KeptIn, AllOpen, Opening, Credential

LEMMA ServingMore ==
  ASSUME NEW held, NEW more, KeptIn(held, more), NEW f, Serving(held, f) PROVE Serving(more, f)
<1>1. ASSUME NEW s \in DOMAIN f PROVE AllOpen(more, f[s].env)
  BY OpenMore DEF Serving
<1> QED BY <1>1 DEF Serving, KeptIn

LEMMA OpenOver ==
  ASSUME NEW held, NEW f, NEW g, AllOpen(held, f), AllOpen(held, g) PROVE AllOpen(held, f ++ g)
BY DEF AllOpen, ++

LEMMA OpenOnly ==
  ASSUME NEW held, NEW k, NEW v, Opening(held, v) PROVE AllOpen(held, Only(k, v))
BY DEF AllOpen, Only

LEMMA OpenGet ==
  ASSUME NEW held, NEW f, NEW k, AllOpen(held, f) PROVE Opening(held, Get(f, k))
BY DEF AllOpen, Get, Opening, Undefined

\* No url at all.
LEMMA OtherOpen ==
  ASSUME NEW held, NEW v, v[1] # "url" PROVE Opening(held, v)
BY DEF Opening

LEMMA DrawnOpen ==
  ASSUME NEW held, NEW f, Drawn(f) PROVE AllOpen(held, f)
BY DEF Drawn, AllOpen, Opening

LEMMA MintDrawn ==
  ASSUME NEW f, Drawn(f), NEW keys, NEW space, NEW by PROVE Drawn(Mint(f, keys, space, by))
BY DEF Drawn, Mint, ++

LEMMA PropertiesOpen ==
  ASSUME NEW held, Drawn(held), NEW type, type \in passwordKeys(type) => type \in DOMAIN held
  PROVE  /\ AllOpen(held, Properties(type, held)) /\ <<"url">> \in DOMAIN Properties(type, held)
         /\ Properties(type, held)[<<"url">>] =
              <<"url", type, Credential(type, held), <<"instance">>>>
<1> DEFINE url == <<"url", type, Credential(type, held), <<"instance">>>>
           host == <<"host", type>>
<1>1. Opening(held, url) BY DEF Opening
<1>2. Opening(held, host) BY OtherOpen
<1>3. Opening(held, Credential(type, held)) BY DEF Credential, Drawn, Opening, Empty
<1>4. Properties(type, held) =
        Only(<<"host">>, host) ++ Only(<<"url">>, url) ++ Only(<<"password">>, Credential(type, held))
  BY DEF Properties
<1> HIDE DEF url, host
<1>5. AllOpen(held, Properties(type, held)) BY <1>1, <1>2, <1>3, <1>4, OpenOnly, OpenOver
<1>6. <<"url">> # <<"host">>
  <2>1. <<"url">>[1] # <<"host">>[1] OBVIOUS
  <2> QED BY <2>1
<1>7. <<"url">> \in DOMAIN Properties(type, held) /\ Properties(type, held)[<<"url">>] = url
  BY <1>4, <1>6 DEF ++, Only
<1> QED BY <1>5, <1>7 DEF url

\* A use has the url of its resource, with another database.
LEMMA CoveredOpen ==
  ASSUME NEW held, Drawn(held), NEW type, type \in passwordKeys(type) => type \in DOMAIN held,
         NEW uses, NEW indexes
  PROVE  AllOpen(held, withCoveredUses(type, uses, Properties(type, held), indexes))
<1> DEFINE base == Properties(type, held)
           keys == UNION {usePropertyKeys(u) : u \in {v \in uses : Covers(type, v)}}
           database(p) == DatabaseOf(<<p[1], p[2]>>, indexes)
           value(p) == IF p[3] = "url" THEN [base[<<"url">>] EXCEPT ![4] = database(p)]
                       ELSE database(p)
           f == [p \in keys |-> value(p)]
<1>1. /\ AllOpen(held, base)
      /\ base[<<"url">>] = <<"url", type, Credential(type, held), <<"instance">>>>
  BY PropertiesOpen
<1>2. withCoveredUses(type, uses, base, indexes) = base ++ f
  BY DEF withCoveredUses
<1> HIDE DEF base, keys
<1>3. ASSUME NEW p PROVE Opening(held, value(p))
  <2>1. Opening(held, database(p)) BY DEF Opening, DatabaseOf
  <2> HIDE DEF database
  <2>2. [base[<<"url">>] EXCEPT ![4] = database(p)] =
          <<"url", type, Credential(type, held), database(p)>>
    BY <1>1
  <2>3. Opening(held, <<"url", type, Credential(type, held), database(p)>>) BY DEF Opening
  <2> QED BY <2>1, <2>2, <2>3
<1> HIDE DEF value
<1>4. AllOpen(held, f) BY <1>3 DEF AllOpen
<1> HIDE DEF f
<1> QED BY <1>1, <1>2, <1>4, OpenOver DEF base

-----------------------------------------------------------------------------
(* What a reference resolves to. *)

OpenContext(held, context) ==
  /\ context = [resources |-> context.resources, resource |-> context.resource,
                components |-> context.components, storage |-> context.storage,
                secrets |-> context.secrets, app |-> context.app,
                appEndpoints |-> context.appEndpoints, uses |-> context.uses,
                active |-> context.active]
  /\ AllOpen(held, context.app) /\ "url" \in DOMAIN context.app
  /\ AllOpen(held, context.appEndpoints) /\ AllOpen(held, context.secrets)
  /\ AllOpen(held, context.storage) /\ AllOpen(held, context.resource)
  /\ \A c \in DOMAIN context.components : AllOpen(held, context.components[c])
  /\ \A k \in DOMAIN context.resources : AllOpen(held, context.resources[k])

LEMMA ContextMore ==
  ASSUME NEW held, NEW more, KeptIn(held, more), NEW context, OpenContext(held, context)
  PROVE  OpenContext(more, context)
BY OpenMore DEF OpenContext

LEMMA ResolveOpen ==
  ASSUME NEW held, NEW context, OpenContext(held, context), NEW path
  PROVE  Opening(held, resolveExpression(path, context))
<1>1. Opening(held, Undefined) /\ Opening(held, Unresolved) /\ Opening(held, Empty)
  BY DEF Undefined, Unresolved, Empty, Opening
<1>2. Opening(held, resolveUse(path, context))
  <2> SUFFICES ASSUME NEW property, path[1] \in DOMAIN context.resources
               PROVE  Opening(held, Get(Get(context.resources, path[1]), property))
    BY <1>1 DEF resolveUse
  <2>1. AllOpen(held, Get(context.resources, path[1])) BY DEF Get, OpenContext
  <2> QED BY <2>1, OpenGet
<1> DEFINE first == path[1]
           scoped(key) == IF key \in DOMAIN context.resource THEN context.resource[key]
                          ELSE Undefined
           general ==
             IF Len(path) >= 2 /\ first \in DOMAIN context.resources
                  /\ Tail(path) \in DOMAIN context.resources[first]
             THEN context.resources[first][Tail(path)] ELSE scoped(path)
           v1 == Get(context.app, path[2])
           v2 == IF Len(path) = 4 THEN Get(context.appEndpoints, path[3]) ELSE Undefined
           v3 == context.secrets[path[2]]
           v4 == IF path[2] \in DOMAIN context.components
                 THEN Get(context.components[path[2]], SubSeq(path, 3, Len(path))) ELSE Undefined
           v5 == IF path[3] = "path" THEN Get(context.storage, path[2]) ELSE Undefined
<1>3. Opening(held, general) BY <1>1 DEF OpenContext, AllOpen
<1>4. Opening(held, v1) /\ Opening(held, v2) /\ Opening(held, v5)
  BY <1>1, OpenGet DEF OpenContext
<1>5. path[2] \in DOMAIN context.secrets => Opening(held, v3) BY DEF OpenContext, AllOpen
<1>6. Opening(held, v4) BY <1>1, OpenGet DEF OpenContext
<1>7. Opening(held, resolvePath(path, context))
  <2> DEFINE use == resolveUse(path, context)
  <2>1. resolvePath(path, context) =
         CASE first = "app" /\ Len(path) = 2 -> v1
           [] first = "app" /\ Len(path) > 2 /\ path[2] = "endpoints" -> v2
           [] first = "secrets" /\ Len(path) = 2 /\ path[2] \in DOMAIN context.secrets -> v3
           [] first = "components" /\ Len(path) >= 3 -> v4
           [] first = "storage" /\ Len(path) = 3 -> v5
           [] Len(path) >= 3 /\ first \in DOMAIN context.uses -> use
           [] OTHER -> general
    BY DEF resolvePath
  <2> HIDE DEF v1, v2, v3, v4, v5, use, general, first
  <2>2. Opening(held, use) BY <1>2 DEF use
  <2> QED BY <2>1, <2>2, <1>3, <1>4, <1>5, <1>6
<1> QED BY <1>1, <1>7 DEF resolveExpression

\* With a component's volumes, and an entry's own properties.
LEMMA WithinOpen ==
  ASSUME NEW held, NEW context, OpenContext(held, context), NEW c
  PROVE  OpenContext(held, Within(c, context))
<1> DEFINE storage == [v \in DOMAIN Comp(c).storage |-> <<"path", v>>]
<1>1. AllOpen(held, storage) BY DEF AllOpen, Opening
<1>2. Within(c, context) = [context EXCEPT !.storage = storage] BY DEF Within
<1> HIDE DEF storage
<1> QED BY <1>1, <1>2 DEF OpenContext

LEMMA InjectedOpen ==
  ASSUME NEW held, NEW context, OpenContext(held, context), NEW properties,
         AllOpen(held, properties)
  PROVE  AllOpen(held, Injected(properties, context))
<1> DEFINE scope == [Within(cur.name, context) EXCEPT !.resource = properties]
<1>1. OpenContext(held, scope) BY WithinOpen DEF OpenContext
<1>2. Injected(properties, context) = [v \in DOMAIN Entry.env |-> resolveExpression(Entry.env[v], scope)]
  BY DEF Injected
<1> HIDE DEF scope
<1> QED BY <1>1, <1>2, ResolveOpen DEF AllOpen

\* Addresses are no urls of services.
LEMMA AppOpen ==
  ASSUME NEW held, NEW launch, NEW ports, NEW appUrl, NEW active
  PROVE  LET app == computeAppContext(launch, ports, appUrl, active)
         IN  AllOpen(held, app.app) /\ "url" \in DOMAIN app.app /\ AllOpen(held, app.endpoints)
<1> DEFINE primary == primaryPublishedEndpoint(launch)
           published == UNION {ToSet(publishedEndpointAddresses(launch, c, ports, active)) :
                                 c \in Names(launch)}
           url == IF declaredPrimaryEndpoint(launch, appUrl).refused THEN Empty
                  ELSE IF appUrl # "none" THEN <<"supplied", appUrl>>
                  ELSE IF \A p \in published : p.key # primary THEN Empty
                  ELSE (CHOOSE p \in published : p.key = primary).url
           named == {p \in published : p.name # ""}
           public(p) == IF p.key = primary THEN url
                        ELSE IF appUrl # "none" \/ p.protocol \notin HttpFamily THEN Empty
                        ELSE p.url
           endpoints == [n \in {p.name : p \in named} |-> public(CHOOSE p \in named : p.name = n)]
           props == [url |-> url, name |-> <<"name">>]
<1>1. ASSUME NEW p \in published PROVE p.url[1] # "url"
  <2>1. PICK c \in Names(launch) :
          p \in ToSet(publishedEndpointAddresses(launch, c, ports, active))
    OBVIOUS
  <2> DEFINE seq == publishedEndpointAddresses(launch, c, ports, active)
  <2>2. ASSUME NEW i \in DOMAIN seq PROVE \E protocol, port : seq[i].url = publishedAddress(protocol, port)
    BY DEF publishedEndpointAddresses
  <2>3. \E protocol, port : p.url = publishedAddress(protocol, port)
    <3> HIDE DEF seq
    <3>1. p \in ToSet(seq) BY <2>1 DEF seq
    <3> QED BY <2>2, <3>1 DEF ToSet
  <2>4. ASSUME NEW scheme, NEW port PROVE <<"address", scheme, port>>[1] = "address" OBVIOUS
  <2> QED BY <2>3, <2>4 DEF publishedAddress
<1>2. /\ computeAppContext(launch, ports, appUrl, active).app = props
      /\ computeAppContext(launch, ports, appUrl, active).endpoints = endpoints
  BY DEF computeAppContext
<1> HIDE DEF published, primary
<1>3. url[1] # "url" BY <1>1 DEF Empty
<1> HIDE DEF url
<1>4. AllOpen(held, props) /\ "url" \in DOMAIN props
  <2>1. <<"name">>[1] # "url" OBVIOUS
  <2> QED BY <1>3, <2>1 DEF AllOpen, Opening
<1>5. \A p \in named : public(p)[1] # "url" BY <1>1, <1>3 DEF Empty
<1> HIDE DEF public
<1>6. AllOpen(held, endpoints) BY <1>5 DEF AllOpen, Opening
<1> QED BY <1>2, <1>4, <1>6

-----------------------------------------------------------------------------
(* Through launchToCompose. *)

Work ==
  /\ OutShape(out) /\ CurShape(cur)
  /\ OpenContext(stored.passwords, ctx)
  /\ AllOpen(stored.passwords, cur.env)
  /\ Serving(stored.passwords, out.services)

Held(s) == s.passwords ++ Restrict(s.secrets, DOMAIN s.secrets \cap ResourcePasswordKeys)

LEMMA BeginsOpen ==
  ASSUME NEW o, NEW held, StateShape(held), AllDrawn(held), launchToCompose(o, held)
  PROVE  Work' /\ AllDrawn(stored') /\ stored'.passwords = Held(held)
<1> DEFINE carried == DOMAIN held.secrets \cap ResourcePasswordKeys
           left == DOMAIN held.secrets \ (carried \ o.launch.secrets)
           kept == Restrict(held.secrets, left)
           moved == migrateResourcePasswords(held, o.launch.secrets)
           minted == Mint(moved.secrets, o.launch.secrets, "secret", o.round)
           active == planCertificates(o.launch, o.resources).active
           app == computeAppContext(o.launch, o.hostPorts, o.appUrl, active)
<1>1. /\ StateShape(stored')
      /\ stored'.secrets = Mint(kept, o.launch.secrets, "secret", o.round)
      /\ stored'.passwords = held.passwords ++ Restrict(held.secrets, carried)
      /\ stored'.generated = held.generated
  BY BeginsWith
<1>2. stored'.passwords = Held(held) BY <1>1 DEF Held
<1>3. Drawn(held.passwords ++ Restrict(held.secrets, carried)) /\ Drawn(kept)
  BY DEF AllDrawn, Drawn, ++, Restrict
<1> HIDE DEF kept
<1>4. AllDrawn(stored') BY <1>1, <1>3, MintDrawn DEF AllDrawn
<1>5. stored' = [moved EXCEPT !.secrets = minted] /\ cur' = NoComponent
      /\ \E key : out' = [NothingEmitted EXCEPT !.primary = key]
  BY DEF launchToCompose
<1>6. ctx' = [resources |-> <<>>, resource |-> <<>>, components |-> <<>>,
              storage |-> <<>>, secrets |-> declaredSecrets(o.launch.secrets, minted),
              app |-> app.app, appEndpoints |-> app.endpoints,
              uses |-> declaredUses(o.launch), active |-> active]
  BY Zenon DEF launchToCompose
<1>7. \A P : AllOpen(P, app.app) /\ "url" \in DOMAIN app.app /\ AllOpen(P, app.endpoints)
  BY AppOpen
<1>8. minted = stored'.secrets
  <2>1. \E s : moved = [secrets |-> s, passwords |-> moved.passwords, generated |-> moved.generated,
                        appUrl |-> moved.appUrl]
    <3>1. PICK s, p, g, u : held = [secrets |-> s, passwords |-> p, generated |-> g, appUrl |-> u]
      BY Zenon DEF StateShape
    <3> DEFINE p2 == held.passwords ++ Restrict(held.secrets, carried)
               s2 == Restrict(held.secrets, left)
    <3>2. moved = [held EXCEPT !.passwords = p2, !.secrets = s2]
      BY Zenon DEF migrateResourcePasswords
    <3> HIDE DEF moved, p2, s2
    <3>3. moved = [secrets |-> s2, passwords |-> p2, generated |-> g, appUrl |-> u]
      BY <3>1, <3>2
    <3> QED BY <3>3
  <2> HIDE DEF moved, minted
  <2> QED BY <1>5, <2>1
<1> HIDE DEF app, minted, active
<1>9. Drawn(declaredSecrets(o.launch.secrets, minted))
  BY <1>4, <1>8 DEF AllDrawn, Drawn, declaredSecrets, Restrict
<1>10. \A P : AllOpen(P, declaredSecrets(o.launch.secrets, minted)) /\ AllOpen(P, <<>>)
  BY <1>9, DrawnOpen DEF AllOpen
<1>11. OpenContext(stored'.passwords, ctx') BY <1>6, <1>7, <1>10 DEF OpenContext
<1>12. /\ OutShape(out') /\ CurShape(cur') /\ cur'.env = <<>> /\ out'.services = <<>>
  BY <1>5 DEF NothingEmitted, NoComponent, OutShape, CurShape
<1> QED BY <1>2, <1>4, <1>10, <1>11, <1>12 DEF Work, Serving

\* A component's own variables are generated or resolved.
LEMMA VariablesOpen ==
  ASSUME NEW held, NEW context, OpenContext(held, context), NEW c, NEW generated,
         Drawn(generated), {<<c, v>> : v \in Kept(c)} \subseteq DOMAIN generated
  PROVE  AllOpen(held, [v \in Answered(c) |-> resolveEnvVar(c, v, generated, context)])
<1>1. ASSUME NEW v \in Answered(c) PROVE Opening(held, resolveEnvVar(c, v, generated, context))
  <2>1. CASE Comp(c).env[v].kind \in {"secret", "uuid"}
    <3>1. <<c, v>> \in DOMAIN generated BY <2>1, <1>1 DEF Answered, Kept
    <3>2. resolveEnvVar(c, v, generated, context) = generated[<<c, v>>]
      BY <2>1 DEF resolveEnvVar
    <3> QED BY <3>1, <3>2 DEF Drawn, Opening
  <2>2. CASE Comp(c).env[v].kind = "port"
    <3>1. resolveEnvVar(c, v, generated, context) = <<"minted", opts.round, "port", <<c, v>>>>
      BY <2>2 DEF resolveEnvVar
    <3> QED BY <3>1 DEF Opening
  <2>3. CASE Comp(c).env[v].kind = "default"
    <3>1. resolveEnvVar(c, v, generated, context) = resolveExpression(Comp(c).env[v].ref, context)
      BY <2>3 DEF resolveEnvVar
    <3> QED BY <3>1, ResolveOpen
  <2> QED BY <1>1, <2>1, <2>2, <2>3 DEF Answered
<1> QED BY <1>1 DEF AllOpen

LEMMA TranslateOpen ==
  ASSUME Work, StateShape(stored), AllDrawn(stored), NEW c, Translate(c)
  PROVE  Work' /\ AllDrawn(stored') /\ stored'.passwords = stored.passwords
<1> DEFINE addressed == IF Comp(c).provides = <<>> THEN ctx
                        ELSE [ctx EXCEPT !.components = Only(c, componentProperties(c)) ++ @]
           generated == Generated(c, stored.generated)
           env == [v \in Answered(c) |-> resolveEnvVar(c, v, generated, Within(c, addressed))]
<1>1. CASE Fail
  BY <1>1 DEF Fail, Work
<1>2. ASSUME /\ stored' = [stored EXCEPT !.generated = generated]
             /\ ctx' = addressed
             /\ cur' = [name |-> c, env |-> env, needs |-> <<>>, todo |-> Entries(Comp(c)),
                        granted |-> HostOutcome(c).granted]
             /\ out' = [out EXCEPT !.ports = Published(c) ++ @]
      PROVE  Work' /\ AllDrawn(stored') /\ stored'.passwords = stored.passwords
  <2> DEFINE P == stored.passwords
  <2>1. Drawn(generated) /\ {<<c, v>> : v \in Kept(c)} \subseteq DOMAIN generated
    <3>1. Drawn(generated) BY MintDrawn DEF Generated, AllDrawn
    <3>2. {<<c, v>> : v \in Kept(c)} \subseteq DOMAIN generated BY DEF Generated, Mint, ++
    <3> QED BY <3>1, <3>2
  <2>2. AllOpen(P, componentProperties(c))
    BY DEF componentProperties, AllOpen, Opening, Only, ++
  <2>3. OpenContext(P, addressed)
    <3>1. CASE Comp(c).provides = <<>> BY <3>1 DEF Work
    <3>2. CASE Comp(c).provides # <<>>
      <4> DEFINE props == componentProperties(c)
      <4>1. addressed = [ctx EXCEPT !.components = Only(c, props) ++ @] BY <3>2
      <4> HIDE DEF props, addressed
      <4>2. AllOpen(P, props) BY <2>2 DEF props
      <4>3. addressed.components = Only(c, props) ++ ctx.components
        BY <4>1 DEF Work, OpenContext
      <4>4. \A d \in DOMAIN addressed.components : AllOpen(P, addressed.components[d])
        BY <4>2, <4>3 DEF Work, OpenContext, Only, ++
      <4> QED BY <4>1, <4>4 DEF Work, OpenContext
    <3> QED BY <3>1, <3>2
  <2> HIDE DEF addressed, generated
  <2>4. OpenContext(P, Within(c, addressed)) BY <2>3, WithinOpen
  <2>5. AllOpen(P, env) BY <2>1, <2>4, VariablesOpen
  <2> HIDE DEF env
  <2>6. /\ stored'.passwords = P /\ stored'.generated = generated
        /\ stored'.secrets = stored.secrets
    BY <1>2 DEF StateShape
  <2>7. AllDrawn(stored') BY <2>1, <2>6 DEF AllDrawn
  <2>8. CurShape(cur') /\ cur'.env = env BY <1>2 DEF CurShape
  <2>9. OutShape(out') /\ out'.services = out.services BY <1>2 DEF Work, OutShape
  <2> HIDE DEF P
  <2>10. Work' BY <1>2, <2>3, <2>5, <2>6, <2>8, <2>9 DEF Work, P
  <2> QED BY <2>6, <2>7, <2>10 DEF P
<1>3. Fail \/ /\ stored' = [stored EXCEPT !.generated = generated]
              /\ ctx' = addressed
              /\ cur' = [name |-> c, env |-> env, needs |-> <<>>, todo |-> Entries(Comp(c)),
                         granted |-> HostOutcome(c).granted]
              /\ out' = [out EXCEPT !.ports = Published(c) ++ @]
  BY Zenon DEF Translate
<1> HIDE DEF addressed, generated, env
<1> QED BY <1>1, <1>2, <1>3

\* An entry is wired with what opens.
LEMMA WireOpen ==
  ASSUME NEW held, OpenContext(held, ctx), AllOpen(held, cur.env), CurShape(cur),
         NEW properties, AllOpen(held, properties), NEW needs, Wire(properties, needs)
  PROVE  OpenContext(held, ctx') /\ AllOpen(held, cur'.env) /\ CurShape(cur')
<1> DEFINE context == [ctx EXCEPT !.resources = Only(Entry.key, properties) ++ @]
           env == Injected(properties, context)
<1>1. OpenContext(held, context)
  <2>1. context.resources = Only(Entry.key, properties) ++ ctx.resources
    BY DEF OpenContext
  <2>2. \A k \in DOMAIN context.resources : AllOpen(held, context.resources[k])
    BY <2>1 DEF OpenContext, Only, ++
  <2> QED BY <2>2 DEF OpenContext
<1>2. UNCHANGED <<ctx, cur>> \/
        (ctx' = context /\ cur' = [cur EXCEPT !.env = env ++ @, !.needs = needs ++ @, !.todo = Tail(@)])
  BY Zenon DEF Wire
<1> HIDE DEF context
<1>3. AllOpen(held, env) BY <1>1, InjectedOpen
<1> HIDE DEF env
<1>4. CASE UNCHANGED <<ctx, cur>> BY <1>4
<1>5. CASE ctx' = context /\ cur' = [cur EXCEPT !.env = env ++ @, !.needs = needs ++ @, !.todo = Tail(@)]
  <2>1. CurShape(cur') /\ cur'.env = env ++ cur.env BY <1>5 DEF CurShape
  <2> QED BY <1>1, <1>3, <1>5, <2>1, OpenOver
<1> QED BY <1>2, <1>4, <1>5

LEMMA EntryOpen ==
  ASSUME Work, WireHost \/ applySuppliedResource \/ OmitOptional
  PROVE  Work' /\ stored' = stored
<1> DEFINE P == stored.passwords
<1>1. stored' = stored /\ out' = out
  BY DEF WireHost, applySuppliedResource, OmitOptional
<1>2. CASE WireHost
  <2> DEFINE props == [p \in opts.policy[Entry.type].props |-> <<"granted", Entry.type, p>>]
             env == Injected(props, ctx) ++ cur.env
  <2>1. AllOpen(P, props) BY DEF AllOpen, Opening
  <2>2. /\ ctx' = ctx
        /\ cur' = [cur EXCEPT !.todo = Tail(@), !.env = IF Entry \in cur.granted THEN env ELSE cur.env]
    BY <1>2 DEF WireHost, Work, CurShape
  <2> HIDE DEF props
  <2>3. AllOpen(P, env) BY <2>1, InjectedOpen, OpenOver DEF Work
  <2> HIDE DEF env
  <2>4. CurShape(cur') /\ AllOpen(P, cur'.env)
    BY <2>2, <2>3 DEF Work, CurShape
  <2> QED BY <1>1, <2>2, <2>4 DEF Work
<1>3. CASE OmitOptional
  <2>1. ctx' = ctx /\ cur' = [cur EXCEPT !.todo = Tail(@)] BY <1>3 DEF OmitOptional
  <2>2. CurShape(cur') /\ cur'.env = cur.env BY <2>1 DEF Work, CurShape
  <2> QED BY <1>1, <2>1, <2>2 DEF Work
<1>4. CASE applySuppliedResource
  <2>1. Wire(SatisfiedBy(Entry), <<>>) BY <1>4 DEF applySuppliedResource
  <2>2. AllOpen(P, OriginProperties)
    BY OpenOnly DEF OriginProperties, Work, OpenContext, AllOpen
  <2>3. AllOpen(P, SuppliedProperties(Entry.key))
    BY DEF SuppliedProperties, AllOpen, Opening
  <2>4. AllOpen(P, SatisfiedBy(Entry)) BY <2>2, <2>3 DEF SatisfiedBy
  <2>5. OpenContext(P, ctx') /\ AllOpen(P, cur'.env) /\ CurShape(cur')
    BY <2>1, <2>4, WireOpen DEF Work
  <2> QED BY <1>1, <2>5 DEF Work
<1> QED BY <1>1, <1>2, <1>3, <1>4

LEMMA ProvisionOpen ==
  ASSUME Work, StateShape(stored), AllDrawn(stored), Provision
  PROVE  Work' /\ AllDrawn(stored') /\ KeptIn(stored.passwords, stored'.passwords)
<1> DEFINE type == Entry.type
           P == Mint(stored.passwords, passwordKeys(type), "password", opts.round)
<1>1. PICK uses, indexes :
        /\ stored' = [stored EXCEPT !.passwords = P]
        /\ out' = [out EXCEPT !.services = addBackingService(type, P)]
        /\ Wire(withCoveredUses(type, uses, Properties(type, P), indexes), Only(type, "healthy"))
  BY Zenon DEF Provision
<1>2. Drawn(P) BY MintDrawn DEF AllDrawn
<1>3. KeptIn(stored.passwords, P) BY MintKeeps
<1>4. passwordKeys(type) \subseteq DOMAIN P BY DEF Mint, ++
<1>5. Serving(stored.passwords, out.services) /\ OutShape(out) BY DEF Work
<1> HIDE DEF P, type
<1>6. AllOpen(P, withCoveredUses(type, uses, Properties(type, P), indexes))
  BY <1>2, <1>4, CoveredOpen
<1>7. OpenContext(P, ctx) /\ AllOpen(P, cur.env) /\ CurShape(cur)
  BY <1>3, ContextMore, OpenMore DEF Work
<1>8. OpenContext(P, ctx') /\ AllOpen(P, cur'.env) /\ CurShape(cur')
  BY <1>1, <1>6, <1>7, WireOpen
<1>9. /\ stored'.passwords = P /\ stored'.secrets = stored.secrets
      /\ stored'.generated = stored.generated
  BY <1>1 DEF StateShape
<1>10. OutShape(out') /\ out'.services = addBackingService(type, P)
  BY <1>1, <1>5 DEF OutShape
<1>11. Serving(P, out.services) BY <1>3, <1>5, ServingMore
<1>12. Serving(P, addBackingService(type, P))
  <2>1. CASE type \in DOMAIN out.services BY <1>11, <2>1 DEF addBackingService
  <2>2. CASE type \notin DOMAIN out.services
    <3> DEFINE env == Restrict(P, passwordKeys(type))
    <3>1. AllOpen(P, env) BY <1>2, <1>4 DEF AllOpen, Restrict, Drawn, Opening
    <3>2. type \in passwordKeys(type) => type \in DOMAIN P /\ env[type] = P[type]
      BY <1>4 DEF Restrict
    <3>3. \E service : /\ service.env = env
                       /\ addBackingService(type, P) = Only(type, service) ++ out.services
      <4> HIDE DEF env
      <4> DEFINE service == [backing |-> TRUE, env |-> env,
                 needs |-> <<>>, checked |-> TRUE, onNetwork |-> TRUE,
                 databases |-> namedDatabasesByType(type), creator |-> cur.name,
                 mounts |-> {}]
      <4>1. addBackingService(type, P) = Only(type, service) ++ out.services
        BY <2>2, Zenon DEF addBackingService, env
      <4>2. service.env = env OBVIOUS
      <4> QED BY <4>1, <4>2
    <3> HIDE DEF env
    <3> QED BY <1>11, <3>1, <3>2, <3>3 DEF Serving, Only, ++
  <2> QED BY <2>1, <2>2
<1>13. Work' BY <1>8, <1>9, <1>10, <1>12 DEF Work
<1>14. AllDrawn(stored') BY <1>2, <1>9 DEF AllDrawn
<1> QED BY <1>3, <1>9, <1>13, <1>14

LEMMA EmitOpen ==
  ASSUME Work, Emit PROVE Work' /\ stored' = stored
<1> DEFINE c == cur.name
           P == stored.passwords
<1>1. stored' = stored /\ ctx' = ctx /\ cur' = NoComponent BY DEF Emit
<1>2. \E service, asked :
        /\ service.backing = FALSE /\ service.env = cur.env ++ [v \in asked |-> <<"operator", v>>]
        /\ out'.services = Only(c, service) ++ out.services /\ OutShape(out')
  <2> DEFINE asked == unsuppliedRequiredEnv(Comp(c), DOMAIN cur.env) \cap opts.operatorEnv
             bound == {v \in OperatorVolumes(c) : lookup(opts.storagePaths, c, v) # Undefined}
             own   == DOMAIN Comp(c).storage \ OperatorVolumes(c)
             env == cur.env ++ [v \in asked |-> <<"operator", v>>]
             service == [backing |-> FALSE, env |-> env,
                         needs |-> Comp(c).depends ++ cur.needs, checked |-> Comp(c).checked,
                         onNetwork |-> OnNetwork(opts.policy, cur.granted),
                         databases |-> {}, creator |-> c, mounts |-> own \cup bound]
             exit == IF Restart(c) \in {"no", "on-failure"} THEN out.mayExit \cup {c}
                     ELSE out.mayExit
             supply == out.unsupplied \cup {<<c, v>> : v \in Unsupplied(c)}
             unbound == out.unbound \cup {<<c, v>> : v \in OperatorVolumes(c) \ bound}
             binds == out.binds \cup {<<c, v>> : v \in bound}
             components == out.components \cup {c}
  <2>1. out' = [out EXCEPT !.services = Only(c, service) ++ @, !.components = components,
                           !.mayExit = exit, !.unsupplied = supply, !.unbound = unbound,
                           !.binds = binds]
    BY Zenon DEF Emit
  <2>2. service.backing = FALSE /\ service.env = env OBVIOUS
  <2> HIDE DEF service, exit, supply, unbound, binds, components
  <2>3. OutShape(out') /\ out'.services = Only(c, service) ++ out.services
    BY <2>1 DEF Work, OutShape
  <2> QED BY <2>2, <2>3
<1>3. \A asked : AllOpen(P, [v \in asked |-> <<"operator", v>>]) BY DEF AllOpen, Opening
<1>4. \A asked : AllOpen(P, cur.env ++ [v \in asked |-> <<"operator", v>>])
  BY <1>3, OpenOver DEF Work
<1> HIDE DEF c
<1>5. Serving(P, out'.services)
  <2>1. PICK service : /\ service.backing = FALSE /\ AllOpen(P, service.env)
                       /\ out'.services = Only(c, service) ++ out.services
    BY <1>2, <1>4
  <2>2. Serving(P, out.services) BY DEF Work
  <2> HIDE DEF P
  <2>3. ASSUME NEW s \in DOMAIN out'.services
        PROVE  /\ AllOpen(P, out'.services[s].env)
               /\ out'.services[s].backing /\ s \in passwordKeys(s) =>
                    s \in DOMAIN P /\ out'.services[s].env[s] = P[s]
    <3>1. CASE s = c
      <4>1. out'.services[s] = service BY <2>1, <3>1 DEF Only, ++
      <4> QED BY <2>1, <4>1
    <3>2. CASE s # c
      <4>1. s \in DOMAIN out.services /\ out'.services[s] = out.services[s]
        BY <2>1, <2>3, <3>2 DEF Only, ++
      <4> QED BY <2>2, <4>1 DEF Serving
    <3> QED BY <3>1, <3>2
  <2> QED BY <2>3 DEF Serving
<1>6. CurShape(cur') /\ AllOpen(P, cur'.env)
  <2>1. CurShape(cur') /\ cur'.env = <<>> BY <1>1 DEF CurShape, NoComponent
  <2>2. \A held : AllOpen(held, <<>>) BY DEF AllOpen
  <2> QED BY <2>1, <2>2
<1> QED BY <1>1, <1>2, <1>5, <1>6 DEF Work

LEMMA TranslatesOpen ==
  ASSUME Work, StateShape(stored), AllDrawn(stored), Translates
  PROVE  Work' /\ AllDrawn(stored') /\ KeptIn(stored.passwords, stored'.passwords)
<1>0. KeptIn(stored.passwords, stored.passwords) BY DEF KeptIn
<1>1. ASSUME NEW c, Skip(c) PROVE Work' /\ stored' = stored
  <2>1. OutShape(out') /\ out'.services = out.services
    BY <1>1 DEF Skip, Work, OutShape
  <2> QED BY <1>1, <2>1 DEF Skip, Work
<1>2. ASSUME Return PROVE Work' /\ stored' = stored
  BY <1>2 DEF Return, Work
<1> QED BY <1>0, <1>1, <1>2, TranslateOpen, EntryOpen, ProvisionOpen, EmitOpen
       DEF Translates, Generate

-----------------------------------------------------------------------------
(* Through `up` and `down`. *)

\* What a volume was initialised with is held.
Baked(held) ==
  \A t \in DOMAIN volumes : t \in passwordKeys(t) => t \in DOMAIN held /\ volumes[t].env[t] = held[t]

\* Nothing on the machine but what state.json opens.
Opened ==
  IF disk = Absent THEN volumes = <<>> /\ containers = <<>>
  ELSE /\ Baked(Held(disk)) /\ Serving(Held(disk), containers)
       /\ file # Absent => Serving(Held(disk), file)

IOpens ==
  /\ IMinted
  /\ disk # Absent => AllDrawn(disk)
  /\ at \in Generating => AllDrawn(stored) /\ Work
  /\ at \in Generating /\ ~run.embedded /\ disk # Absent => KeptIn(Held(disk), stored.passwords)
  /\ disk = Absent => file = Absent
  /\ at \in {"prepare", "plan", "release"} => disk # Absent /\ (odd \/ Serving(Held(disk), file))
  /\ odd \/ Opened

\* launchToCompose ends with a result or by throwing.
LEMMA TranslatesOn ==
  ASSUME Translates PROVE at' \in Generating \cup {"thrown"}
<1>1. ASSUME NEW c, Skip(c) \/ Translate(c) PROVE at' \in Generating \cup {"thrown"}
  BY <1>1 DEF Skip, Translate, Fail, Generating
<1>2. ASSUME NEW properties, NEW needs, Wire(properties, needs), at = "entry"
      PROVE  at' \in Generating \cup {"thrown"}
  BY <1>2 DEF Wire, Generating
<1>3. CASE WireHost \/ OmitOptional \/ Emit \/ Return
  BY <1>3 DEF WireHost, OmitOptional, Emit, Return, AtEntry, Generating
<1>4. CASE applySuppliedResource BY <1>2, <1>4 DEF applySuppliedResource, AtEntry
<1>5. CASE Provision
  <2>1. at = "entry" /\ \E properties, needs : Wire(properties, needs)
    BY <1>5 DEF Provision, AtEntry
  <2> QED BY <1>2, <2>1
<1> QED BY <1>1, <1>3, <1>4, <1>5 DEF Translates, Generate

LEMMA BringOpens ==
  ASSUME Opened, disk # Absent, Serving(Held(disk), file), NEW services, Bring(services),
         UNCHANGED <<disk, file>>
  PROVE  Opened'
<1> DEFINE there == services \cap DOMAIN file
           H == Held(disk)
<1>1. Baked(H) /\ Serving(H, containers) /\ Serving(H, file) BY DEF Opened
<1>2. containers' = Restrict(file, there) ++ containers /\ volumes' = volumes ++ Initialised(there)
  BY DEF Bring
<1>3. H' = H BY DEF Held
<1> HIDE DEF H
<1>4. Serving(H, containers')
  <2>1. Serving(H, Restrict(file, there)) BY <1>1 DEF Serving, Restrict
  <2> HIDE DEF there
  <2> QED BY <1>1, <1>2, <2>1 DEF Serving, ++
<1>5. ASSUME NEW t \in DOMAIN volumes', t \in passwordKeys(t)
      PROVE  t \in DOMAIN H /\ volumes'[t].env[t] = H[t]
  <2>1. CASE t \in DOMAIN volumes
    <3>1. volumes'[t] = volumes[t] BY <1>2, <2>1 DEF ++
    <3> QED BY <1>1, <1>5, <2>1, <3>1 DEF Baked
  <2>2. CASE t \notin DOMAIN volumes
    <3>1. t \in DOMAIN Initialised(there) /\ volumes'[t] = Initialised(there)[t]
      BY <1>2, <1>5, <2>2 DEF ++
    <3>2. t \in DOMAIN file /\ file[t].backing /\ volumes'[t].env = file[t].env
      BY <3>1 DEF Initialised
    <3> QED BY <1>1, <1>5, <3>2 DEF Serving
  <2> QED BY <2>1, <2>2
<1>6. Baked(H)' BY <1>3, <1>5 DEF Baked
<1> QED BY <1>1, <1>3, <1>4, <1>6 DEF Opened, H

LEMMA OpensStep ==
  ASSUME IOpens, [Next]_vars PROVE IOpens'
<1>0. IMinted' /\ IMinted BY MintedStep DEF IOpens
<1>1. ASSUME NEW launch \in Launches, NEW request \in Requests, Up(launch, request)
      PROVE  IOpens'
  <2> DEFINE state == IF disk = Absent THEN initState ELSE disk
  <2>1. StateShape(state) /\ AllDrawn(state) /\ (disk # Absent => state = disk)
    BY <1>0 DEF IOpens, IMinted, Shapes, StateShape, initState, AllDrawn, Drawn
  <2>2. /\ \E o : launchToCompose(o, state)
        /\ at' = "component" /\ UNCHANGED <<disk, file, volumes, containers, odd>>
    BY <1>1 DEF Up, launchToCompose
  <2> HIDE DEF state
  <2>3. Work' /\ AllDrawn(stored') /\ stored'.passwords = Held(state)
    BY <2>1, <2>2, BeginsOpen
  <2>4. disk # Absent => KeptIn(Held(disk), stored'.passwords)
    BY <2>1, <2>3 DEF KeptIn
  <2> QED BY <1>0, <2>2, <2>3, <2>4 DEF IOpens, Opened, Baked, Held
<1>2. ASSUME NEW launch \in Launches, NEW supply \in Embeddings, Embed(launch, supply)
      PROVE  IOpens'
  <2>1. StateShape(initState) /\ AllDrawn(initState)
    BY DEF StateShape, initState, AllDrawn, Drawn
  <2>2. /\ \E o : launchToCompose(o, initState)
        /\ at' = "component" /\ UNCHANGED <<disk, file, volumes, containers, odd>>
        /\ run'.embedded
    BY <1>2 DEF Embed, launchToCompose, NoRun
  <2>3. Work' /\ AllDrawn(stored') BY <2>1, <2>2, BeginsOpen
  <2> QED BY <1>0, <2>2, <2>3 DEF IOpens, Opened, Baked, Held
<1>3. CASE Translates
  <2>1. UNCHANGED <<disk, file, volumes, containers, run, odd>> BY <1>3 DEF Translates, upVars
  <2>2. at \in Generating /\ StateShape(stored)
    BY <1>0, <1>3, TranslateExtends DEF IMinted, Shapes
  <2>3. Work' /\ AllDrawn(stored') /\ KeptIn(stored.passwords, stored'.passwords)
    BY <1>3, <2>2, TranslatesOpen DEF IOpens
  <2>4. ~run.embedded /\ disk # Absent => KeptIn(Held(disk), stored'.passwords)
    BY <2>2, <2>3, KeptInTransitive DEF IOpens
  <2>5. at' \notin {"prepare", "plan", "release"} BY <1>3, TranslatesOn DEF Generating
  <2> QED BY <1>0, <2>1, <2>3, <2>4, <2>5 DEF IOpens, Opened, Baked, Held
<1>4. CASE WriteFiles
  <2>1. /\ at = "returned" /\ ~run.embedded /\ at' = "prepare"
        /\ disk' = [stored EXCEPT !.appUrl = opts.appUrl] /\ file' = out.services
        /\ UNCHANGED <<volumes, containers, odd>>
    BY <1>4 DEF WriteFiles
  <2>2. /\ disk'.passwords = stored.passwords /\ disk'.generated = stored.generated
        /\ disk'.secrets = stored.secrets
    BY <1>0, <2>1 DEF IMinted, Shapes, StateShape
  <2>3. AllDrawn(stored) /\ Work BY <2>1 DEF IOpens, Generating
  <2>4. KeptIn(stored.passwords, Held(disk')) BY <2>2 DEF Held, KeptIn, ++
  <2>5. Serving(Held(disk'), file')
    BY <2>1, <2>3, <2>4, ServingMore DEF Work
  <2>6. ASSUME Opened PROVE Baked(Held(disk))' /\ Serving(Held(disk'), containers')
    <3>1. CASE disk = Absent
      <4>1. volumes' = <<>> /\ containers' = <<>> BY <2>1, <2>6, <3>1 DEF Opened
      <4> QED BY <4>1 DEF Baked, Serving
    <3>2. CASE disk # Absent
      <4>1. KeptIn(Held(disk), Held(disk'))
        BY <2>1, <2>4, <3>2, KeptInTransitive DEF IOpens, Generating
      <4>2. Baked(Held(disk)) /\ Serving(Held(disk), containers) BY <2>6, <3>2 DEF Opened
      <4>3. Serving(Held(disk'), containers) BY <4>1, <4>2, ServingMore
      <4>4. \A t \in DOMAIN volumes : t \in passwordKeys(t) =>
              t \in DOMAIN Held(disk') /\ volumes[t].env[t] = Held(disk')[t]
        BY <4>1, <4>2 DEF Baked, KeptIn
      <4> QED BY <2>1, <4>3, <4>4 DEF Baked
    <3> QED BY <3>1, <3>2
  <2>7. disk' # Absent
    <3>1. StateShape(disk') BY <1>0, <2>1 DEF IMinted, Shapes, StateShape
    <3> QED BY <3>1, StateApart
  <2>8. AllDrawn(disk') BY <2>2, <2>3 DEF AllDrawn
  <2>9. odd' \/ Opened'
    <3>1. odd \/ Opened BY DEF IOpens
    <3>2. Opened => Opened' BY <2>5, <2>6, <2>7 DEF Opened
    <3> QED BY <2>1, <3>1, <3>2
  <2>10. (at \in {"prepare", "plan", "release"} => disk # Absent /\ (odd \/ Serving(Held(disk), file)))'
    BY <2>5, <2>7
  <2> QED BY <1>0, <2>1, <2>7, <2>8, <2>9, <2>10 DEF IOpens, Generating
<1>5. CASE Deploys
  <2>1. /\ at' \notin Generating /\ (at' # "idle" => at \in {"prepare", "plan", "release"})
        /\ UNCHANGED <<disk, file, odd>>
        /\ UNCHANGED <<containers, volumes>> \/ (at = "release" /\ \E services : Bring(services))
    BY <1>5 DEF Deploys
  <2>2. odd' \/ Opened'
    <3>1. CASE odd BY <2>1, <3>1
    <3>2. CASE ~odd /\ UNCHANGED <<containers, volumes>>
      BY <2>1, <3>2 DEF IOpens, Opened, Baked, Held
    <3>3. CASE ~odd /\ at = "release" /\ \E services : Bring(services)
      <4>1. Opened /\ disk # Absent /\ Serving(Held(disk), file) BY <3>3 DEF IOpens
      <4> QED BY <2>1, <3>3, <4>1, BringOpens
    <3> QED BY <2>1, <3>1, <3>2, <3>3
  <2>3. (at \in {"prepare", "plan", "release"} => disk # Absent /\ (odd \/ Serving(Held(disk), file)))'
    BY <2>1 DEF IOpens, Generating, Held
  <2> QED BY <1>0, <2>1, <2>2, <2>3 DEF IOpens
<1>6. CASE Down
  <2>1. /\ at = "idle" /\ at' = at /\ disk # Absent /\ UNCHANGED <<disk, file, volumes, odd>>
        /\ containers' = containers \/ containers' = NotOfFile(containers)
    BY <1>6 DEF Down, genVars
  <2>2. Opened => Opened'
    <3>1. \A held : Serving(held, containers) => Serving(held, NotOfFile(containers))
      BY DEF NotOfFile, Restrict, Serving
    <3> QED BY <2>1, <3>1 DEF Opened, Baked, Held
  <2> QED BY <1>0, <2>1, <2>2 DEF IOpens, Generating
<1>7. ASSUME NEW stopped \in BOOLEAN, Destroy(stopped) PROVE IOpens'
  <2>1. /\ at = "idle" /\ at' = at /\ disk' = Absent /\ file' = Absent
        /\ odd' = (odd \/ volumes' # <<>> \/ containers' # <<>>)
    BY <1>7 DEF Destroy, genVars
  <2> QED BY <1>0, <2>1 DEF IOpens, Opened, Generating
<1>8. CASE UNCHANGED vars
  <2>1. /\ UNCHANGED <<at, opts, stored, todo, cur, ctx, out>>
        /\ UNCHANGED <<disk, file, volumes, containers, run, odd>>
    BY <1>8 DEF vars, genVars, upVars
  <2> QED BY <1>0, <2>1 DEF IOpens, Opened, Baked, Held, Work
<1> QED BY <1>1, <1>2, <1>3, <1>4, <1>5, <1>6, <1>7, <1>8, Kinds

LEMMA OpensInit == Init => IOpens
<1> SUFFICES ASSUME Init PROVE IOpens OBVIOUS
<1>1. IMinted BY DEF Init, IMinted, Shapes, StateShape, Legacy, initState, Generating
<1>2. /\ at = "idle" /\ file = Absent /\ containers = <<>>
      /\ \/ disk = Absent /\ volumes = <<>>
         \/ /\ disk = Legacy
            /\ volumes = Only("postgres", [env |-> Legacy.secrets, databases |-> {}])
  BY DEF Init
<1> DEFINE pw == <<"minted", 0, "secret", "postgres">>
<1>3. /\ Legacy.secrets = Only("postgres", pw) /\ Legacy.passwords = <<>>
      /\ Legacy.generated = <<>>
  BY DEF Legacy, initState
<1>4. AllDrawn(Legacy)
  <2>1. pw[1] = "minted" OBVIOUS
  <2> HIDE DEF pw
  <2> QED BY <1>3, <2>1 DEF AllDrawn, Drawn, Only
<1> HIDE DEF pw
<1>5. Legacy # Absent
  <2>1. StateShape(Legacy) BY DEF StateShape, Legacy, initState
  <2> QED BY <2>1, StateApart
<1>6. CASE disk = Absent BY <1>1, <1>2, <1>6, <1>5 DEF IOpens, Generating, Opened
<1>7. CASE disk = Legacy /\ volumes = Only("postgres", [env |-> Legacy.secrets, databases |-> {}])
  <2>1. "postgres" \in ResourcePasswordKeys
    <3>1. "postgres" \in Factories /\ "postgres" \in passwordKeys("postgres")
      BY DEF Factories, SqlTypes, passwordKeys
    <3> QED BY <3>1 DEF ResourcePasswordKeys
  <2>2. "postgres" \in DOMAIN Held(Legacy) /\ Held(Legacy)["postgres"] = pw
    BY <1>3, <2>1 DEF Held, Only, Restrict, ++
  <2>3. Baked(Held(disk)) BY <1>3, <1>7, <2>2 DEF Baked, Only
  <2>4. Serving(Held(disk), containers) BY <1>2 DEF Serving
  <2> QED BY <1>1, <1>2, <1>4, <1>7, <1>5, <2>3, <2>4 DEF IOpens, Generating, Opened
<1> QED BY <1>2, <1>6, <1>7

LEMMA OpensImplies == IOpens => DatabaseOpens
<1> SUFFICES ASSUME IOpens, ~odd, NEW services \in {containers} \cup ({file} \ {Absent}),
                    NEW s \in DOMAIN services, NEW v \in DOMAIN services[s].env
             PROVE  Opens(services[s].env[v])
  BY DEF DatabaseOpens
<1>1. Opened BY DEF IOpens
<1>2. CASE disk = Absent
  BY <1>1, <1>2 DEF IOpens, Opened
<1>3. CASE disk # Absent
  <2> DEFINE H == Held(disk)
             url == services[s].env[v]
  <2>1. Baked(H) /\ Serving(H, services) BY <1>1, <1>3 DEF Opened
  <2>2. Opening(H, url) BY <2>1 DEF Serving, AllOpen
  <2> HIDE DEF H, url
  <2>3. Opens(url) BY <2>1, <2>2 DEF Opens, Opening, Baked, Credential
  <2> QED BY <2>3 DEF url
<1> QED BY <1>2, <1>3

\* Whatever was edited, refused or carried over from an old state.json in
\* between: a url in the file or in a container carries the password that the
\* volume of its database was initialised with, until `down --destroy` leaves
\* something behind.
THEOREM DatabaseOpensAlways == Spec => []DatabaseOpens
<1>1. Init => IOpens BY OpensInit
<1>2. IOpens /\ [Next]_vars => IOpens' BY OpensStep
<1>3. IOpens => DatabaseOpens BY OpensImplies
<1> QED BY <1>1, <1>2, <1>3, PTL DEF Spec

-----------------------------------------------------------------------------
(* How the databases of redis are numbered. *)

\* Every set of naturals that has an element has a least one.
LEMMA Least ==
  ASSUME NEW T \in SUBSET Nat, T # {}
  PROVE  \E x \in T : \A y \in T : x <= y
<1>1. PICK m \in T : \A k \in T : <<k, m>> \notin OpToRel(<, Nat)
  BY WFMin, NatLessThanWellFounded, Zenon
<1>2. ASSUME NEW k \in T PROVE ~ (k < m)
  <2>1. <<k, m>> \in Nat \X Nat /\ <<k, m>>[1] = k /\ <<k, m>>[2] = m OBVIOUS
  <2>2. k < m => <<k, m>> \in OpToRel(<, Nat) BY <2>1, Zenon DEF OpToRel
  <2> QED BY <1>1, <2>2
<1> QED BY <1>2

LEMMA FirstPlace ==
  ASSUME NEW T \in SUBSET (Nat \X Nat), T # {}
  PROVE  \E p \in T : \A q \in T : p = q \/ p \prec q
<1>1. PICK i \in {p[1] : p \in T} : \A j \in {p[1] : p \in T} : i <= j
  <2>1. {p[1] : p \in T} \in SUBSET Nat /\ {p[1] : p \in T} # {} OBVIOUS
  <2> QED BY <2>1, Least
<1> DEFINE Row == {p \in T : p[1] = i}
<1>2. PICK n \in {p[2] : p \in Row} : \A m \in {p[2] : p \in Row} : n <= m
  <2>1. {p[2] : p \in Row} \in SUBSET Nat /\ {p[2] : p \in Row} # {} BY <1>1
  <2> QED BY <2>1, Least
<1>3. PICK p \in Row : p[2] = n BY <1>2
<1>4. ASSUME NEW q \in T PROVE p = q \/ p \prec q
  <2>1. p \in Nat \X Nat /\ q \in Nat \X Nat BY <1>3
  <2>2. p[1] <= q[1] BY <1>1, <1>3
  <2>3. q[1] = i => p[2] <= q[2] BY <1>2, <1>3
  <2> QED BY <1>3, <2>1, <2>2, <2>3 DEF \prec
<1> QED BY <1>3, <1>4

UseShape == STRING \X ({""} \cup ToSet(UseNames))

LEMMA UsesShaped ==
  ASSUME NEW launch \in Launches, NEW e \in Declared(launch)
  PROVE  e.uses \in Seq(UseShape) /\ useKeys(e) \subseteq UseShape
<1>1. PICK c \in Names(launch) : e \in ToSet(Entries(launch.comp[c])) BY DEF Declared
<1>2. e.uses \in Seq(UseShape) BY <1>1, UsesAssumption DEF UseShape
<1> QED BY <1>2 DEF useKeys, ToSet

\* A place is where an entry stands, and every entry stands somewhere.
LEMMA PlacesAreEntries ==
  ASSUME NEW launch \in Launches
  PROVE  /\ Places(launch) \subseteq Nat \X Nat
         /\ \A p \in Places(launch) : EntryAt(launch, p) \in Declared(launch)
         /\ \A e \in Declared(launch) : \E p \in Places(launch) : EntryAt(launch, p) = e
<1> DEFINE order == launch.order
           entries(i) == Entries(launch.comp[order[i]])
<1>1. order \in Seq(DOMAIN launch.comp) BY LaunchesAssumption
<1>2. ASSUME NEW i \in DOMAIN order
      PROVE  i \in Nat /\ order[i] \in Names(launch) /\ entries(i) \in Seq(Declared(launch))
  <2>1. i \in Nat /\ order[i] \in Names(launch) BY <1>1 DEF Names, ToSet
  <2> QED BY <2>1, EntriesDeclared
<1>3. ASSUME NEW p \in Places(launch)
      PROVE  p \in Nat \X Nat /\ EntryAt(launch, p) \in Declared(launch)
  <2>0. PICK i \in DOMAIN order : p \in {i} \X DOMAIN entries(i) BY DEF Places
  <2>1. PICK n \in DOMAIN entries(i) : p = <<i, n>> BY <2>0
  <2>2. i \in Nat /\ n \in Nat /\ entries(i)[n] \in Declared(launch)
    <3> HIDE DEF entries
    <3> QED BY <1>2, <2>1
  <2> QED BY <2>1, <2>2 DEF EntryAt
<1>4. ASSUME NEW e \in Declared(launch)
      PROVE  \E p \in Places(launch) : EntryAt(launch, p) = e
  <2>1. PICK i \in DOMAIN order : e \in ToSet(entries(i)) BY DEF Declared, Names, ToSet
  <2>2. PICK n \in DOMAIN entries(i) : e = entries(i)[n] BY <2>1 DEF ToSet
  <2>3. <<i, n>> \in Places(launch) BY <2>1, <2>2 DEF Places
  <2>4. EntryAt(launch, <<i, n>>) = e BY <2>2 DEF EntryAt
  <2> QED BY <2>3, <2>4
<1> QED BY <1>3, <1>4

\* What uses a database, and who declares that it does.
LEMMA DbUsesAre ==
  ASSUME NEW launch \in Launches, NEW x
  PROVE  x \in DbUses(launch) <=>
           /\ x = <<x[1], x[2]>> /\ x[2] \in UseShape /\ x[2][1] = "db"
           /\ \E e \in Declared(launch) :
                ~e.host /\ e.type = "redis" /\ e.key = x[1] /\ x[2] \in useKeys(e)
<1>1. ASSUME x \in DbUses(launch)
      PROVE  /\ x = <<x[1], x[2]>> /\ x[2] \in UseShape /\ x[2][1] = "db"
             /\ \E e \in Declared(launch) :
                  ~e.host /\ e.type = "redis" /\ e.key = x[1] /\ x[2] \in useKeys(e)
  <2>1. PICK p \in UsingDb(launch) : x \in {EntryAt(launch, p).key} \X dbKeys(EntryAt(launch, p))
    BY <1>1 DEF DbUses
  <2> DEFINE e == EntryAt(launch, p)
  <2>2. e \in Declared(launch) /\ ~e.host /\ e.type = "redis"
    BY <2>1, PlacesAreEntries DEF UsingDb
  <2>3. x = <<x[1], x[2]>> /\ x[1] = e.key /\ x[2] \in dbKeys(e) BY <2>1
  <2> HIDE DEF e
  <2> QED BY <2>2, <2>3, UsesShaped DEF dbKeys
<1>2. ASSUME x = <<x[1], x[2]>>, x[2][1] = "db", NEW e \in Declared(launch),
             ~e.host, e.type = "redis", e.key = x[1], x[2] \in useKeys(e)
      PROVE  x \in DbUses(launch)
  <2>1. PICK p \in Places(launch) : EntryAt(launch, p) = e BY PlacesAreEntries
  <2>2. x[2] \in dbKeys(e) BY <1>2 DEF dbKeys
  <2>3. p \in UsingDb(launch) BY <1>2, <2>1, <2>2 DEF UsingDb
  <2>4. x \in {e.key} \X dbKeys(e) BY <1>2, <2>2
  <2> QED BY <2>1, <2>3, <2>4 DEF DbUses
<1> QED BY <1>1, <1>2

LEMMA ImageFinite ==
  ASSUME NEW S, IsFiniteSet(S), NEW f, DOMAIN f = S PROVE IsFiniteSet({f[x] : x \in S})
<1> DEFINE T == {f[x] : x \in S}
           g == [x \in S |-> f[x]]
<1>1. g \in Surjection(S, T) BY DEF Surjection
<1> HIDE DEF T, g
<1> QED BY <1>1, FS_Surjection DEF T

LEMMA ElementsFinite ==
  ASSUME NEW S, NEW s \in Seq(S) PROVE IsFiniteSet(DOMAIN s) /\ IsFiniteSet(ToSet(s))
<1>1. DOMAIN s = 1..Len(s) /\ Len(s) \in Nat OBVIOUS
<1>2. IsFiniteSet(DOMAIN s) BY <1>1, FS_Interval
<1> QED BY <1>2, ImageFinite DEF ToSet

LEMMA DbUsesFinite ==
  ASSUME NEW launch \in Launches PROVE IsFiniteSet(DbUses(launch))
<1> DEFINE order == launch.order
           row == [i \in DOMAIN order |-> {i} \X DOMAIN Entries(launch.comp[order[i]])]
           pool == [p \in Places(launch) |->
                      {EntryAt(launch, p).key} \X useKeys(EntryAt(launch, p))]
<1>1. IsFiniteSet(DOMAIN order)
  <2>1. order \in Seq(DOMAIN launch.comp) BY LaunchesAssumption
  <2> QED BY <2>1, ElementsFinite
<1>2. ASSUME NEW i \in DOMAIN order PROVE IsFiniteSet(row[i])
  <2>1. order[i] \in Names(launch) BY DEF Names, ToSet
  <2>2. Entries(launch.comp[order[i]]) \in Seq(Declared(launch)) BY <2>1, EntriesDeclared
  <2>3. IsFiniteSet(DOMAIN Entries(launch.comp[order[i]])) BY <2>2, ElementsFinite
  <2>4. IsFiniteSet({i}) BY FS_Singleton
  <2> QED BY <2>3, <2>4, FS_Product
<1>3. Places(launch) = UNION {row[i] : i \in DOMAIN order} BY DEF Places
<1>4. DOMAIN row = DOMAIN order OBVIOUS
<1> HIDE DEF row, order
<1>5. IsFiniteSet(Places(launch))
  <2>1. IsFiniteSet({row[i] : i \in DOMAIN order}) BY <1>1, <1>4, ImageFinite
  <2>2. \A T \in {row[i] : i \in DOMAIN order} : IsFiniteSet(T) BY <1>2
  <2> QED BY <1>3, <2>1, <2>2, FS_UNION
<1>6. ASSUME NEW p \in Places(launch) PROVE IsFiniteSet(pool[p])
  <2>1. EntryAt(launch, p).uses \in Seq(UseShape) BY PlacesAreEntries, UsesShaped
  <2>2. IsFiniteSet(useKeys(EntryAt(launch, p))) BY <2>1, ElementsFinite DEF useKeys
  <2>3. IsFiniteSet({EntryAt(launch, p).key}) BY FS_Singleton
  <2> QED BY <2>2, <2>3, FS_Product
<1>7. DbUses(launch) \in SUBSET UNION {pool[p] : p \in Places(launch)}
  BY DEF DbUses, UsingDb, dbKeys
<1>8. DOMAIN pool = Places(launch) OBVIOUS
<1> HIDE DEF pool
<1>9. IsFiniteSet({pool[p] : p \in Places(launch)}) BY <1>5, <1>8, ImageFinite
<1>10. \A T \in {pool[p] : p \in Places(launch)} : IsFiniteSet(T) BY <1>6
<1>11. IsFiniteSet(UNION {pool[p] : p \in Places(launch)}) BY <1>9, <1>10, FS_UNION
<1> QED BY <1>7, <1>11, FS_Subset

LEMMA PlacesOfUse ==
  ASSUME NEW launch \in Launches, NEW x \in DbUses(launch)
  PROVE  /\ PlacesOf(launch, x[1]) # {} /\ PlacesOf(launch, x[1]) \in SUBSET (Nat \X Nat)
<1>1. PICK p \in UsingDb(launch) : x \in {EntryAt(launch, p).key} \X dbKeys(EntryAt(launch, p))
  BY DEF DbUses
<1>2. p \in PlacesOf(launch, x[1]) BY <1>1 DEF PlacesOf
<1>3. PlacesOf(launch, x[1]) \subseteq Places(launch) BY DEF PlacesOf, UsingDb
<1> QED BY <1>2, <1>3, PlacesAreEntries

LEMMA Ranks ==
  ASSUME NEW u \in UseShape
  PROVE  /\ Rank(u) \in Nat
         /\ \A v \in UseShape : Rank(u) = Rank(v) => u[2] = v[2]
<1>0. \A i \in DOMAIN UseNames : i \in Nat /\ i # 0
  <2>1. DOMAIN UseNames = 1..Len(UseNames) /\ Len(UseNames) \in Nat BY UseNamesAssumption
  <2> QED BY <2>1
<1>1. ASSUME NEW v \in UseShape
      PROVE  /\ Rank(v) \in Nat
             /\ v[2] = "" => Rank(v) = 0
             /\ v[2] # "" => Rank(v) \in DOMAIN UseNames /\ UseNames[Rank(v)] = v[2]
  <2>1. v[2] \in {""} \cup ToSet(UseNames) BY DEF UseShape
  <2>2. CASE v[2] = "" BY <2>2 DEF Rank
  <2>3. CASE v[2] # ""
    <3>1. \E i \in DOMAIN UseNames : UseNames[i] = v[2] BY <2>1, <2>3 DEF ToSet
    <3>2. Rank(v) \in DOMAIN UseNames /\ UseNames[Rank(v)] = v[2] BY <2>3, <3>1 DEF Rank
    <3> QED BY <1>0, <2>3, <3>2
  <2> QED BY <2>2, <2>3
<1>2. ASSUME NEW v \in UseShape, Rank(u) = Rank(v) PROVE u[2] = v[2]
  <2>1. CASE u[2] = "" BY <1>0, <1>1, <1>2, <2>1
  <2>2. CASE u[2] # "" BY <1>0, <1>1, <1>2, <2>2
  <2> QED BY <2>1, <2>2
<1> QED BY <1>1, <1>2

\* The numbering follows a strict total order of the uses.
LEMMA BeforeOrders ==
  ASSUME NEW launch \in Launches, NEW x \in DbUses(launch), NEW y \in DbUses(launch),
         NEW z \in DbUses(launch)
  PROVE  /\ ~Before(launch, x, x)
         /\ x # y => Before(launch, x, y) \/ Before(launch, y, x)
         /\ Before(launch, x, y) /\ Before(launch, y, z) => Before(launch, x, z)
<1> DEFINE places(k) == PlacesOf(launch, k)
           first(j, k) == \E p \in places(j) : \A q \in places(k) : p \prec q
<1>1. ASSUME NEW t \in DbUses(launch)
      PROVE  t = <<t[1], t[2]>> /\ t[2] = <<t[2][1], t[2][2]>> /\ t[2] \in UseShape /\ t[2][1] = "db"
  <2>1. t = <<t[1], t[2]>> /\ t[2] \in UseShape /\ t[2][1] = "db" BY DbUsesAre
  <2>2. \A S, T, u : u \in S \X T => u = <<u[1], u[2]>> OBVIOUS
  <2>3. t[2] = <<t[2][1], t[2][2]>> BY <2>1, <2>2, Zenon DEF UseShape
  <2> QED BY <2>1, <2>3
<1>2. ASSUME NEW t \in DbUses(launch) PROVE places(t[1]) # {} /\ places(t[1]) \in SUBSET (Nat \X Nat)
  BY PlacesOfUse
<1>3. \A s, t : Before(launch, s, t) <=>
        IF s[1] = t[1] THEN Rank(s[2]) < Rank(t[2]) ELSE first(s[1], t[1])
  BY DEF Before
<1>4. Rank(x[2]) \in Nat /\ Rank(y[2]) \in Nat /\ Rank(z[2]) \in Nat BY <1>1, Ranks
<1>5. ~Before(launch, x, x) BY <1>3, <1>4
<1>6. ASSUME x # y PROVE Before(launch, x, y) \/ Before(launch, y, x)
  <2>1. CASE x[1] = y[1]
    <3>1. x[2][2] # y[2][2] BY <1>1, <1>6, <2>1
    <3>2. Rank(x[2]) # Rank(y[2]) BY <1>1, <3>1, Ranks
    <3> QED BY <1>3, <1>4, <2>1, <3>2
  <2>2. CASE x[1] # y[1]
    <3>1. places(x[1]) \cap places(y[1]) = {} BY <2>2 DEF PlacesOf
    <3>2. PICK p \in places(x[1]) \cup places(y[1]) : \A q \in places(x[1]) \cup places(y[1]) : p = q \/ p \prec q
      <4>1. places(x[1]) \cup places(y[1]) \in SUBSET (Nat \X Nat) /\ places(x[1]) \cup places(y[1]) # {} BY <1>2
      <4> HIDE DEF places
      <4> QED BY <4>1, FirstPlace
    <3> HIDE DEF places
    <3>3. first(x[1], y[1]) \/ first(y[1], x[1]) BY <3>1, <3>2
    <3> QED BY <1>3, <2>2, <3>3
  <2> QED BY <2>1, <2>2
<1>7. ASSUME Before(launch, x, y), Before(launch, y, z) PROVE Before(launch, x, z)
  <2> DEFINE X == places(x[1])
             Y == places(y[1])
             Z == places(z[1])
  <2>0. /\ X # {} /\ X \in SUBSET (Nat \X Nat) /\ Y # {} /\ Y \in SUBSET (Nat \X Nat)
        /\ Z # {} /\ Z \in SUBSET (Nat \X Nat)
    BY <1>2
  <2>1. \A p, q, r \in Nat \X Nat : p \prec q /\ q \prec r => p \prec r
    BY DEF \prec
  <2>2. \A p \in Nat \X Nat : ~(p \prec p) BY DEF \prec
  <2>3. CASE x[1] = y[1] /\ y[1] = z[1] BY <1>3, <1>4, <1>7, <2>3
  <2>4. CASE x[1] = y[1] /\ y[1] # z[1] BY <1>3, <1>7, <2>4
  <2>5. CASE x[1] # y[1] /\ y[1] = z[1] BY <1>3, <1>7, <2>5
  <2>6. CASE x[1] # y[1] /\ y[1] # z[1]
    <3>1. PICK p \in X : \A q \in Y : p \prec q BY <1>3, <1>7, <2>6
    <3>2. PICK q \in Y : \A r \in Z : q \prec r BY <1>3, <1>7, <2>6
    <3> HIDE DEF X, Y, Z
    <3>3. \A r \in Z : p \prec r BY <2>0, <2>1, <3>1, <3>2
    <3>4. x[1] # z[1]
      <4>1. SUFFICES ASSUME x[1] = z[1] PROVE FALSE OBVIOUS
      <4>2. p \in Z BY <4>1 DEF X, Z
      <4> QED BY <2>0, <2>2, <3>3, <4>2
    <3> QED BY <1>3, <3>3, <3>4 DEF X, Z
  <2> QED BY <2>3, <2>4, <2>5, <2>6
<1> QED BY <1>5, <1>6, <1>7

IndexOf(launch, use) == Cardinality({x \in DbUses(launch) : Before(launch, x, use)})

\* So no two have one number.
LEMMA IndexesDiffer ==
  ASSUME NEW launch \in Launches, NEW x \in DbUses(launch), NEW y \in DbUses(launch), x # y
  PROVE  IndexOf(launch, x) # IndexOf(launch, y)
<1> DEFINE prior(t) == {s \in DbUses(launch) : Before(launch, s, t)}
<1>1. ASSUME NEW s \in DbUses(launch), NEW t \in DbUses(launch), Before(launch, s, t)
      PROVE  IndexOf(launch, s) < IndexOf(launch, t)
  <2>1. IsFiniteSet(prior(s)) /\ IsFiniteSet(prior(t))
    <3>1. prior(s) \in SUBSET DbUses(launch) /\ prior(t) \in SUBSET DbUses(launch) OBVIOUS
    <3> HIDE DEF prior
    <3> QED BY <3>1, DbUsesFinite, FS_Subset
  <2>2. s \notin prior(s) /\ prior(s) \cup {s} \subseteq prior(t)
    BY <1>1, BeforeOrders
  <2> HIDE DEF prior
  <2>3. Cardinality(prior(s) \cup {s}) = Cardinality(prior(s)) + 1
    BY <2>1, <2>2, FS_AddElement
  <2>4. Cardinality(prior(s) \cup {s}) <= Cardinality(prior(t))
    BY <2>1, <2>2, FS_Subset
  <2>5. Cardinality(prior(s)) \in Nat /\ Cardinality(prior(t)) \in Nat
    BY <2>1, FS_CardinalityType
  <2>6. IndexOf(launch, s) = Cardinality(prior(s)) /\ IndexOf(launch, t) = Cardinality(prior(t))
    BY DEF IndexOf, prior
  <2> QED BY <2>3, <2>4, <2>5, <2>6
<1>2. ASSUME NEW s \in DbUses(launch) PROVE IndexOf(launch, s) \in Nat
  <2>1. prior(s) \in SUBSET DbUses(launch) OBVIOUS
  <2> HIDE DEF prior
  <2>2. IsFiniteSet(prior(s)) BY <2>1, DbUsesFinite, FS_Subset
  <2> QED BY <2>2, FS_CardinalityType DEF IndexOf, prior
<1> QED BY <1>1, <1>2, BeforeOrders

LEMMA Allocated ==
  ASSUME NEW launch \in Launches, NEW x \in DbUses(launch)
  PROVE  LET all == allocateDbIndexes(launch)
         IN  /\ x[1] \in DOMAIN all /\ x[2] \in DOMAIN all[x[1]]
             /\ all[x[1]][x[2]] = IndexOf(launch, x)
<1>1. x = <<x[1], x[2]>> BY DbUsesAre
<1> DEFINE keys == {y[1] : y \in DbUses(launch)}
           uses(k) == {y[2] : y \in {z \in DbUses(launch) : z[1] = k}}
<1>2. allocateDbIndexes(launch) = [k \in keys |-> [u \in uses(k) |-> IndexOf(launch, <<k, u>>)]]
  BY DEF allocateDbIndexes, IndexOf
<1>3. x[1] \in keys /\ x[2] \in uses(x[1]) OBVIOUS
<1> HIDE DEF keys, uses
<1> QED BY <1>1, <1>2, <1>3

-----------------------------------------------------------------------------
(* No two uses share a database. *)

\* The database of a use: its own number, its own name, or any for a bare one.
DatabaseFor(launch, key, use, database) ==
  IF use[1] = "db"
  THEN <<key, use>> \in DbUses(launch) /\ database = <<"db", IndexOf(launch, <<key, use>>)>>
  ELSE use[2] # "" => database = <<"database", use[2]>>

\* What a use has registered: its database, and its url, the instance's but for that.
Registers(launch, key, properties, path) ==
  LET use == <<path[1], path[2]>>
      url == properties[<<"url">>]
  IN  /\ path = <<path[1], path[2], path[3]>>
      /\ \E database : /\ DatabaseFor(launch, key, use, database)
                       /\ IF path[3] = "url"
                          THEN properties[path] = <<"url", url[2], url[3], database>>
                          ELSE properties[path] = database /\ (use[1] = "db" => path[3] = "index")

\* A resource is supplied, provisioned, or an origin.
ApartIn(launch, key, properties) ==
  \/ \A path \in DOMAIN properties : properties[path] = <<"supplied", key, path>>
  \/ /\ properties[<<"url">>] =
           <<"url", properties[<<"url">>][2], properties[<<"url">>][3], <<"instance">>>>
     /\ \A path \in DOMAIN properties : Len(path) = 3 => Registers(launch, key, properties, path)
  \/ \A path \in DOMAIN properties : Len(path) # 3

LEMMA InstanceProperties ==
  ASSUME NEW type, NEW held
  PROVE  LET base == Properties(type, held)
         IN  /\ base[<<"url">>] = <<"url", type, Credential(type, held), <<"instance">>>>
             /\ <<"url">> \in DOMAIN base /\ \A path \in DOMAIN base : Len(path) = 1
<1> DEFINE url == <<"url", type, Credential(type, held), <<"instance">>>>
<1>1. Properties(type, held) =
        Only(<<"host">>, <<"host", type>>) ++ Only(<<"url">>, url)
          ++ Only(<<"password">>, Credential(type, held))
  BY DEF Properties
<1>2. <<"url">> # <<"host">>
  <2>1. <<"url">>[1] # <<"host">>[1] OBVIOUS
  <2> QED BY <2>1
<1>3. Len(<<"url">>) = 1 /\ Len(<<"host">>) = 1 /\ Len(<<"password">>) = 1 OBVIOUS
<1> HIDE DEF url
<1>4. Properties(type, held)[<<"url">>] = url BY <1>1, <1>2 DEF ++, Only
<1>5. DOMAIN Properties(type, held) = {<<"host">>, <<"url">>, <<"password">>}
  BY <1>1 DEF ++, Only
<1> QED BY <1>3, <1>4, <1>5 DEF url

\* Only redis covers a `db`.
LEMMA DbIsRedis ==
  ASSUME NEW type, NEW use, use[1] = "db", Covers(type, use) PROVE type = "redis"
<1>1. "db" \in DOMAIN Coverage(type) BY DEF Covers
<1>2. CASE type \in SqlTypes BY <1>1, <1>2 DEF Coverage, SqlTypes
<1>3. CASE type \notin SqlTypes /\ type # "redis"
  <2>1. Coverage(type) = <<>> BY <1>3 DEF Coverage
  <2> QED BY <1>1, <2>1
<1> QED BY <1>2, <1>3

\* What Provision registers for a resource of the launch.
LEMMA ProvidedApart ==
  ASSUME OneTypePerKey, Launch \in Launches, NEW e \in Declared(Launch), ~e.host, NEW held
  PROVE  LET declared == declaredUses(Launch)
             uses == IF e.key \in DOMAIN declared THEN declared[e.key] ELSE {}
             all == allocateDbIndexes(Launch)
             indexes == IF e.key \in DOMAIN all THEN all[e.key] ELSE <<>>
         IN  ApartIn(Launch, e.key, withCoveredUses(e.type, uses, Properties(e.type, held), indexes))
<1> DEFINE declared == declaredUses(Launch)
           uses == IF e.key \in DOMAIN declared THEN declared[e.key] ELSE {}
           all == allocateDbIndexes(Launch)
           indexes == IF e.key \in DOMAIN all THEN all[e.key] ELSE <<>>
           base == Properties(e.type, held)
           credential == Credential(e.type, held)
           keys == UNION {usePropertyKeys(u) : u \in {v \in uses : Covers(e.type, v)}}
           database(p) == DatabaseOf(<<p[1], p[2]>>, indexes)
           value(p) == IF p[3] = "url" THEN [base[<<"url">>] EXCEPT ![4] = database(p)]
                       ELSE database(p)
           f == withCoveredUses(e.type, uses, base, indexes)
<1>1. /\ base[<<"url">>] = <<"url", e.type, credential, <<"instance">>>>
      /\ <<"url">> \in DOMAIN base /\ \A p \in DOMAIN base : Len(p) = 1
  BY InstanceProperties
<1>2. f = base ++ [p \in keys |-> value(p)] BY DEF withCoveredUses
<1>3. f[<<"url">>] = <<"url", e.type, credential, <<"instance">>>>
  <2> HIDE DEF base, keys, value, f, credential
  <2> QED BY <1>1, <1>2 DEF ++
<1>4. ASSUME NEW u \in uses
      PROVE  u \in UseShape /\ \E d \in Declared(Launch) : ~d.host /\ d.key = e.key /\ u \in useKeys(d)
  <2>1. PICK d \in UNION {Resources(Launch.comp[c]) : c \in Names(Launch)} :
          d.key = e.key /\ u \in useKeys(d)
    BY DEF declaredUses
  <2>2. d \in Declared(Launch) /\ ~d.host BY <2>1 DEF Resources, Declared
  <2> QED BY <2>1, <2>2, UsesShaped
<1>5. ASSUME NEW u \in uses, Covers(e.type, u), u[1] = "db"
      PROVE  /\ <<e.key, u>> \in DbUses(Launch)
             /\ DatabaseOf(u, indexes) = <<"db", IndexOf(Launch, <<e.key, u>>)>>
  <2>1. PICK d \in Declared(Launch) : ~d.host /\ d.key = e.key /\ u \in useKeys(d) BY <1>4
  <2>2. d.type = "redis" BY <1>5, <2>1, DbIsRedis DEF OneTypePerKey
  <2>3. <<e.key, u>> \in DbUses(Launch) BY <1>4, <1>5, <2>1, <2>2, DbUsesAre
  <2>4. u \in DOMAIN indexes /\ indexes[u] = IndexOf(Launch, <<e.key, u>>) BY <2>3, Allocated
  <2> HIDE DEF indexes, uses
  <2> QED BY <1>5, <2>3, <2>4 DEF DatabaseOf
<1>6. ASSUME NEW p \in DOMAIN f, Len(p) = 3 PROVE Registers(Launch, e.key, f, p)
  <2>1. p \in keys /\ f[p] = value(p)
    <3> HIDE DEF base, keys, value, f
    <3> QED BY <1>1, <1>2, <1>6 DEF ++
  <2>2. PICK u \in uses : Covers(e.type, u) /\ p \in usePropertyKeys(u) BY <2>1
  <2>3. PICK kind \in (CASE u[1] = "db" -> {"url", "index"}
                          [] u[1] = "database" -> {"url", "name"}
                          [] OTHER -> {}) : p = <<u[1], u[2], kind>>
    BY <2>2 DEF usePropertyKeys
  <2>4. u = <<u[1], u[2]>>
    <3>1. \A S, T, t : t \in S \X T => t = <<t[1], t[2]>> OBVIOUS
    <3> QED BY <1>4, <3>1, Zenon DEF UseShape
  <2>5. /\ p = <<p[1], p[2], p[3]>> /\ u = <<p[1], p[2]>> /\ p[3] = kind
    BY <2>3, <2>4
  <2>6. database(p) = DatabaseOf(u, indexes) BY <2>5
  <2>7. DatabaseFor(Launch, e.key, u, DatabaseOf(u, indexes))
    <3>1. CASE u[1] = "db" BY <1>5, <2>2, <3>1 DEF DatabaseFor
    <3>2. CASE u[1] # "db"
      <4> HIDE DEF indexes
      <4> QED BY <3>2 DEF DatabaseFor, DatabaseOf
    <3> QED BY <3>1, <3>2
  <2>8. u[1] = "db" => kind = "url" \/ kind = "index" BY <2>3
  <2> HIDE DEF database
  <2>9. IF p[3] = "url" THEN f[p] = <<"url", e.type, credential, database(p)>>
        ELSE f[p] = database(p)
    <3> HIDE DEF base, f
    <3> QED BY <1>1, <2>1
  <2> HIDE DEF f, indexes, uses
  <2> QED BY <1>3, <2>5, <2>6, <2>7, <2>8, <2>9 DEF Registers
<1> HIDE DEF f, credential
<1>7. ApartIn(Launch, e.key, f) BY <1>3, <1>6 DEF ApartIn
<1> QED BY <1>7 DEF f

\* The context of what is translated, and where it is.
IApart ==
  /\ IOpens
  /\ at \in Generating =>
       /\ Launch \in Launches /\ todo \in Seq(Names(Launch))
       /\ at = "entry" => cur.todo \in Seq(Declared(Launch))
       /\ ctx.uses = declaredUses(Launch)
       /\ \A k \in DOMAIN ctx.resources : ApartIn(Launch, k, ctx.resources[k])

LEMMA BeginsApart ==
  ASSUME NEW o, NEW held, launchToCompose(o, held), o.launch \in Launches, IOpens'
  PROVE  IApart'
<1> DEFINE minted == Mint(migrateResourcePasswords(held, o.launch.secrets).secrets,
                          o.launch.secrets, "secret", o.round)
           active == planCertificates(o.launch, o.resources).active
           app == computeAppContext(o.launch, o.hostPorts, o.appUrl, active)
<1>1. at' = "component" /\ opts' = o /\ todo' = o.launch.order BY DEF launchToCompose
<1>2. ctx' = [resources |-> <<>>, resource |-> <<>>, components |-> <<>>,
              storage |-> <<>>, secrets |-> declaredSecrets(o.launch.secrets, minted),
              app |-> app.app, appEndpoints |-> app.endpoints,
              uses |-> declaredUses(o.launch), active |-> active]
  BY Zenon DEF launchToCompose
<1> HIDE DEF app, minted, active
<1>3. ctx'.resources = <<>> /\ ctx'.uses = declaredUses(o.launch) BY <1>2
<1>4. o.launch.order \in Seq(Names(o.launch)) BY LaunchesAssumption DEF Names, ToSet
<1> QED BY <1>1, <1>3, <1>4 DEF IApart, Launch

\* The entry is passed, and what it had registered is apart.
LEMMA WireApart ==
  ASSUME IApart, at = "entry", cur.todo # <<>>, UNCHANGED <<opts, todo>>, IOpens',
         NEW properties, NEW needs, Wire(properties, needs),
         ApartIn(Launch, Entry.key, properties)
  PROVE  IApart'
<1> DEFINE context == [ctx EXCEPT !.resources = Only(Entry.key, properties) ++ @]
           env == Injected(properties, context)
<1>1. CASE at' = "thrown" BY <1>1 DEF IApart, Generating
<1>2. CASE ctx' = context /\ cur' = [cur EXCEPT !.env = env ++ @, !.needs = needs ++ @, !.todo = Tail(@)]
  <2>1. Work BY DEF IApart, IOpens, Generating
  <2>2. ctx'.uses = ctx.uses /\ ctx'.resources = Only(Entry.key, properties) ++ ctx.resources
    <3> HIDE DEF env
    <3> QED BY <1>2, <2>1 DEF Work, OpenContext
  <2>3. cur'.todo = Tail(cur.todo)
    <3> HIDE DEF env
    <3> QED BY <1>2, <2>1 DEF Work, CurShape
  <2>4. cur.todo \in Seq(Declared(Launch)) BY DEF IApart, Generating
  <2>5. Tail(cur.todo) \in Seq(Declared(Launch)) BY <2>4
  <2>6. \A k \in DOMAIN ctx'.resources : ApartIn(Launch, k, ctx'.resources[k])
    BY <2>2 DEF Only, ++, IApart, Generating
  <2>7. Launch' = Launch BY DEF Launch
  <2>8. /\ Launch \in Launches /\ todo \in Seq(Names(Launch)) /\ ctx.uses = declaredUses(Launch)
    BY DEF IApart, Generating
  <2> QED BY <2>2, <2>3, <2>5, <2>6, <2>7, <2>8 DEF IApart
<1>3. at' = "thrown" \/ (ctx' = context /\ cur' = [cur EXCEPT !.env = env ++ @, !.needs = needs ++ @, !.todo = Tail(@)])
  BY Zenon DEF Wire
<1> QED BY <1>1, <1>2, <1>3

LEMMA SuppliedApart ==
  ASSUME NEW launch, NEW e PROVE ApartIn(launch, e.key, SatisfiedBy(e))
<1>1. CASE e.type = HttpsOrigin
  <2>1. Len(<<"url">>) # 3 OBVIOUS
  <2>2. DOMAIN SatisfiedBy(e) = {<<"url">>} BY <1>1 DEF SatisfiedBy, OriginProperties, Only
  <2> QED BY <2>1, <2>2 DEF ApartIn
<1>2. CASE e.type # HttpsOrigin
  BY <1>2 DEF SatisfiedBy, SuppliedProperties, ApartIn
<1> QED BY <1>1, <1>2

LEMMA TranslatesApart ==
  ASSUME OneTypePerKey, IApart, IOpens', Translates PROVE IApart'
<1>0. at \in Generating => Work BY DEF IApart, IOpens
<1>1. ASSUME NEW c, Skip(c) PROVE IApart'
  <2>1. at = "component" /\ todo' = Tail(todo) /\ todo # <<>> /\ UNCHANGED <<at, opts, cur, ctx>>
    BY <1>1 DEF Skip
  <2>2. todo \in Seq(Names(Launch)) BY <2>1 DEF IApart, Generating
  <2>3. Tail(todo) \in Seq(Names(Launch)) BY <2>1, <2>2
  <2> QED BY <2>1, <2>3 DEF IApart, Launch, Generating
<1>2. ASSUME NEW c, Translate(c) PROVE IApart'
  <2> DEFINE addressed == IF Comp(c).provides = <<>> THEN ctx
                          ELSE [ctx EXCEPT !.components = Only(c, componentProperties(c)) ++ @]
             generated == Generated(c, stored.generated)
             env == [v \in Answered(c) |-> resolveEnvVar(c, v, generated, Within(c, addressed))]
  <2>1. at = "component" /\ todo # <<>> /\ c = Head(todo) BY <1>2 DEF Translate
  <2>2. CASE Fail BY <2>2 DEF Fail, IApart, Generating
  <2>3. CASE /\ opts' = opts /\ todo' = Tail(todo) /\ ctx' = addressed
             /\ cur' = [name |-> c, env |-> env, needs |-> <<>>, todo |-> Entries(Comp(c)),
                        granted |-> HostOutcome(c).granted]
    <3>1. ctx'.uses = ctx.uses /\ ctx'.resources = ctx.resources
      <4>1. Work BY <1>0, <2>1 DEF Generating
      <4>2. \E components : addressed = [ctx EXCEPT !.components = components]
        <5> DEFINE more == Only(c, componentProperties(c)) ++ ctx.components
        <5>1. CASE Comp(c).provides # <<>>
          <6>1. addressed = [ctx EXCEPT !.components = more] BY <5>1
          <6> QED BY <6>1
        <5>2. CASE Comp(c).provides = <<>>
          <6>1. addressed = ctx BY <5>2
          <6> HIDE DEF addressed
          <6>2. ctx = [ctx EXCEPT !.components = ctx.components]
            BY <4>1 DEF Work, OpenContext
          <6> QED BY <6>1, <6>2
        <5> QED BY <5>1, <5>2
      <4> HIDE DEF addressed
      <4> QED BY <2>3, <4>1, <4>2 DEF Work, OpenContext
    <3> HIDE DEF env, addressed
    <3>2. cur'.todo = Entries(Comp(c)) BY <2>3
    <3>3. todo \in Seq(Names(Launch)) /\ Launch \in Launches BY <2>1 DEF IApart, Generating
    <3>4. c \in Names(Launch) /\ Tail(todo) \in Seq(Names(Launch)) BY <2>1, <3>3
    <3>5. cur'.todo \in Seq(Declared(Launch)) BY <3>2, <3>3, <3>4, EntriesDeclared DEF Comp
    <3> QED BY <2>1, <2>3, <3>1, <3>3, <3>4, <3>5 DEF IApart, Launch, Generating
  <2>4. Fail \/ /\ opts' = opts /\ todo' = Tail(todo) /\ ctx' = addressed
                /\ cur' = [name |-> c, env |-> env, needs |-> <<>>, todo |-> Entries(Comp(c)),
                           granted |-> HostOutcome(c).granted]
    BY <1>2, Zenon DEF Translate
  <2> HIDE DEF addressed, env
  <2> QED BY <2>2, <2>3, <2>4
<1>3. ASSUME AtEntry
      PROVE  /\ at = "entry" /\ cur.todo # <<>> /\ Entry \in Declared(Launch)
             /\ Tail(cur.todo) \in Seq(Declared(Launch)) /\ Launch \in Launches
             /\ ctx.uses = declaredUses(Launch)
  <2>1. at = "entry" /\ cur.todo # <<>> BY <1>3 DEF AtEntry
  <2>2. /\ cur.todo \in Seq(Declared(Launch)) /\ Launch \in Launches
        /\ ctx.uses = declaredUses(Launch)
    BY <2>1 DEF IApart, Generating
  <2> QED BY <2>1, <2>2 DEF Entry
<1>4. CASE WireHost \/ OmitOptional
  <2>1. AtEntry /\ UNCHANGED <<at, opts, todo, ctx>> BY <1>4 DEF WireHost, OmitOptional
  <2>2. CurShape(cur) BY <1>0, <1>3, <2>1 DEF Work, Generating
  <2>3. cur'.todo = Tail(cur.todo)
    <3>1. \E env : cur' = [cur EXCEPT !.todo = Tail(@), !.env = env] \/ cur' = [cur EXCEPT !.todo = Tail(@)]
      BY <1>4, Zenon DEF WireHost, OmitOptional
    <3> QED BY <2>2, <3>1 DEF CurShape
  <2> QED BY <1>3, <2>1, <2>3 DEF IApart, Launch
<1>5. CASE applySuppliedResource
  <2>1. AtEntry /\ Wire(SatisfiedBy(Entry), <<>>) /\ UNCHANGED <<opts, todo>>
    BY <1>5 DEF applySuppliedResource
  <2> QED BY <1>3, <2>1, SuppliedApart, WireApart
<1>6. CASE Provision
  <2> DEFINE type == Entry.type
             passwords == Mint(stored.passwords, passwordKeys(type), "password", opts.round)
             allocated == allocateDbIndexes(Launch)
             indexes == IF Entry.key \in DOMAIN allocated THEN allocated[Entry.key] ELSE <<>>
             uses == IF Entry.key \in DOMAIN ctx.uses THEN ctx.uses[Entry.key] ELSE {}
             provided == withCoveredUses(type, uses, Properties(type, passwords), indexes)
  <2>1. /\ AtEntry /\ ~Entry.host /\ UNCHANGED <<opts, todo>>
        /\ Wire(provided, Only(type, "healthy"))
    BY <1>6, Zenon DEF Provision
  <2>2. ApartIn(Launch, Entry.key, provided)
    <3> HIDE DEF passwords
    <3> QED BY <1>3, <2>1, ProvidedApart
  <2> HIDE DEF provided
  <2> QED BY <1>3, <2>1, <2>2, WireApart
<1>7. CASE Emit \/ Return
  <2>1. /\ at \in {"entry", "component"} /\ at' \in {"component", "returned"}
        /\ UNCHANGED <<opts, todo, ctx>>
    BY <1>7 DEF Emit, Return
  <2> QED BY <2>1 DEF IApart, Launch, Generating
<1> QED BY <1>1, <1>2, <1>4, <1>5, <1>6, <1>7 DEF Translates, Generate

LEMMA ApartStep == ASSUME OneTypePerKey, IApart, [Next]_vars PROVE IApart'
<1>0. IOpens' BY OpensStep DEF IApart
<1>1. ASSUME NEW launch \in Launches, NEW request \in Requests, Up(launch, request)
      PROVE  IApart'
  <2>1. \E o, held : launchToCompose(o, held) /\ o.launch = launch BY <1>1 DEF Up
  <2> QED BY <1>0, <2>1, BeginsApart
<1>2. ASSUME NEW launch \in Launches, NEW supply \in Embeddings, Embed(launch, supply)
      PROVE  IApart'
  <2>1. \E o, held : launchToCompose(o, held) /\ o.launch = launch BY <1>2 DEF Embed
  <2> QED BY <1>0, <2>1, BeginsApart
<1>3. CASE Translates BY <1>0, <1>3, TranslatesApart
<1>4. CASE WriteFiles BY <1>0, <1>4 DEF WriteFiles, IApart, Generating
<1>5. CASE Deploys BY <1>0, <1>5 DEF Deploys, IApart
<1>6. CASE Down BY <1>0, <1>6 DEF Down, genVars, IApart, Generating
<1>7. ASSUME NEW stopped \in BOOLEAN, Destroy(stopped) PROVE IApart'
  BY <1>0, <1>7 DEF Destroy, genVars, IApart, Generating
<1>8. CASE UNCHANGED vars
  <2>1. UNCHANGED <<at, opts, todo, cur, ctx>> BY <1>8 DEF vars, genVars
  <2> QED BY <1>0, <2>1 DEF IApart, Launch
<1> QED BY <1>1, <1>2, <1>3, <1>4, <1>5, <1>6, <1>7, <1>8, Kinds

\* Two registered databases differ, and none is the instance's.
LEMMA ApartDiffer ==
  ASSUME NEW launch \in Launches, NEW k, NEW f, ApartIn(launch, k, f), NEW p \in DOMAIN f,
         NEW j, NEW g, ApartIn(launch, j, g), NEW q \in DOMAIN g
  PROVE  /\ Len(p) = 3 /\ Len(q) = 3 /\ p[1] = "db" /\ q[1] = "db" /\ <<k, p>> # <<j, q>>
              => f[p] # g[q]
         /\ Len(p) = 3 /\ p[2] # "" /\ p[3] = "url" /\ <<"url">> \in DOMAIN f
              => f[p] # f[<<"url">>]
<1> DEFINE Database(key, path) ==
             <<"db", IndexOf(launch, <<key, <<path[1], path[2]>>>>)>>
           Numbered(key, properties, path) ==
             /\ <<key, <<path[1], path[2]>>>> \in DbUses(launch)
             /\ path = <<path[1], path[2], path[3]>>
             /\ \/ path[3] = "index" /\ properties[path] = Database(key, path)
                \/ /\ path[3] = "url"
                   /\ \E a, b : properties[path] = <<"url", a, b, Database(key, path)>>
<1>1. ASSUME NEW key, NEW properties, ApartIn(launch, key, properties),
             NEW path \in DOMAIN properties, Len(path) = 3, path[1] = "db"
      PROVE  properties[path] = <<"supplied", key, path>> \/ Numbered(key, properties, path)
  <2>1. properties[path] = <<"supplied", key, path>> \/ Registers(launch, key, properties, path)
    BY <1>1 DEF ApartIn
  <2>2. CASE Registers(launch, key, properties, path)
    BY <1>1, <2>2 DEF Registers, DatabaseFor
  <2> QED BY <2>1, <2>2
<1>2. ASSUME Len(p) = 3, Len(q) = 3, p[1] = "db", q[1] = "db", <<k, p>> # <<j, q>>
      PROVE  f[p] # g[q]
  <2>1. f[p] = <<"supplied", k, p>> \/ Numbered(k, f, p) BY <1>1, <1>2
  <2>2. g[q] = <<"supplied", j, q>> \/ Numbered(j, g, q) BY <1>1, <1>2
  <2>3. CASE Numbered(k, f, p) /\ Numbered(j, g, q)
    <3> DEFINE x == <<k, <<p[1], p[2]>>>>
               y == <<j, <<q[1], q[2]>>>>
    <3>1. CASE x = y
      <4>1. k = j /\ p[1] = q[1] /\ p[2] = q[2] BY <3>1
      <4>2. p[3] # q[3] BY <1>2, <2>3, <4>1
      <4> QED BY <2>3, <4>2
    <3>2. CASE x # y
      <4>1. IndexOf(launch, x) # IndexOf(launch, y) BY <2>3, <3>2, IndexesDiffer
      <4>2. Database(k, p) # Database(j, q) BY <4>1
      <4>3. Database(k, p)[1] = "db" /\ Database(j, q)[1] = "db" OBVIOUS
      <4>4. \A a, b, d : <<"url", a, b, d>>[1] = "url" /\ <<"url", a, b, d>>[4] = d OBVIOUS
      <4> HIDE DEF Database
      <4> QED BY <2>3, <4>2, <4>3, <4>4
    <3> QED BY <3>1, <3>2
  <2>4. CASE f[p] = <<"supplied", k, p>> /\ g[q] = <<"supplied", j, q>> BY <1>2, <2>4
  <2>5. CASE f[p] = <<"supplied", k, p>> /\ Numbered(j, g, q)
    <3> HIDE DEF Database
    <3>1. f[p][1] = "supplied" /\ g[q][1] # "supplied" BY <2>5 DEF Database
    <3> QED BY <3>1
  <2>6. CASE Numbered(k, f, p) /\ g[q] = <<"supplied", j, q>>
    <3>1. f[p][1] # "supplied" /\ g[q][1] = "supplied" BY <2>6
    <3> QED BY <3>1
  <2> HIDE DEF Numbered
  <2> QED BY <2>1, <2>2, <2>3, <2>4, <2>5, <2>6
<1>3. ASSUME Len(p) = 3, p[2] # "", p[3] = "url", <<"url">> \in DOMAIN f
      PROVE  f[p] # f[<<"url">>]
  <2>1. CASE \A path \in DOMAIN f : f[path] = <<"supplied", k, path>>
    <3>1. f[p] = <<"supplied", k, p>> /\ f[<<"url">>] = <<"supplied", k, <<"url">>>>
      BY <1>3, <2>1
    <3>2. Len(<<"url">>) = 1 OBVIOUS
    <3>3. p # <<"url">>
      <4>1. p = <<"url">> => Len(p) = Len(<<"url">>) BY Zenon
      <4>2. p = <<"url">> => 3 = 1 BY <1>3, <3>2, <4>1, Zenon
      <4> QED BY <4>2
    <3> QED BY <3>1, <3>3
  <2>2. CASE Registers(launch, k, f, p) /\
             f[<<"url">>] = <<"url", f[<<"url">>][2], f[<<"url">>][3], <<"instance">>>>
    <3>1. PICK database : DatabaseFor(launch, k, <<p[1], p[2]>>, database)
                          /\ f[p] = <<"url", f[<<"url">>][2], f[<<"url">>][3], database>>
      BY <1>3, <2>2 DEF Registers
    <3>2. database[1] \in {"db", "database"}
      <4>1. CASE p[1] = "db"
        <5>1. \E n : database = <<"db", n>> BY <3>1, <4>1 DEF DatabaseFor
        <5> QED BY <5>1
      <4>2. CASE p[1] # "db"
        <5>1. \E n : database = <<"database", n>> BY <1>3, <3>1, <4>2 DEF DatabaseFor
        <5> QED BY <5>1
      <4> QED BY <4>1, <4>2
    <3>3. database # <<"instance">> BY <3>2
    <3> QED BY <2>2, <3>1, <3>3
  <2> QED BY <1>3, <2>1, <2>2 DEF ApartIn
<1> QED BY <1>2, <1>3

\* Of whatever redis resources and entries, and whichever of them are supplied:
\* the databases of two uses differ, and the one of a named use is not the
\* instance's.
THEOREM UsesApartAlways ==
  ASSUME OneTypePerKey PROVE Spec => []UsesApart
<1>1. Init => IApart BY OpensInit DEF Init, IApart, Generating
<1>2. IApart /\ [Next]_vars => IApart' BY ApartStep
<1>3. IApart => UsesApart
  <2> SUFFICES ASSUME IApart, at = "returned",
                      NEW k \in DOMAIN ctx.resources, NEW j \in DOMAIN ctx.resources,
                      NEW p \in DOMAIN ctx.resources[k], NEW q \in DOMAIN ctx.resources[j]
               PROVE  /\ Len(p) = 3 /\ Len(q) = 3 /\ p[1] = "db" /\ q[1] = "db" /\ <<k, p>> # <<j, q>>
                           => ctx.resources[k][p] # ctx.resources[j][q]
                      /\ Len(p) = 3 /\ p[2] # "" /\ p[3] = "url" /\ <<"url">> \in DOMAIN ctx.resources[k]
                           => ctx.resources[k][p] # ctx.resources[k][<<"url">>]
    BY DEF UsesApart
  <2>1. /\ Launch \in Launches /\ ApartIn(Launch, k, ctx.resources[k])
        /\ ApartIn(Launch, j, ctx.resources[j])
    BY DEF IApart, Generating
  <2> QED BY <2>1, ApartDiffer
<1> QED BY <1>1, <1>2, <1>3, PTL DEF Spec

-----------------------------------------------------------------------------
(* What a search finds. *)

LEMMA ClosureLeast ==
  ASSUME NEW links, \A x \in DOMAIN links : links[x] \subseteq DOMAIN links,
         NEW from \in SUBSET DOMAIN links
  PROVE  /\ from \subseteq Closure(links, from) /\ Closure(links, from) \subseteq DOMAIN links
         /\ \A x \in Closure(links, from) : links[x] \subseteq Closure(links, from)
         /\ \A S \in SUBSET DOMAIN links :
              from \subseteq S /\ (\A x \in S : links[x] \subseteq S)
                => Closure(links, from) \subseteq S
<1> DEFINE Around(S) == from \subseteq S /\ \A x \in S : links[x] \subseteq S
           C == Closure(links, from)
<1>1. C = {x \in DOMAIN links : \A S \in SUBSET DOMAIN links : Around(S) => x \in S}
  BY Zenon DEF Closure
<1>2. from \subseteq C BY <1>1
<1>3. C \subseteq DOMAIN links BY <1>1
<1>4. ASSUME NEW x \in C, NEW y \in links[x] PROVE y \in C
  <2>1. y \in DOMAIN links BY <1>3, <1>4
  <2>2. ASSUME NEW S \in SUBSET DOMAIN links, Around(S) PROVE y \in S
    <3>1. x \in S BY <1>1, <2>2
    <3> QED BY <1>4, <2>2, <3>1
  <2> QED BY <1>1, <2>1, <2>2
<1>5. ASSUME NEW S \in SUBSET DOMAIN links, Around(S) PROVE C \subseteq S
  BY <1>1, <1>5
<1> HIDE DEF C
<1> QED BY <1>2, <1>3, <1>4, <1>5 DEF C

\* A selection holds what its components depend on; without a selector it is
\* all of them.
LEMMA SelectionCloses ==
  ASSUME NEW launch, NEW requested
  PROVE  LET start == selectionClosure(launch, requested)
         IN  /\ start \subseteq Names(launch)
             /\ \A c \in start : dependsOn(launch)[c] \subseteq start
             /\ requested = {} => start = Names(launch)
<1> DEFINE links == dependsOn(launch)
           base == selectComponents(launch, requested)
           start == selectionClosure(launch, requested)
<1>1. DOMAIN links = Names(launch) /\ \A c \in Names(launch) : links[c] \subseteq Names(launch)
  BY DEF dependsOn
<1>2. base.selected \subseteq Names(launch) BY DEF selectComponents
<1>3. start = {} \/ start = Closure(links, base.selected)
  BY DEF selectionClosure
<1>4. requested = {} => base.selected = Names(launch) /\ start = Closure(links, base.selected)
  BY DEF selectComponents, selectionClosure
<1> HIDE DEF links, base, start
<1>5. /\ base.selected \subseteq Closure(links, base.selected)
      /\ Closure(links, base.selected) \subseteq Names(launch)
      /\ \A c \in Closure(links, base.selected) : links[c] \subseteq Closure(links, base.selected)
  BY <1>1, <1>2, ClosureLeast
<1>6. /\ start \subseteq Names(launch) /\ \A c \in start : links[c] \subseteq start
      /\ requested = {} => start = Names(launch)
  BY <1>3, <1>4, <1>5
<1> QED BY <1>6 DEF start, links

-----------------------------------------------------------------------------
(* What is released and given what it requires before it serves. *)

RunShape(r) ==
  r = [start |-> r.start, selector |-> r.selector, dry |-> r.dry, embedded |-> r.embedded,
       visiting |-> r.visiting, done |-> r.done, plan |-> r.plan, created |-> r.created,
       released |-> r.released]

\* From the files that are written to the end of the health gate.
Deploying == {"prepare", "plan", "release", "health"}

\* A service that is no component's needs nothing and has no component's name;
\* a component's needs its targets, and has what it requires or is in want of it.
Provided ==
  /\ out.components \subseteq Names(Launch) \cap DOMAIN out.services
  /\ \A c \in out.components :
       /\ DOMAIN out.services[c].needs \cap Names(Launch)
            = DOMAIN Comp(c).depends \cap Names(Launch)
       /\ \A v \in DOMAIN Comp(c).env : Comp(c).env[v].kind = "required" =>
            v \in DOMAIN out.services[c].env \/ <<c, v>> \in out.unsupplied
       /\ \A v \in DOMAIN Comp(c).storage :
            v \in out.services[c].mounts \/ <<c, v>> \in out.unbound
  /\ \A s \in DOMAIN out.services \ out.components :
       s \notin Names(Launch) /\ DOMAIN out.services[s].needs = {}
  /\ at = "entry" => DOMAIN cur.needs \cap Names(Launch) = {}

\* What an `up` is to launch.
Selected ==
  /\ run.start \subseteq Names(Launch)
  /\ \A c \in run.start : Targets(c) \subseteq run.start
  /\ ~run.selector => run.start = Names(Launch)

Unplanned == run.visiting = <<>> /\ run.done = {} /\ run.plan = <<>>

\* What is deployed is what was generated, and nothing of it is in want.
Deployable ==
  /\ ~run.embedded /\ file = out.services
  /\ \A g \in out.unsupplied \cup out.unbound : g[1] \notin out.components \cap run.start

\* The calls under way go from a component to a target of it; what is done has
\* its targets done before it, if it is deployed, and is planned if it releases.
Visits ==
  /\ run.visiting \in Seq(Names(Launch)) /\ run.done \subseteq Names(Launch)
  /\ \A i \in DOMAIN run.visiting : i # 1 => run.visiting[i - 1] \in Targets(run.visiting[i])
  /\ \A c \in run.done \cap DOMAIN file : Targets(c) \subseteq run.done
  /\ \A c \in run.done : Releasing(c) => c \in ToSet(run.plan)

\* A component is released after all that its release brings up.
Planned ==
  /\ run.plan \in Seq(Names(Launch))
  /\ \A i \in DOMAIN run.plan :
       /\ Releasing(run.plan[i])
       /\ \A s \in WithNeeds(Needs(run.plan[i])) :
            Releasing(s) => s \in run.released \/ \E j \in 1..(i - 1) : run.plan[j] = s

IServing ==
  /\ IWhole /\ RunShape(run)
  /\ at \in Generating \cup Deploying =>
       Launch \in Launches /\ Provided /\ (~run.embedded => Selected)
  /\ at \in Generating \cup {"prepare"} => Unplanned
  /\ at \in Deploying => Deployable
  /\ at \in {"plan", "release", "health"} => Valid
  /\ at = "plan" => Visits
  /\ at \in {"plan", "release"} => Planned
  /\ at = "release" => \A c \in Names(Launch) :
       Releasing(c) => c \in run.released \cup ToSet(run.plan)
  /\ run.created \subseteq DOMAIN containers /\ ReadyBeforeServing

\* Within a set that holds the targets of its components stays all they need.
LEMMA NeedsWithin ==
  ASSUME Provided, file = out.services, Valid, NEW D,
         \A c \in D \cap DOMAIN file : c \in Names(Launch) => Targets(c) \subseteq D,
         NEW services \in SUBSET DOMAIN file, services \cap Names(Launch) \subseteq D
  PROVE  /\ services \subseteq WithNeeds(services)
         /\ WithNeeds(services) \subseteq DOMAIN file
         /\ WithNeeds(services) \cap Names(Launch) \subseteq D
<1> DEFINE links == [s \in DOMAIN file |-> Needs(s)]
           S == {s \in DOMAIN file : s \in Names(Launch) => s \in D}
<1>1. DOMAIN links = DOMAIN file /\ \A s \in DOMAIN file : links[s] = Needs(s)
  OBVIOUS
<1>2. \A s \in DOMAIN file : Needs(s) \subseteq DOMAIN file BY DEF Valid
<1>3. WithNeeds(services) = Closure(links, services) BY DEF WithNeeds
<1>4. services \subseteq S OBVIOUS
<1>5. ASSUME NEW s \in S PROVE Needs(s) \subseteq S
  <2>1. CASE s \in Names(Launch)
    <3>1. s \in out.components BY <2>1 DEF Provided
    <3>2. Targets(s) = DOMAIN Comp(s).depends \cap Names(Launch)
      BY <2>1 DEF Targets, dependsOn, Comp
    <3>3. Needs(s) \cap Names(Launch) = Targets(s) BY <3>1, <3>2 DEF Provided, Needs
    <3>4. Targets(s) \subseteq D BY <2>1
    <3> QED BY <1>2, <3>3, <3>4
  <2>2. CASE s \notin Names(Launch)
    <3>1. s \in DOMAIN out.services \ out.components BY <2>2 DEF Provided
    <3>2. Needs(s) = {} BY <3>1 DEF Provided, Needs
    <3> QED BY <3>2
  <2> QED BY <2>1, <2>2
<1> HIDE DEF links, S
<1>6. /\ services \subseteq Closure(links, services)
      /\ Closure(links, services) \subseteq DOMAIN file
  BY <1>1, <1>2, ClosureLeast
<1>7. Closure(links, services) \subseteq S
  <2>1. S \in SUBSET DOMAIN links BY <1>1 DEF S
  <2>2. \A x \in S : links[x] \subseteq S BY <1>1, <1>5 DEF S
  <2> QED BY <1>1, <1>2, <1>4, <2>1, <2>2, ClosureLeast
<1> QED BY <1>3, <1>6, <1>7 DEF S

\* Nothing is emitted and the component in the making needs no other than it did.
LEMMA ProvidedStays ==
  ASSUME Provided, opts' = opts, out'.services = out.services,
         out'.components = out.components, out'.unsupplied = out.unsupplied,
         out'.unbound = out.unbound,
         at' = "entry" => DOMAIN cur'.needs \cap Names(Launch) = {}
  PROVE  Provided'
BY DEF Provided, Comp, Launch

LEMMA ProvidedNext ==
  ASSUME NamesApart, IWhole, Provided, Translates, at' # "thrown"
  PROVE  Provided'
<1>1. Ordered /\ Accounted /\ at \in Generating /\ opts' = opts
  BY TranslateExtends DEF IWhole, IMinted, Shapes, Translates, Generate, Skip, Translate, Fail,
    WireHost, applySuppliedResource, OmitOptional, Provision, Emit, Return
<1>2. ASSUME NEW c, Skip(c) \/ Translate(c) PROVE Provided'
  <2>1. at = "component" /\ at' \in {"component", "entry"} BY <1>2 DEF Skip, Translate, Fail
  <2>2. /\ out'.services = out.services /\ out'.components = out.components
        /\ out'.unsupplied = out.unsupplied /\ out'.unbound = out.unbound
    BY <1>1, <1>2 DEF Skip, Translate, Fail, Ordered, OutShape
  <2>3. at' = "entry" => DOMAIN cur'.needs = {}
    <3>1. CASE Skip(c) BY <2>1, <3>1 DEF Skip
    <3>2. CASE Translate(c) /\ ~Skip(c)
      <4>1. \E env, granted : cur' = [name |-> c, env |-> env, needs |-> <<>>,
                                      todo |-> Entries(Comp(c)), granted |-> granted]
        BY <3>2 DEF Translate, Fail
      <4> QED BY <4>1
    <3> QED BY <1>2, <3>1, <3>2
  <2> QED BY <1>1, <2>2, <2>3, ProvidedStays
<1>3. ASSUME WireHost \/ OmitOptional \/ applySuppliedResource PROVE Provided'
  <2>1. at = "entry" /\ out' = out
    BY <1>3 DEF WireHost, OmitOptional, applySuppliedResource, AtEntry
  <2>2. DOMAIN cur'.needs = DOMAIN cur.needs
    <3>1. CASE WireHost \/ OmitOptional
      BY <1>1, <3>1 DEF WireHost, OmitOptional, Ordered, CurShape
    <3>2. CASE applySuppliedResource
      <4>1. Wire(SatisfiedBy(Entry), <<>>) BY <3>2 DEF applySuppliedResource
      <4>2. cur'.needs = <<>> ++ cur.needs BY <1>1, <2>1, <4>1, WireEntry
      <4> QED BY <4>2 DEF ++
    <3> QED BY <1>3, <3>1, <3>2
  <2> QED BY <1>1, <2>1, <2>2, ProvidedStays DEF Provided
<1>4. ASSUME Provision PROVE Provided'
  <2> DEFINE type == Entry.type
  <2>1. /\ at = "entry" /\ cur.todo # <<>>
        /\ \E passwords : out' = [out EXCEPT !.services = addBackingService(type, passwords)]
        /\ \E properties : Wire(properties, Only(type, "healthy"))
    BY <1>4 DEF Provision, AtEntry
  <2>2. type \notin Names(Launch)
    <3>1. Head(cur.todo) \in Declared(Launch) BY <1>1, <2>1, TailOf DEF Ordered
    <3> QED BY <1>1, <3>1 DEF NamesApart, Ordered, Entry, Launch
  <2>3. /\ at' = at /\ cur'.needs = Only(type, "healthy") ++ cur.needs
    BY <1>1, <2>1, WireEntry
  <2>4. DOMAIN cur'.needs \cap Names(Launch) = {}
    BY <2>1, <2>2, <2>3 DEF ++, Only, Provided
  <2>5. /\ out'.components = out.components /\ out'.unsupplied = out.unsupplied
        /\ out'.unbound = out.unbound
        /\ \E passwords : out'.services = addBackingService(type, passwords)
    BY <1>1, <2>1 DEF Ordered, OutShape
  <2>6. CASE out'.services = out.services
    BY <1>1, <2>4, <2>5, <2>6, ProvidedStays
  <2>7. CASE out'.services # out.services
    <3>1. \E service : /\ service.needs = <<>> /\ type \notin DOMAIN out.services
                       /\ out'.services = Only(type, service) ++ out.services
      BY <2>5, <2>7 DEF addBackingService
    <3> HIDE DEF type
    <3>2. /\ DOMAIN out'.services = DOMAIN out.services \cup {type}
          /\ DOMAIN out'.services[type].needs = {}
          /\ \A s \in DOMAIN out.services : out'.services[s] = out.services[s]
      BY <3>1 DEF ++, Only
    <3> QED BY <1>1, <2>2, <2>4, <2>5, <3>2 DEF Provided, Comp, Launch
  <2> QED BY <2>6, <2>7
<1>5. ASSUME Emit PROVE Provided'
  <2> DEFINE c == cur.name
             required == unsuppliedRequiredEnv(Comp(c), DOMAIN cur.env)
  <2>1. at = "entry" /\ at' = "component" /\ OutShape(out)
    BY <1>1, <1>5 DEF Emit, Ordered
  <2>2. c \in Names(Launch) /\ c \notin out.components BY <1>1, <2>1 DEF Ordered
  <2>3. PICK service, bound : Emits(service, bound) BY <1>5, <2>1, Emitted
  <2>4. /\ service.needs = Comp(c).depends ++ cur.needs
        /\ DOMAIN service.env = DOMAIN cur.env \cup (required \cap opts.operatorEnv)
        /\ service.mounts = (DOMAIN Comp(c).storage \ OperatorVolumes(c)) \cup bound
        /\ out'.services = Only(c, service) ++ out.services
        /\ out'.components = out.components \cup {c}
        /\ out'.unsupplied = out.unsupplied \cup {<<c, v>> : v \in required \ opts.operatorEnv}
        /\ out'.unbound = out.unbound \cup {<<c, v>> : v \in OperatorVolumes(c) \ bound}
    BY <2>3, Zenon DEF Emits
  <2>5. required = {v \in DOMAIN Comp(c).env : Comp(c).env[v].kind = "required"} \ DOMAIN cur.env
    BY DEF unsuppliedRequiredEnv
  <2> HIDE DEF c, required
  <2>6. /\ DOMAIN out'.services = DOMAIN out.services \cup {c} /\ out'.services[c] = service
        /\ \A s \in DOMAIN out.services \ {c} : out'.services[s] = out.services[s]
        /\ DOMAIN service.needs = DOMAIN Comp(c).depends \cup DOMAIN cur.needs
    BY <2>4 DEF ++, Only
  <2>7. DOMAIN service.needs \cap Names(Launch) = DOMAIN Comp(c).depends \cap Names(Launch)
    BY <2>1, <2>6 DEF Provided
  <2>8. \A v \in DOMAIN Comp(c).env : Comp(c).env[v].kind = "required" =>
          v \in DOMAIN service.env \/ <<c, v>> \in out'.unsupplied
    BY <2>4, <2>5
  <2>9. \A v \in DOMAIN Comp(c).storage : v \in service.mounts \/ <<c, v>> \in out'.unbound
    BY <2>4
  <2>10. \A d \in out.components : d # c /\ out'.services[d] = out.services[d]
    BY <2>2, <2>6 DEF Provided
  <2>11. Names(Launch)' = Names(Launch) /\ \A d : Comp(d)' = Comp(d)
    BY <1>1 DEF Launch, Comp
  <2> QED BY <2>1, <2>2, <2>4, <2>6, <2>7, <2>8, <2>9, <2>10, <2>11 DEF Provided
<1>6. ASSUME Return PROVE Provided'
  BY <1>1, <1>6, ProvidedStays DEF Return
<1> QED BY <1>2, <1>3, <1>4, <1>5, <1>6 DEF Translates, Generate

\* Whatever is brought up was selected and has been released.
LEMMA BringsReady ==
  ASSUME ReadyBeforeServing, run.created \subseteq DOMAIN containers, Provided, Deployable,
         opts' = opts, NEW up \in SUBSET DOMAIN file, Bring(up),
         run'.created = run.created \cup Stale(up), run.released \subseteq run'.released,
         \A c \in up \cap Names(Launch) :
           c \in run.start /\ (Comp(c).release # <<>> => c \in run'.released)
  PROVE  ReadyBeforeServing' /\ run'.created \subseteq DOMAIN containers'
<1>1. /\ DOMAIN containers' = DOMAIN containers \cup up
      /\ \A s \in up : containers'[s] = file[s]
      /\ \A s \in DOMAIN containers \ up : containers'[s] = containers[s]
  <2>1. containers' = Restrict(file, up) ++ containers
    <3>1. up \cap DOMAIN file = up OBVIOUS
    <3> QED BY <3>1, Zenon DEF Bring
  <2> QED BY <2>1 DEF Restrict, ++
<1>2. Stale(up) \subseteq up BY DEF Stale
<1>3. Names(Launch)' = Names(Launch) /\ \A c : Comp(c)' = Comp(c) BY DEF Launch, Comp
<1>4. ASSUME NEW c \in run'.created \cap Names(Launch)
      PROVE  /\ Comp(c).release # <<>> => c \in run'.released
             /\ \A v \in DOMAIN Comp(c).env :
                  Comp(c).env[v].kind = "required" => v \in DOMAIN containers'[c].env
             /\ DOMAIN Comp(c).storage \subseteq containers'[c].mounts
  <2>1. CASE c \in up
    <3>1. c \in out.components /\ c \in run.start /\ containers'[c] = out.services[c]
      BY <1>1, <2>1 DEF Provided, Deployable
    <3>2. ASSUME NEW v PROVE <<c, v>> \notin out.unsupplied \cup out.unbound
      <4>1. <<c, v>>[1] = c OBVIOUS
      <4> QED BY <3>1, <4>1 DEF Deployable
    <3> QED BY <2>1, <3>1, <3>2 DEF Provided
  <2>2. CASE c \notin up
    <3>1. c \in run.created /\ containers'[c] = containers[c] BY <1>1, <1>2, <2>2
    <3> QED BY <3>1 DEF ReadyBeforeServing
  <2> QED BY <2>1, <2>2
<1>5. run'.created \subseteq DOMAIN containers' BY <1>1, <1>2
<1> QED BY <1>3, <1>4, <1>5 DEF ReadyBeforeServing

LEMMA ReadyStays ==
  ASSUME ReadyBeforeServing, run.created \subseteq DOMAIN containers,
         UNCHANGED <<opts, containers>>, run'.created = run.created,
         run'.released = run.released
  PROVE  ReadyBeforeServing' /\ run'.created \subseteq DOMAIN containers'
BY DEF ReadyBeforeServing, Comp, Launch

\* What a set of components selected brings up was selected.
LEMMA NeedsSelected ==
  ASSUME Provided, Deployable, Selected, Valid,
         NEW services \in SUBSET DOMAIN file,
         services \cap Names(Launch) \subseteq run.start
  PROVE  /\ services \subseteq WithNeeds(services)
         /\ WithNeeds(services) \subseteq DOMAIN file
         /\ WithNeeds(services) \cap Names(Launch) \subseteq run.start
<1>1. \A c \in run.start \cap DOMAIN file : c \in Names(Launch) => Targets(c) \subseteq run.start
  BY DEF Selected
<1> QED BY <1>1, NeedsWithin DEF Deployable

\* A component's own needs are within its selection.
LEMMA NeedsOf ==
  ASSUME Provided, Deployable, Selected, Valid, NEW c, Releasing(c)
  PROVE  /\ c \in Names(Launch) \cap DOMAIN file \cap run.start
         /\ Needs(c) \in SUBSET DOMAIN file
         /\ Needs(c) \cap Names(Launch) = Targets(c)
         /\ Targets(c) \subseteq run.start
         /\ WithNeeds(Needs(c)) \subseteq DOMAIN file
         /\ WithNeeds(Needs(c)) \cap Names(Launch) \subseteq run.start
<1>1. c \in out.components /\ c \in Names(Launch) \cap DOMAIN file
  BY DEF Releasing, Provided, Deployable
<1>2. c \in run.start BY <1>1 DEF Releasing, Selected
<1>3. Needs(c) \in SUBSET DOMAIN file BY <1>1 DEF Valid
<1>4. Needs(c) \cap Names(Launch) = Targets(c)
  BY <1>1 DEF Provided, Deployable, Needs, Targets, dependsOn, Comp
<1>5. Targets(c) \subseteq run.start BY <1>2 DEF Selected
<1> QED BY <1>1, <1>2, <1>3, <1>4, <1>5, NeedsSelected

\* What is in the file and has its release behind it, or has none, may be brought up.
LEMMA ReleasedOrNone ==
  ASSUME Provided, Deployable, NEW c \in Names(Launch) \cap DOMAIN file, c \in run.start,
         Releasing(c) => c \in run.released
  PROVE  Comp(c).release # <<>> => c \in run.released
<1>1. c \in out.components BY DEF Provided, Deployable
<1> QED BY <1>1 DEF Releasing

LEMMA TargetsNeeded ==
  ASSUME Provided, Deployable, NEW c \in Names(Launch) \cap DOMAIN file
  PROVE  Needs(c) \cap Names(Launch) = Targets(c)
BY DEF Provided, Deployable, Needs, Targets, dependsOn, Comp

\* A target that is still under way needs the component it is a target of, which
\* the file would not be valid with.
LEMMA NoTargetUnderWay ==
  ASSUME Visits, Provided, Deployable, Valid, run.visiting # <<>>,
         Head(run.visiting) \in DOMAIN file,
         NEW d \in Targets(Head(run.visiting)), d \in ToSet(run.visiting)
  PROVE  FALSE
<1> DEFINE path == run.visiting
           c == Head(path)
           W == WithNeeds(Needs(c))
<1>1. path \in Seq(Names(Launch)) /\ path # <<>> /\ c = path[1] /\ 1 \in DOMAIN path
  BY DEF Visits
<1>2. \A i \in DOMAIN path : i # 1 => path[i - 1] \in Targets(path[i])
  BY DEF Visits
<1>3. c \in Names(Launch) \cap DOMAIN file BY <1>1
<1>4. Needs(c) \subseteq W /\ W \subseteq DOMAIN file /\ \A s \in W : Needs(s) \subseteq W
  <2> DEFINE links == [s \in DOMAIN file |-> Needs(s)]
  <2>1. DOMAIN links = DOMAIN file /\ \A s \in DOMAIN file : links[s] = Needs(s)
    OBVIOUS
  <2>2. Needs(c) \in SUBSET DOMAIN file /\ \A s \in DOMAIN file : Needs(s) \subseteq DOMAIN file
    BY <1>3 DEF Valid
  <2>3. W = Closure(links, Needs(c)) BY DEF WithNeeds
  <2> HIDE DEF links, W, c
  <2>4. /\ Needs(c) \subseteq W /\ W \subseteq DOMAIN file
        /\ \A s \in W : links[s] \subseteq W
    BY <2>1, <2>2, <2>3, ClosureLeast
  <2> QED BY <2>1, <2>4
<1>5. PICK m \in DOMAIN path : path[m] = d BY DEF ToSet
<1> DEFINE T == {n \in 0..(m - 1) : path[m - n] \notin W}
<1>6. T = {}
  <2> SUFFICES ASSUME T # {} PROVE FALSE OBVIOUS
  <2>1. m \in Nat /\ m >= 1 /\ T \subseteq Nat BY <1>1, <1>5
  <2>2. PICK n \in T : \A k \in T : n <= k BY <2>1, Least
  <2>3. d \in W BY <1>3, <1>4, TargetsNeeded
  <2>4. n # 0 BY <1>5, <2>1, <2>2, <2>3
  <2>5. n \in Nat /\ n - 1 \in 0..(m - 1) /\ n - 1 \notin T BY <2>1, <2>2, <2>4
  <2> DEFINE i == m - (n - 1)
  <2>6. i \in DOMAIN path /\ i # 1 /\ i - 1 = m - n /\ path[i] \in W
    <3>1. n \in 0..(m - 1) BY <2>2
    <3>2. i \in 1..m /\ i # 1 /\ i - 1 = m - n BY <2>1, <2>4, <3>1
    <3>3. DOMAIN path = 1..Len(path) /\ Len(path) \in Nat BY <1>1
    <3>4. i \in DOMAIN path BY <1>5, <2>1, <3>2, <3>3
    <3> QED BY <2>5, <3>2, <3>4
  <2>7. path[i] \in Names(Launch) \cap DOMAIN file BY <1>1, <1>4, <2>6
  <2>8. path[i - 1] \in Targets(path[i]) BY <1>2, <2>6
  <2>9. path[i - 1] \in W BY <1>4, <2>6, <2>7, <2>8, TargetsNeeded
  <2> QED BY <2>2, <2>6, <2>9
<1>7. m - 1 \in 0..(m - 1) /\ m - (m - 1) = 1 BY <1>1, <1>5
<1>8. c \in W BY <1>1, <1>6, <1>7
<1> QED BY <1>3, <1>8 DEF Valid

\* Of a component that is done, everything its release brings up is done.
LEMMA DoneNeeds ==
  ASSUME Visits, Provided, Deployable, Valid, NEW c \in Names(Launch) \cap DOMAIN file,
         Targets(c) \subseteq run.done
  PROVE  /\ WithNeeds(Needs(c)) \subseteq DOMAIN file
         /\ WithNeeds(Needs(c)) \cap Names(Launch) \subseteq run.done
<1>1. Needs(c) \in SUBSET DOMAIN file BY DEF Valid
<1>2. Needs(c) \cap Names(Launch) \subseteq run.done BY TargetsNeeded
<1> QED BY <1>1, <1>2, NeedsWithin DEF Visits, Deployable

LEMMA PlaceOrders ==
  ASSUME RunShape(run), Visits, Planned, Provided, Deployable, Selected, Valid, Place,
         UNCHANGED <<opts, out, file>>
  PROVE  Visits' /\ Planned' /\ RunShape(run') /\ UNCHANGED <<run.start, run.selector,
           run.embedded, run.created, run.released>>
<1> DEFINE c == Head(run.visiting)
<1>1. /\ run.visiting # <<>> /\ Targets(c) \subseteq run.done \cup ToSet(run.visiting)
      /\ run' = [run EXCEPT !.visiting = Tail(@), !.done = @ \cup {c},
                            !.plan = IF Releasing(c) THEN Append(@, c) ELSE @]
  BY DEF Place
<1>2. /\ run'.visiting = Tail(run.visiting) /\ run'.done = run.done \cup {c}
      /\ run'.plan = IF Releasing(c) THEN Append(run.plan, c) ELSE run.plan
      /\ RunShape(run')
      /\ UNCHANGED <<run.start, run.selector, run.embedded, run.created, run.released>>
  BY <1>1 DEF RunShape
<1>3. run.visiting \in Seq(Names(Launch)) /\ c \in Names(Launch) BY <1>1 DEF Visits
<1>4. c \in DOMAIN file => Targets(c) \subseteq run.done
  BY <1>1, NoTargetUnderWay
<1>5. /\ Names(Launch)' = Names(Launch)
      /\ \A d : Targets(d)' = Targets(d) /\ Releasing(d)' = Releasing(d)
      /\ \A s : WithNeeds(Needs(s))' = WithNeeds(Needs(s))
  BY <1>2 DEF Targets, Comp, Launch, Releasing, Needs, WithNeeds
<1> HIDE DEF c
<1>6. \A d \in run.done \cup {c} : Releasing(d) => d \in ToSet(run'.plan)
  <2>1. run.plan \in Seq(Names(Launch)) BY DEF Planned
  <2>2. /\ \A i \in DOMAIN run.plan : i \in DOMAIN Append(run.plan, c) /\ Append(run.plan, c)[i] = run.plan[i]
        /\ Len(run.plan) + 1 \in DOMAIN Append(run.plan, c)
        /\ Append(run.plan, c)[Len(run.plan) + 1] = c
    BY <1>3, <2>1
  <2>3. ToSet(run.plan) \cup {c} \subseteq ToSet(Append(run.plan, c)) BY <2>2 DEF ToSet
  <2> QED BY <1>2, <2>3 DEF Visits
<1>7. Visits'
  <2>1. /\ Tail(run.visiting) \in Seq(Names(Launch))
        /\ \A i \in DOMAIN Tail(run.visiting) :
             /\ i \in Nat /\ i + 1 \in DOMAIN run.visiting
             /\ Tail(run.visiting)[i] = run.visiting[i + 1]
             /\ i # 1 => Tail(run.visiting)[i - 1] = run.visiting[i]
    BY <1>1, <1>3
  <2>2. ASSUME NEW i \in DOMAIN Tail(run.visiting), i # 1
        PROVE  Tail(run.visiting)[i - 1] \in Targets(Tail(run.visiting)[i])
    <3>1. i + 1 \in DOMAIN run.visiting /\ i + 1 # 1 /\ (i + 1) - 1 = i BY <2>1
    <3>2. run.visiting[i] \in Targets(run.visiting[i + 1]) BY <3>1, Zenon DEF Visits
    <3> QED BY <2>1, <2>2, <3>2
  <2>3. \A d \in (run.done \cup {c}) \cap DOMAIN file : Targets(d) \subseteq run.done \cup {c}
    BY <1>4 DEF Visits
  <2>4. run.done \cup {c} \subseteq Names(Launch) BY <1>3 DEF Visits
  <2>5. file' = file OBVIOUS
  <2> QED BY <1>2, <1>5, <1>6, <2>1, <2>2, <2>3, <2>4, <2>5 DEF Visits
<1>8. Planned'
  <2>1. CASE ~Releasing(c)
    <3>1. run'.plan = run.plan BY <1>2, <2>1
    <3>2. \A i \in DOMAIN run'.plan :
            /\ Releasing(run'.plan[i])
            /\ \A s \in WithNeeds(Needs(run'.plan[i])) :
                 Releasing(s) => s \in run.released \/ \E j \in 1..(i - 1) : run'.plan[j] = s
      BY <3>1, Zenon DEF Planned
    <3>3. run'.plan \in Seq(Names(Launch)) BY <3>1 DEF Planned
    <3> QED BY <1>2, <1>5, <3>2, <3>3 DEF Planned
  <2>2. CASE Releasing(c)
    <3> DEFINE n == Len(run.plan)
    <3>1. /\ run.plan \in Seq(Names(Launch)) /\ n \in Nat /\ DOMAIN run.plan = 1..n
          /\ run'.plan = Append(run.plan, c) /\ run'.plan \in Seq(Names(Launch))
          /\ DOMAIN run'.plan = 1..(n + 1) /\ run'.plan[n + 1] = c
          /\ \A i \in 1..n : run'.plan[i] = run.plan[i]
      BY <1>2, <1>3, <2>2 DEF Planned
    <3>2. c \in Names(Launch) \cap DOMAIN file BY <2>2, NeedsOf
    <3>3. ASSUME NEW s \in WithNeeds(Needs(c)), Releasing(s)
          PROVE  \E j \in 1..n : run.plan[j] = s
      <4>1. s \in Names(Launch) BY <3>3, NeedsOf
      <4>2. s \in run.done BY <1>4, <3>2, <3>3, <4>1, DoneNeeds
      <4>3. s \in ToSet(run.plan) BY <3>3, <4>2 DEF Visits
      <4> QED BY <3>1, <4>3 DEF ToSet
    <3>4. ASSUME NEW i \in 1..(n + 1)
          PROVE  /\ Releasing(run'.plan[i])
                 /\ \A s \in WithNeeds(Needs(run'.plan[i])) :
                      Releasing(s) => s \in run.released \/ \E j \in 1..(i - 1) : run'.plan[j] = s
      <4>1. CASE i = n + 1
        <5>1. 1..(i - 1) = 1..n BY <3>1, <4>1
        <5> QED BY <2>2, <3>1, <3>3, <4>1, <5>1
      <4>2. CASE i # n + 1
        <5>1. i \in 1..n /\ 1..(i - 1) \subseteq 1..n BY <3>1, <4>2
        <5>2. /\ Releasing(run.plan[i])
              /\ \A s \in WithNeeds(Needs(run.plan[i])) :
                   Releasing(s) => s \in run.released \/ \E j \in 1..(i - 1) : run.plan[j] = s
          BY <3>1, <5>1, Zenon DEF Planned
        <5>3. run'.plan[i] = run.plan[i] /\ \A j \in 1..(i - 1) : run'.plan[j] = run.plan[j]
          BY <3>1, <5>1
        <5> QED BY <5>2, <5>3
      <4> QED BY <4>1, <4>2
    <3> HIDE DEF n
    <3> QED BY <1>2, <1>5, <3>1, <3>4 DEF Planned
  <2> QED BY <2>1, <2>2
<1> QED BY <1>2, <1>7, <1>8

LEMMA VisitOrders ==
  ASSUME RunShape(run), Visits, Planned, Launch \in Launches, VisitDeclared \/ VisitTarget,
         UNCHANGED <<opts, out, file>>
  PROVE  Visits' /\ Planned' /\ RunShape(run') /\ UNCHANGED <<run.start, run.selector,
           run.embedded, run.created, run.released>>
<1>1. \E c \in Names(Launch) :
        /\ run' = [run EXCEPT !.visiting = <<c>> \o @]
        /\ run.visiting # <<>> => c \in Targets(Head(run.visiting))
  <2>1. CASE VisitDeclared
    <3>1. PICK i \in DOMAIN Launch.order : visit(Launch.order[i]) BY <2>1 DEF VisitDeclared
    <3>2. Launch.order[i] \in Names(Launch) BY DEF Names, ToSet
    <3>3. run.visiting = <<>> BY <2>1 DEF VisitDeclared
    <3> QED BY <3>1, <3>2, <3>3 DEF visit
  <2>2. CASE VisitTarget
    <3>1. PICK c \in Targets(Head(run.visiting)) : run.visiting # <<>> /\ visit(c)
      BY <2>2 DEF VisitTarget
    <3>2. Head(run.visiting) \in Names(Launch) BY <3>1 DEF Visits
    <3>3. c \in Names(Launch) BY <3>2 DEF Targets, dependsOn
    <3> QED BY <3>1, <3>3 DEF visit
  <2> QED BY <2>1, <2>2
<1>2. PICK c \in Names(Launch) :
        /\ run' = [run EXCEPT !.visiting = <<c>> \o @]
        /\ run.visiting # <<>> => c \in Targets(Head(run.visiting))
  BY <1>1
<1>3. /\ run'.visiting = <<c>> \o run.visiting /\ RunShape(run')
      /\ UNCHANGED <<run.done, run.plan, run.start, run.selector, run.embedded, run.created,
                     run.released>>
  BY <1>2 DEF RunShape
<1>4. /\ Names(Launch)' = Names(Launch)
      /\ \A d : Targets(d)' = Targets(d) /\ Releasing(d)' = Releasing(d)
      /\ \A s : WithNeeds(Needs(s))' = WithNeeds(Needs(s))
  BY <1>3 DEF Targets, Comp, Launch, Releasing, Needs, WithNeeds
<1>5. /\ run'.visiting \in Seq(Names(Launch)) /\ run'.visiting[1] = c
      /\ \A i \in DOMAIN run'.visiting : i # 1 =>
           /\ i - 1 \in DOMAIN run.visiting /\ run'.visiting[i] = run.visiting[i - 1]
           /\ i - 1 # 1 => run'.visiting[i - 1] = run.visiting[i - 2]
  BY <1>3 DEF Visits
<1>6. ASSUME NEW i \in DOMAIN run'.visiting, i # 1
      PROVE  run'.visiting[i - 1] \in Targets(run'.visiting[i])
  <2>1. i - 1 \in DOMAIN run.visiting /\ run'.visiting[i] = run.visiting[i - 1] BY <1>5, <1>6
  <2>2. run.visiting \in Seq(Names(Launch)) BY DEF Visits
  <2>3. CASE i - 1 = 1
    <3>1. run.visiting # <<>> /\ Head(run.visiting) = run.visiting[1] BY <2>1, <2>2, <2>3
    <3> QED BY <1>2, <1>5, <2>1, <2>3, <3>1
  <2>4. CASE i - 1 # 1
    <3>1. run.visiting[(i - 1) - 1] \in Targets(run.visiting[i - 1])
      BY <2>1, <2>4, Zenon DEF Visits
    <3>2. (i - 1) - 1 = i - 2 BY <1>5
    <3> QED BY <1>5, <1>6, <2>1, <2>4, <3>1, <3>2
  <2> QED BY <2>3, <2>4
<1>7. Visits'
  <2>1. \A d \in run'.done : Releasing(d) => d \in ToSet(run'.plan) BY <1>3 DEF Visits
  <2>2. run'.done \subseteq Names(Launch) BY <1>3 DEF Visits
  <2>3. \A d \in run'.done \cap DOMAIN file' : Targets(d) \subseteq run'.done
    BY <1>3 DEF Visits
  <2> QED BY <1>4, <1>5, <1>6, <2>1, <2>2, <2>3 DEF Visits
<1>8. Planned'
  <2>0. run'.plan = run.plan BY <1>3
  <2>1. \A i \in DOMAIN run'.plan :
          /\ Releasing(run'.plan[i])
          /\ \A s \in WithNeeds(Needs(run'.plan[i])) :
               Releasing(s) => s \in run.released \/ \E j \in 1..(i - 1) : run'.plan[j] = s
    BY <2>0, Zenon DEF Planned
  <2>2. run'.plan \in Seq(Names(Launch)) BY <1>3 DEF Planned
  <2> QED BY <1>3, <1>4, <2>1, <2>2 DEF Planned
<1> QED BY <1>3, <1>7, <1>8

\* The first of the plan is released, and what is to come after it still comes after
\* all that it needs.
LEMMA ReleaseOrders ==
  ASSUME RunShape(run), Planned, run.plan # <<>>, NEW created,
         run' = [run EXCEPT !.plan = Tail(@), !.released = @ \cup {Head(run.plan)},
                            !.created = created],
         UNCHANGED <<opts, out, file>>
  PROVE  /\ Planned' /\ RunShape(run') /\ run'.created = created
         /\ run'.released = run.released \cup {Head(run.plan)}
         /\ UNCHANGED <<run.start, run.selector, run.embedded>>
         /\ run.released \cup ToSet(run.plan) = run'.released \cup ToSet(run'.plan)
         /\ Releasing(Head(run.plan))
         /\ \A s \in WithNeeds(Needs(Head(run.plan))) : Releasing(s) => s \in run.released
<1> DEFINE plan == run.plan
           c == Head(plan)
<1>1. /\ run'.plan = Tail(plan) /\ run'.released = run.released \cup {c}
      /\ run'.created = created /\ RunShape(run')
      /\ UNCHANGED <<run.start, run.selector, run.embedded>>
  BY DEF RunShape
<1>2. /\ \A d : Releasing(d)' = Releasing(d) /\ Names(Launch)' = Names(Launch)
      /\ \A s : WithNeeds(Needs(s))' = WithNeeds(Needs(s))
  BY <1>1 DEF Comp, Launch, Releasing, Needs, WithNeeds
<1>3. plan \in Seq(Names(Launch)) /\ plan # <<>> BY DEF Planned
<1> DEFINE n == Len(plan)
<1>4. /\ n \in Nat /\ n >= 1 /\ DOMAIN plan = 1..n /\ c = plan[1]
      /\ DOMAIN Tail(plan) = 1..(n - 1) /\ Tail(plan) \in Seq(Names(Launch))
      /\ \A i \in 1..(n - 1) : Tail(plan)[i] = plan[i + 1]
  BY <1>3
<1>5. \A i \in DOMAIN plan :
        /\ Releasing(plan[i])
        /\ \A s \in WithNeeds(Needs(plan[i])) :
             Releasing(s) => s \in run.released \/ \E j \in 1..(i - 1) : plan[j] = s
  BY Zenon DEF Planned
<1>6. Releasing(c) /\ \A s \in WithNeeds(Needs(c)) : Releasing(s) => s \in run.released
  <2>1. 1 \in DOMAIN plan /\ 1..(1 - 1) = {} BY <1>4
  <2> QED BY <1>4, <1>5, <2>1
<1>7. ToSet(plan) = {c} \cup ToSet(Tail(plan))
  <2>1. \A i \in 1..n : i # 1 => i - 1 \in 1..(n - 1) /\ Tail(plan)[i - 1] = plan[i]
    BY <1>4
  <2>2. 1 \in 1..n /\ \A i \in 1..(n - 1) : i + 1 \in 1..n BY <1>4
  <2> HIDE DEF n, c, plan
  <2>3. ASSUME NEW i \in DOMAIN plan PROVE plan[i] = c \/ plan[i] \in ToSet(Tail(plan))
    <3>1. CASE i = 1 BY <1>4, <3>1
    <3>2. CASE i # 1
      <4>1. i - 1 \in DOMAIN Tail(plan) /\ Tail(plan)[i - 1] = plan[i] BY <1>4, <2>1, <3>2
      <4> QED BY <4>1 DEF ToSet
    <3> QED BY <3>1, <3>2
  <2>4. \A x \in ToSet(Tail(plan)) : x \in ToSet(plan) BY <1>4, <2>2 DEF ToSet
  <2>5. c \in ToSet(plan) BY <1>4, <2>2 DEF ToSet
  <2> QED BY <2>3, <2>4, <2>5 DEF ToSet
<1>8. /\ run'.plan \in Seq(Names(Launch)) /\ DOMAIN run'.plan = 1..(n - 1)
      /\ \A i \in 1..(n - 1) : run'.plan[i] = plan[i + 1]
  BY <1>1, <1>4
<1>9. ASSUME NEW i \in 1..(n - 1)
      PROVE  /\ Releasing(run'.plan[i])
             /\ \A s \in WithNeeds(Needs(run'.plan[i])) :
                  Releasing(s) => s \in run'.released \/ \E j \in 1..(i - 1) : run'.plan[j] = s
  <2>1. i + 1 \in DOMAIN plan /\ run'.plan[i] = plan[i + 1] BY <1>4, <1>8
  <2>2. \A j \in 1..((i + 1) - 1) :
          j # 1 => j - 1 \in 1..(i - 1) /\ run'.plan[j - 1] = plan[j]
    BY <1>4, <1>8
  <2>3. ASSUME NEW s \in WithNeeds(Needs(plan[i + 1])), Releasing(s)
        PROVE  s \in run'.released \/ \E j \in 1..(i - 1) : run'.plan[j] = s
    <3> HIDE DEF n, c, plan
    <3>1. s \in run.released \/ \E j \in 1..((i + 1) - 1) : plan[j] = s
      BY <1>5, <2>1, <2>3
    <3>2. ASSUME NEW j \in 1..((i + 1) - 1), plan[j] = s
          PROVE  s \in run'.released \/ \E k \in 1..(i - 1) : run'.plan[k] = s
      <4>1. CASE j = 1 BY <1>1, <1>4, <3>2, <4>1
      <4>2. CASE j # 1
        <5>1. j - 1 \in 1..(i - 1) /\ run'.plan[j - 1] = plan[j] BY <2>2, <4>2
        <5> QED BY <3>2, <5>1
      <4> QED BY <4>1, <4>2
    <3>3. run.released \subseteq run'.released BY <1>1
    <3> QED BY <3>1, <3>2, <3>3
  <2> HIDE DEF n, c, plan
  <2> QED BY <1>5, <2>1, <2>3
<1>10. Planned'
  <2> HIDE DEF n, c, plan
  <2>1. \A i \in DOMAIN run'.plan :
          /\ Releasing(run'.plan[i])
          /\ \A s \in WithNeeds(Needs(run'.plan[i])) :
               Releasing(s) => s \in run'.released \/ \E j \in 1..(i - 1) : run'.plan[j] = s
    BY <1>8, <1>9, Zenon
  <2> QED BY <1>2, <1>8, <2>1 DEF Planned
<1> QED BY <1>1, <1>6, <1>7, <1>10

\* What is deployed stays as it is while it is deployed.
LEMMA DeployStays ==
  ASSUME Launch \in Launches, Provided, Selected, Deployable, at' \in Deploying,
         UNCHANGED <<opts, out, file, run.start, run.selector, run.embedded>>
  PROVE  /\ Launch' \in Launches /\ Provided' /\ Selected' /\ Deployable'
         /\ Valid => Valid'
<1>1. Launch' = Launch BY DEF Launch
<1>2. Provided' BY <1>1, ProvidedStays DEF Deploying
<1>3. Selected' BY <1>1 DEF Selected, Targets
<1>4. Deployable' BY DEF Deployable
<1>5. Valid => Valid' BY DEF Valid, Needs, WithNeeds
<1> QED BY <1>1, <1>2, <1>3, <1>4, <1>5

LEMMA BeginsServing ==
  ASSUME NEW o, NEW held, launchToCompose(o, held), o.launch \in Launches,
         RunShape(run'), Unplanned', run'.created = {},
         ~run'.embedded => Selected'
  PROVE  IWhole' => IServing'
<1>1. /\ at' = "component" /\ opts' = o
      /\ \E key : out' = [NothingEmitted EXCEPT !.primary = key]
  BY DEF launchToCompose
<1>2. out'.services = <<>> /\ out'.components = {} BY <1>1 DEF NothingEmitted
<1>3. Launch' \in Launches BY <1>1 DEF Launch
<1>4. Provided' BY <1>1, <1>2 DEF Provided
<1>5. ReadyBeforeServing' /\ run'.created \subseteq DOMAIN containers'
  BY DEF ReadyBeforeServing
<1> QED BY <1>1, <1>3, <1>4, <1>5 DEF IServing, Generating, Deploying

LEMMA UpServing ==
  ASSUME NEW launch \in Launches, NEW request, Up(launch, request), IWhole'
  PROVE  IServing'
<1> DEFINE start == selectionClosure(launch, request.components)
           selector == request.components # {}
<1>1. /\ run' = [NoRun EXCEPT !.start = start, !.dry = request.dry, !.selector = selector]
      /\ \E o, held : launchToCompose(o, held) /\ o.launch = launch
  BY DEF Up
<1>2. PICK o, held : launchToCompose(o, held) /\ o.launch = launch BY <1>1
<1>3. Launch' = launch BY <1>2 DEF launchToCompose, Launch
<1>4. /\ start \subseteq Names(launch) /\ \A c \in start : dependsOn(launch)[c] \subseteq start
      /\ ~selector => start = Names(launch)
  BY SelectionCloses
<1> HIDE DEF start, selector
<1>5. /\ run'.start = start /\ run'.selector = selector /\ RunShape(run') /\ Unplanned'
      /\ run'.created = {}
  BY <1>1 DEF NoRun, RunShape, Unplanned
<1>6. Selected'
  <2>1. Names(Launch)' = Names(launch) /\ \A c : Targets(c)' = dependsOn(launch)[c]
    BY <1>3 DEF Targets
  <2> QED BY <1>4, <1>5, <2>1 DEF Selected
<1> QED BY <1>2, <1>5, <1>6, BeginsServing

LEMMA WriteServing ==
  ASSUME IServing, WriteFiles, IWhole' PROVE IServing'
<1>1. /\ at = "returned" /\ at' = "prepare" /\ file' = out.services /\ ~run.embedded
      /\ ~Blocked /\ UNCHANGED <<opts, out, run, containers>>
  BY DEF WriteFiles
<1>2. Launch \in Launches /\ Provided /\ Selected /\ Unplanned /\ Launch' = Launch
  BY <1>1 DEF IServing, Generating, Launch
<1>3. Provided' BY <1>1, <1>2, ProvidedStays
<1>4. Selected' BY <1>1, <1>2 DEF Selected, Targets
<1>5. Deployable'
  <2>1. \A g \in out.unsupplied \cup out.unbound : g[1] \notin launching
    BY <1>1 DEF Blocked, OfLaunching
  <2> QED BY <1>1, <2>1 DEF Deployable, launching
<1>6. ReadyBeforeServing' /\ run'.created \subseteq DOMAIN containers'
  BY <1>1, ReadyStays DEF IServing
<1>7. Unplanned' BY <1>1, <1>2 DEF Unplanned
<1>8. RunShape(run') BY <1>1 DEF IServing
<1> QED BY <1>1, <1>2, <1>3, <1>4, <1>5, <1>6, <1>7, <1>8 DEF IServing, Generating, Deploying

LEMMA PlanServing ==
  ASSUME IServing, Prepare \/ dependencyOrder \/ planReleases, IWhole' PROVE IServing'
<1>1. /\ at \in {"prepare", "plan"} /\ at' \in {"plan", "release"}
      /\ UNCHANGED <<opts, out, file, containers>>
  BY DEF Prepare, dependencyOrder, planReleases, Visited, Planning
<1>2. /\ Launch \in Launches /\ Provided /\ Selected /\ Deployable /\ RunShape(run)
      /\ ReadyBeforeServing /\ run.created \subseteq DOMAIN containers
  BY <1>1 DEF IServing, Deploying, Deployable
<1>3. ASSUME Valid, UNCHANGED <<run.start, run.selector, run.embedded, run.created,
                              run.released>>, RunShape(run')
      PROVE  /\ Launch' \in Launches /\ Provided' /\ Selected' /\ Deployable' /\ Valid'
             /\ ReadyBeforeServing' /\ run'.created \subseteq DOMAIN containers'
  BY <1>1, <1>2, <1>3, DeployStays, ReadyStays DEF Deploying
<1>4. CASE Prepare
  <2>1. at = "prepare" /\ at' = "plan" /\ Valid /\ run' = run
    BY <1>4 DEF Prepare
  <2>2. run.visiting = <<>> /\ run.done = {} /\ run.plan = <<>>
    BY <2>1 DEF IServing, Unplanned
  <2>3. Visits' /\ Planned' BY <2>1, <2>2 DEF Visits, Planned
  <2> QED BY <1>2, <1>3, <2>1, <2>3 DEF IServing, Generating, Deploying
<1>5. CASE dependencyOrder
  <2>1. /\ at = "plan" /\ at' = "plan" /\ (VisitDeclared \/ VisitTarget \/ Place)
        /\ Valid /\ Visits /\ Planned
    BY <1>5 DEF dependencyOrder, IServing
  <2>2. /\ Visits' /\ Planned' /\ RunShape(run')
        /\ UNCHANGED <<run.start, run.selector, run.embedded, run.created, run.released>>
    BY <1>1, <1>2, <2>1, VisitOrders, PlaceOrders
  <2> QED BY <1>3, <2>1, <2>2 DEF IServing, Generating, Deploying
<1>6. CASE planReleases
  <2>1. /\ at = "plan" /\ at' = "release" /\ run' = run /\ Names(Launch) \subseteq run.done
        /\ Valid /\ Visits /\ Planned
    BY <1>6 DEF planReleases, Visited, IServing
  <2>2. /\ Names(Launch)' = Names(Launch) /\ \A c : Releasing(c)' = Releasing(c)
        /\ \A s : WithNeeds(Needs(s))' = WithNeeds(Needs(s))
    BY <1>1, <2>1 DEF Releasing, Comp, Launch, Needs, WithNeeds
  <2>3. Planned' BY <2>1, <2>2 DEF Planned
  <2>4. \A c \in Names(Launch)' : Releasing(c)' => c \in run'.released \cup ToSet(run'.plan)
    BY <2>1, <2>2 DEF Visits
  <2> QED BY <1>2, <1>3, <2>1, <2>3, <2>4 DEF IServing, Generating, Deploying
<1> QED BY <1>4, <1>5, <1>6

LEMMA ReleaseServing ==
  ASSUME IServing, RunRelease, IWhole' PROVE IServing'
<1> DEFINE c == Head(run.plan)
           needed == WithNeeds(Needs(c))
           created == run.created \cup Stale(needed)
<1>1. /\ at = "release" /\ at' = at /\ run.plan # <<>> /\ Bring(needed)
      /\ run' = [run EXCEPT !.plan = Tail(@), !.released = @ \cup {c}, !.created = created]
      /\ UNCHANGED <<opts, out, file>>
  <2>1. run' = [run EXCEPT !.plan = Tail(@), !.released = @ \cup {c},
                           !.created = @ \cup Stale(needed)]
    BY Zenon DEF RunRelease
  <2>2. run' = [run EXCEPT !.plan = Tail(@), !.released = @ \cup {c}, !.created = created]
    <3> HIDE DEF c, needed
    <3> QED BY <2>1
  <2> QED BY <2>2, Zenon DEF RunRelease, genVars
<1>2. /\ Launch \in Launches /\ Provided /\ Selected /\ Deployable /\ RunShape(run) /\ Valid
      /\ ReadyBeforeServing /\ run.created \subseteq DOMAIN containers /\ Planned
  BY <1>1 DEF IServing, Deploying, Deployable
<1> HIDE DEF created
<1>3. /\ Planned' /\ RunShape(run') /\ run'.created = created
      /\ run'.released = run.released \cup {c}
      /\ UNCHANGED <<run.start, run.selector, run.embedded>>
      /\ run.released \cup ToSet(run.plan) = run'.released \cup ToSet(run'.plan)
      /\ Releasing(c) /\ \A s \in needed : Releasing(s) => s \in run.released
  BY <1>1, <1>2, ReleaseOrders
<1>4. needed \subseteq DOMAIN file /\ needed \cap Names(Launch) \subseteq run.start
  BY <1>2, <1>3, NeedsOf
<1>5. \A s \in needed \cap Names(Launch) :
        s \in run.start /\ (Comp(s).release # <<>> => s \in run'.released)
  BY <1>2, <1>3, <1>4, ReleasedOrNone
<1> HIDE DEF c, needed
<1>6. ReadyBeforeServing' /\ run'.created \subseteq DOMAIN containers'
  BY <1>1, <1>2, <1>3, <1>4, <1>5, BringsReady DEF created
<1>7. Launch' \in Launches /\ Provided' /\ Selected' /\ Deployable' /\ Valid'
  BY <1>1, <1>2, <1>3, DeployStays DEF Deploying
<1>8. \A d \in Names(Launch)' : Releasing(d)' => d \in run'.released \cup ToSet(run'.plan)
  <2>1. Names(Launch)' = Names(Launch) /\ \A d : Releasing(d)' = Releasing(d)
    BY <1>1, <1>3 DEF Releasing, Comp, Launch
  <2> QED BY <1>1, <1>3, <2>1 DEF IServing
<1> QED BY <1>1, <1>3, <1>6, <1>7, <1>8 DEF IServing, Generating, Deploying

\* Whichever services a command brings up, all of them released: it goes on to
\* the health gate, or the `up` is over.
LEMMA BringServing ==
  ASSUME IServing, IWhole', at = "release", at' \in {"health", "idle"},
         UNCHANGED <<opts, out, file>>, NEW up \in SUBSET DOMAIN file, Bring(up), Created(up),
         \A c \in up \cap Names(Launch) :
           c \in run.start /\ (Comp(c).release # <<>> => c \in run.released)
  PROVE  IServing'
<1>1. /\ Launch \in Launches /\ Provided /\ Selected /\ Deployable /\ RunShape(run) /\ Valid
      /\ ReadyBeforeServing /\ run.created \subseteq DOMAIN containers
  BY DEF IServing, Deploying, Deployable
<1>2. /\ run'.created = run.created \cup Stale(up) /\ RunShape(run')
      /\ UNCHANGED <<run.start, run.selector, run.embedded, run.released>>
  <2> DEFINE created == run.created \cup Stale(up)
  <2>1. run' = [run EXCEPT !.created = created] BY DEF Created
  <2> HIDE DEF created
  <2>2. /\ run'.created = created /\ RunShape(run')
        /\ UNCHANGED <<run.start, run.selector, run.embedded, run.released>>
    BY <1>1, <2>1 DEF RunShape
  <2> QED BY <2>2 DEF created
<1>3. ReadyBeforeServing' /\ run'.created \subseteq DOMAIN containers'
  BY <1>1, <1>2, BringsReady
<1>4. at' = "health" =>
        Launch' \in Launches /\ Provided' /\ Selected' /\ Deployable' /\ Valid'
  BY <1>1, <1>2, DeployStays DEF Deploying
<1> QED BY <1>2, <1>3, <1>4 DEF IServing, Generating, Deploying

LEMMA StartServing ==
  ASSUME IServing, ReleaseFails \/ StartServices \/ StartFails, IWhole' PROVE IServing'
<1>1. /\ at = "release" /\ at' \in {"health", "idle"} /\ UNCHANGED <<opts, out, file>>
  <2>1. CASE ReleaseFails BY <2>1, Zenon DEF ReleaseFails, End
  <2>2. CASE StartServices BY <2>2, Zenon DEF StartServices, AtStart
  <2>3. CASE StartFails BY <2>3, Zenon DEF StartFails, AtStart, End
  <2> QED BY <2>1, <2>2, <2>3
<1>2. /\ Launch \in Launches /\ Provided /\ Selected /\ Deployable /\ RunShape(run) /\ Valid
      /\ Planned
  BY <1>1 DEF IServing, Deploying, Deployable
<1>3. CASE ReleaseFails
  <2> DEFINE needed == WithNeeds(Needs(Head(run.plan)))
  <2>1. PICK up \in SUBSET needed : Bring(up) /\ Created(up) /\ run.plan # <<>>
    BY <1>3, Zenon DEF ReleaseFails, Begun
  <2>2. /\ Releasing(Head(run.plan))
        /\ \A s \in needed : Releasing(s) => s \in run.released
    <3>1. /\ run.plan \in Seq(Names(Launch)) /\ 1 \in DOMAIN run.plan
          /\ Head(run.plan) = run.plan[1] /\ 1..(1 - 1) = {}
      BY <1>2, <2>1 DEF Planned
    <3>2. /\ Releasing(run.plan[1])
          /\ \A s \in WithNeeds(Needs(run.plan[1])) :
               Releasing(s) => s \in run.released \/ \E j \in 1..(1 - 1) : run.plan[j] = s
      BY <1>2, <3>1, Zenon DEF Planned
    <3> QED BY <3>1, <3>2
  <2>3. needed \subseteq DOMAIN file /\ needed \cap Names(Launch) \subseteq run.start
    BY <1>2, <2>2, NeedsOf
  <2>4. \A s \in needed \cap Names(Launch) :
          s \in run.start /\ (Comp(s).release # <<>> => s \in run.released)
    BY <1>2, <2>2, <2>3, ReleasedOrNone
  <2> HIDE DEF needed
  <2> QED BY <1>1, <2>1, <2>3, <2>4, BringServing
<1>4. CASE StartServices \/ StartFails
  <2> DEFINE services == WithNeeds(Asked)
  <2>1. /\ run.plan = <<>>
        /\ \A s \in Names(Launch) : Releasing(s) => s \in run.released
    <3>1. run.plan = <<>> BY <1>4, Zenon DEF StartServices, StartFails, AtStart
    <3>2. ToSet(run.plan) = {} BY <3>1 DEF ToSet
    <3> QED BY <1>1, <3>1, <3>2 DEF IServing
  <2>2. CASE ~Rejected
    <3>1. Asked \in SUBSET DOMAIN file BY <2>2 DEF Rejected
    <3>2. Asked \cap Names(Launch) \subseteq run.start BY <1>2 DEF Asked, Selected
    <3>3. services \subseteq DOMAIN file /\ services \cap Names(Launch) \subseteq run.start
      BY <1>2, <3>1, <3>2, NeedsSelected
    <3>4. \A s \in services \cap Names(Launch) :
            s \in run.start /\ (Comp(s).release # <<>> => s \in run.released)
      BY <1>2, <2>1, <3>3, ReleasedOrNone
    <3>5. \E up \in SUBSET services : Bring(up) /\ Created(up)
      <4>1. CASE StartServices BY <4>1, Zenon DEF StartServices
      <4>2. CASE StartFails
        <5>1. \E up \in Begun(services) : Bring(up) /\ Created(up)
          BY <2>2, <4>2, Zenon DEF StartFails
        <5> QED BY <5>1, Zenon DEF Begun
      <4> QED BY <1>4, <4>1, <4>2
    <3> HIDE DEF services
    <3> QED BY <1>1, <3>3, <3>4, <3>5, BringServing
  <2>3. CASE Rejected
    <3>1. Bring({}) /\ Created({})
      <4>1. StartFails BY <1>4, <2>3 DEF StartServices
      <4>2. \E up \in {{}} : Bring(up) /\ Created(up)
        BY <2>3, <4>1, Zenon DEF StartFails
      <4> QED BY <4>2
    <3> QED BY <1>1, <3>1, BringServing
  <2> QED BY <2>2, <2>3
<1> QED BY <1>3, <1>4

LEMMA ServingStep == ASSUME NamesApart, IServing, [Next]_vars PROVE IServing'
<1>0. IWhole' BY WholeStep DEF IServing
<1>1. ASSUME NEW launch \in Launches, NEW request \in Requests, Up(launch, request)
      PROVE  IServing'
  BY <1>0, <1>1, UpServing
<1>2. ASSUME NEW launch \in Launches, NEW supply \in Embeddings, Embed(launch, supply)
      PROVE  IServing'
  <2>1. /\ run' = [NoRun EXCEPT !.embedded = TRUE]
        /\ \E o : launchToCompose(o, initState) /\ o.launch = launch
    BY <1>2 DEF Embed
  <2>2. RunShape(run') /\ Unplanned' /\ run'.created = {} /\ run'.embedded
    BY <2>1 DEF NoRun, RunShape, Unplanned
  <2> QED BY <1>0, <2>1, <2>2, BeginsServing
<1>3. CASE Translates
  <2>1. /\ at \in Generating /\ at' \in Generating \cup {"thrown"}
        /\ opts' = opts /\ run' = run /\ containers' = containers
    BY <1>3, TranslateMints, TranslatesOn DEF Translates, upVars, Generate, Skip, Translate, Fail,
      WireHost, applySuppliedResource, OmitOptional, Provision, Emit, Return
  <2>2. /\ Launch \in Launches /\ Provided /\ (~run.embedded => Selected) /\ Unplanned
        /\ IWhole /\ Launch' = Launch
    BY <2>1 DEF IServing, Launch
  <2>3. at' # "thrown" => Provided' BY <1>3, <2>2, ProvidedNext
  <2>4. ~run.embedded => Selected' BY <2>1, <2>2 DEF Selected, Targets
  <2>5. Unplanned' BY <2>1, <2>2 DEF Unplanned
  <2>6. ReadyBeforeServing' /\ run'.created \subseteq DOMAIN containers'
    BY <2>1, ReadyStays DEF IServing
  <2>7. RunShape(run') BY <2>1 DEF IServing
  <2> QED BY <1>0, <2>1, <2>2, <2>3, <2>4, <2>5, <2>6, <2>7 DEF IServing, Generating, Deploying
<1>4. CASE GenerateFails \/ Embedded \/ RefuseUp \/ Preview \/ PrepareFails \/ PlanFails
             \/ waitForHealth \/ HealthTimesOut
  <2>1. at' = "idle" /\ UNCHANGED <<opts, run, containers>>
    BY <1>4 DEF GenerateFails, Embedded, RefuseUp, Preview, PrepareFails, PlanFails,
      waitForHealth, HealthTimesOut, AbortUp, End, upVars
  <2>2. ReadyBeforeServing' /\ run'.created \subseteq DOMAIN containers'
    BY <2>1, ReadyStays DEF IServing
  <2>3. RunShape(run') BY <2>1 DEF IServing
  <2> QED BY <1>0, <2>1, <2>2, <2>3 DEF IServing, Generating, Deploying
<1>5. CASE Down \/ \E stopped \in BOOLEAN : Destroy(stopped)
  <2>1. at' = "idle" /\ run' = NoRun BY <1>5 DEF Down, Destroy, genVars
  <2>2. RunShape(run') /\ run'.created = {} BY <2>1 DEF NoRun, RunShape
  <2> QED BY <1>0, <2>1, <2>2 DEF IServing, Generating, Deploying, ReadyBeforeServing
<1>6. CASE UNCHANGED vars
  <2>1. UNCHANGED <<at, opts, out, cur, file, run, containers>>
    BY <1>6 DEF vars, genVars, upVars
  <2> QED BY <1>0, <2>1 DEF IServing, Launch, Comp, Provided, Selected, Targets, Unplanned,
        Deployable, Valid, WithNeeds, Needs, Visits, Planned, Releasing, ReadyBeforeServing,
        RunShape
<1> QED BY <1>0, <1>1, <1>2, <1>3, <1>4, <1>5, <1>6, WriteServing, PlanServing,
      ReleaseServing, StartServing DEF Next, Translating, Translates

\* No container of a component is created before its release has run, nor
\* without a required variable or an operator volume, for any Launchfiles none of
\* which names a component as one of its resources is typed (D-50, D-52).
THEOREM ReadyBeforeServingAlways ==
  ASSUME NamesApart PROVE Spec => []ReadyBeforeServing
<1>1. Init => IServing
  <2> SUFFICES ASSUME Init PROVE IServing OBVIOUS
  <2>1. IWhole BY WholeInit
  <2>2. at = "idle" /\ run = NoRun BY DEF Init
  <2>3. RunShape(run) /\ run.created = {} BY <2>2 DEF NoRun, RunShape
  <2> QED BY <2>1, <2>2, <2>3 DEF IServing, Generating, Deploying, ReadyBeforeServing
<1>2. IServing /\ [Next]_vars => IServing' BY ServingStep
<1>3. IServing => ReadyBeforeServing BY DEF IServing
<1> QED BY <1>1, <1>2, <1>3, PTL DEF Spec
=============================================================================
