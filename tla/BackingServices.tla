-------------------------- MODULE BackingServices ---------------------------
(***************************************************************************)
(* What the docker provider can stand up behind a component: the types it  *)
(* has a factory for, the passwords each mints, the properties each        *)
(* registers, the uses it covers, and the split of the passwords from the  *)
(* Launchfile's own secrets.  A minted value is <<"minted", round, space,  *)
(* key>>: values minted in different rounds or for different keys differ.  *)
(***************************************************************************)
EXTENDS Launchfile

SqlTypes == {"postgres", "mysql", "mariadb"}
ObjectStoreTypes == {"minio", "s3"}

\* The keys a type's factory mints its passwords under, none for an open one.
passwordKeys(type) ==
  CASE type \in SqlTypes \cup {"mongodb", "elasticsearch", "rabbitmq", "clickhouse"} -> {type}
    [] type = "minio" -> {"minio-access", "minio-secret"}
    [] type = "s3"    -> {"s3-access", "s3-secret"}
    [] OTHER          -> {}

Factories == SqlTypes \cup ObjectStoreTypes \cup
  {"redis", "mongodb", "clickhouse", "elasticsearch", "memcache", "rabbitmq", "kafka"}

\* A cache keeps no data; clickhouse takes its password afresh at every start.
KeepsData(type) == type # "memcache"
BakesPassword(type) == type # "clickhouse"

ResourcePasswordKeys == UNION {passwordKeys(t) : t \in Factories}

\* The password a type's url and password properties carry.
Credential(type, passwords) ==
  IF type \in passwordKeys(type) THEN passwords[type] ELSE Empty

Properties(type, passwords) ==
  Only(<<"host">>, <<"host", type>>)
    ++ Only(<<"url">>, <<"url", type, Credential(type, passwords), <<"instance">>>>)
    ++ Only(<<"password">>, Credential(type, passwords))

\* Faulty: a value is minted whether or not one is held.
MintAnew(held, keys, space, round) ==
  [k \in keys |-> <<"minted", round, space, k>>] ++ held

\* Reuse what is held, mint the rest.
Mint(held, keys, space, round) ==
  held ++ [k \in keys |-> <<"minted", round, space, k>>]

\* Faulty: what an old state file carries stays where it was.
LeaveResourcePasswords(held, declared) == held

\* An old state file has its passwords among the secrets: they move across,
\* and a name the Launchfile declares itself stays in both.
migrateResourcePasswords(held, declared) ==
  LET carried == DOMAIN held.secrets \cap ResourcePasswordKeys
  IN  [held EXCEPT !.passwords = @ ++ Restrict(held.secrets, carried),
                   !.secrets = Restrict(@, DOMAIN @ \ (carried \ declared))]

declaredSecrets(declared, secrets) == Restrict(secrets, declared \cap DOMAIN secrets)

-----------------------------------------------------------------------------
(* Uses: per type, each covered use and whether it may be named.           *)

Coverage(type) ==
  CASE type = "redis"   -> [db |-> TRUE, pubsub |-> FALSE, server |-> FALSE]
    [] type \in SqlTypes -> [database |-> TRUE, server |-> FALSE]
    [] OTHER            -> <<>>

Covers(type, use) ==
  use[1] \in DOMAIN Coverage(type) /\ (use[2] = "" \/ Coverage(type)[use[1]])

usePropertyKeys(use) ==
  {<<use[1], use[2], p>> : p \in CASE use[1] = "db" -> {"url", "index"}
                          [] use[1] = "database" -> {"url", "name"}
                          [] OTHER -> {}}

uncoveredProvisionedUses(entry) == {u \in useKeys(entry) : ~Covers(entry.type, u)}

uncoveredSuppliedUses(entry, supplied) ==
  {u \in useKeys(entry) : ~Covers(entry.type, u) \/ ~(usePropertyKeys(u) \subseteq supplied)}

\* The database a use stands for: its own index, 0 if it was allocated none, its
\* own name, or the instance's one for a bare `database`.
DatabaseOf(use, indexes) ==
  IF use[1] = "db" THEN <<"db", IF use \in DOMAIN indexes THEN indexes[use] ELSE 0>>
  ELSE IF use[2] = "" THEN <<"instance">> ELSE <<"database", use[2]>>

\* Faulty: a use's url is the instance's.
withInstanceUrls(type, uses, base, indexes) ==
  base ++ [p \in UNION {usePropertyKeys(u) : u \in {v \in uses : Covers(type, v)}} |->
             base[<<"url">>]]

withCoveredUses(type, uses, base, indexes) ==
  LET property(p) ==
        LET database == DatabaseOf(<<p[1], p[2]>>, indexes)
        IN  IF p[3] = "url" THEN [base[<<"url">>] EXCEPT ![4] = database] ELSE database
  IN  base ++ [p \in UNION {usePropertyKeys(u) : u \in {v \in uses : Covers(type, v)}} |->
                 property(p)]
=============================================================================
