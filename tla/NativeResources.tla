-------------------------- MODULE NativeResources ---------------------------
(***************************************************************************)
(* What the native provider's provisioners hand out: the servers behind    *)
(* the resource types, the record each leaves in state.json, the           *)
(* properties it registers and the uses it covers.                         *)
(*                                                                         *)
(* Every app on the machine shares one server per product, so what stands  *)
(* for an app is a role and its databases; both are named after the app.   *)
(* A minted value is <<"minted", by, space, key>>, `by` the command that   *)
(* minted it.                                                              *)
(***************************************************************************)
EXTENDS Launchfile

SqlTypes     == {"postgres", "mysql", "mariadb"}
Provisioners == SqlTypes \cup {"redis", "sqlite"}

\* MariaDB entries are provisioned as MySQL, and recorded so.
Server(type) == IF type = "mariadb" THEN "mysql" ELSE type
Servers      == {Server(t) : t \in SqlTypes}

NoRecord == [type |-> "none", password |-> Empty, databases |-> {}, indexes |-> <<>>]

Minted(by, space, key) == <<"minted", by, space, key>>

\* Faulty: a password is generated whatever is on record.
generatedPassword(existing, key, by) == Minted(by, "password", key)

\* The password on record is the role's; only without one is one generated.
reusedPassword(existing, key, by) ==
  IF existing.password # Empty THEN existing.password ELSE Minted(by, "password", key)

\* The record a provisioner completes before it creates anything.  Databases
\* that are no longer named stay on it: only `destroy` drops them.
ResourceState(type, key, existing, names, indexes, by) ==
  IF type \in SqlTypes
  THEN [type |-> Server(type), password |-> reusedPassword(existing, key, by),
        databases |-> names \cup existing.databases, indexes |-> indexes]
  ELSE [NoRecord EXCEPT !.type = type, !.indexes = indexes]

\* loadState drops a sqlite record: its port 0 is no port.
validResources(resources) ==
  Restrict(resources, {k \in DOMAIN resources : resources[k].type # "sqlite"})

-----------------------------------------------------------------------------
(* Properties: a url is <<"url", type, password, database>>.               *)

\* A file has no password and no host, and redis's instance is its database 0.
Properties(record) ==
  LET database == CASE record.type = "redis"  -> <<"db", 0>>
                    [] record.type = "sqlite" -> <<"file">>
                    [] OTHER -> <<"instance">>
      url == Only(<<"url">>, <<"url", record.type, record.password, database>>)
  IN  IF record.type = "sqlite" THEN url ++ Only(<<"path">>, database)
      ELSE url ++ Only(<<"host">>, <<"localhost">>) ++ Only(<<"password">>, record.password)

\* What a dry run registers instead.
Placeholder == Only(<<"url">>, <<"url", "none", Empty, <<"none">>>>)
                 ++ Only(<<"host">>, <<"localhost">>)

Coverage(type) ==
  CASE type = "redis"      -> [db |-> TRUE, pubsub |-> FALSE, server |-> FALSE]
    [] type \in SqlTypes   -> [database |-> TRUE, server |-> FALSE]
    [] OTHER               -> <<>>

\* A name is covered only on a use that may repeat.
coverageOf(type, use) ==
  use[1] \in DOMAIN Coverage(type) /\ (use[2] = "" \/ Coverage(type)[use[1]])

uncoveredUses(type, uses) == {u \in uses : ~coverageOf(type, u)}
coveredUses(type, uses)   == {u \in uses : coverageOf(type, u)}

coverUse(use, base, indexes) ==
  LET url(database) == [base[<<"url">>] EXCEPT ![4] = database]
  IN  CASE use[1] = "db" ->
             Only(use \o <<"url">>, url(<<"db", indexes[use]>>))
               ++ Only(use \o <<"index">>, <<"db", indexes[use]>>)
        [] use[1] = "database" /\ use[2] = "" ->
             Only(use \o <<"url">>, base[<<"url">>]) ++ Only(use \o <<"name">>, base[<<"url">>][4])
        [] use[1] = "database" /\ use[2] # "" ->
             Only(use \o <<"url">>, url(<<"database", use[2]>>))
               ++ Only(use \o <<"name">>, <<"database", use[2]>>)
        [] OTHER -> <<>>

withCoveredUses(uses, base, indexes) ==
  LET covers(u) == coverUse(u, base, indexes)
  IN  [p \in UNION {DOMAIN covers(u) : u \in uses} |->
         covers(CHOOSE u \in uses : p \in DOMAIN covers(u))[p]] ++ base

\* A pooled `db` use with no index on record stays unregistered, so that its
\* reference throws and never falls through to the instance.
registerResource(type, key, uses, base, indexes) ==
  LET pooled == IF key \in DOMAIN uses THEN coveredUses(type, uses[key]) ELSE {}
  IN  withCoveredUses({u \in pooled : u[1] = "db" => u \in DOMAIN indexes}, base, indexes)
=============================================================================
