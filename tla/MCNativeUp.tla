----------------------------- MODULE MCNativeUp -----------------------------
(***************************************************************************)
(* NativeUp for a shop of two components whose Launchfile, dependency      *)
(* files and `up` flags change from one command to the next.               *)
(***************************************************************************)
EXTENDS NativeUp

MCUseNames == <<"jobs", "sessions">>
MCLockfiles == <<"bun.lock", "package-lock.json">>

MCContents ==
  <<<<>>, ("package-lock.json" :> 1) @@ ("bun.lock" :> 1)>>

Plain == [requires |-> <<>>, supports |-> <<>>, hostBlock |-> <<>>, provides |-> <<>>,
          env |-> <<>>, depends |-> <<>>, storage |-> <<>>, bootstrap |-> <<>>,
          prepare |-> "", dir |-> ".", runs |-> TRUE]

Needed(type, key, env) ==
  [type |-> type, key |-> key, host |-> FALSE, required |-> TRUE, uses |-> <<>>,
   endpoint |-> "", env |-> env]
Wanted(type, key, env) == [Needed(type, key, env) EXCEPT !.required = FALSE]
Using(entry, uses)     == [entry EXCEPT !.uses = uses]

Endpoint(name, cert) == [name |-> name, protocol |-> "http", exposed |-> TRUE, cert |-> cert]
Variable(kind, ref)  == [kind |-> kind, ref |-> ref]

Database == Needed("postgres", "postgres", "DATABASE_URL" :> <<"url">>)
Queue    == Using(Needed("redis", "queue", "QUEUE" :> <<"queue", "db", "url">>), <<<<"db", "">>>>)
Reports  == Wanted("mariadb", "mysql", "DB" :> <<"url">>)
Cache    == Using(Needed("redis", "cache", "CACHE" :> <<"cache", "db", "url">>), <<<<"db", "">>>>)

\* web serves, worker depends on it and reads the operator's volume; one command
\* prepares both.
Shop ==
  [order |-> <<"web", "worker">>, secrets |-> {"key"},
   comp |-> ("web" :> [Plain EXCEPT
                !.requires = <<Using(Database, <<<<"database", "jobs">>>>)>>,
                !.provides = <<Endpoint("ui", "")>>, !.prepare = "make",
                !.env = ("KEY" :> Variable("default", <<"secrets", "key">>))
                          @@ ("TOKEN" :> Variable("secret", <<>>))])
        @@ ("worker" :> [Plain EXCEPT
                !.requires = <<Queue, Database>>, !.supports = <<Reports>>,
                !.depends = "web" :> "started", !.prepare = "make",
                !.storage = "media" :> "operator" @@ "spool" :> "own",
                !.env = ("API" :> Variable("default", <<"components", "web", "ui", "url">>))
                          @@ ("MAIL" :> Variable("required", <<>>))
                          @@ ("MEDIA" :> Variable("default", <<"storage", "media", "path">>))])]

\* The primary is declared and its component refused; another database and two
\* more variables are declared; the package manager prepares them.
Edited ==
  [order |-> <<"web", "worker">>, secrets |-> {},
   comp |-> ("web" :> [Plain EXCEPT
                !.requires = <<Using(Database, <<<<"database", "sessions">>>>),
                               Needed("mongodb", "mongodb", <<>>)>>,
                !.supports = <<[Wanted(HttpsOrigin, HttpsOrigin, "ORIGIN" :> <<"url">>)
                                  EXCEPT !.endpoint = "ui"]>>,
                !.provides = <<Endpoint("ui", "")>>, !.bootstrap = <<"app", "url">>,
                !.env = ("TOKEN" :> Variable("secret", <<>>))
                          @@ ("SEED" :> Variable("uuid", <<>>))])
        @@ ("worker" :> [Plain EXCEPT
                !.requires = <<Needed("sqlite", "sqlite", "FILE" :> <<"path">>)>>,
                !.supports = <<Reports>>,
                !.provides = <<Endpoint("", "")>>,
                !.env = ("LISTEN" :> Variable("port", <<>>))
                          @@ ("ID" :> Variable("uuid", <<>>))])]

\* Each component uses a redis of its own.
Queues == [Shop EXCEPT !.comp["web"].requires = <<Cache>>,
                       !.comp["worker"] = [Plain EXCEPT !.requires = <<Queue>>]]

\* Two databases of one product, told apart by name.
Named == [Shop EXCEPT !.comp["worker"] = [Plain EXCEPT !.requires =
                        <<Needed("postgres", "reports", "REPORTS" :> <<"url">>)>>]]

MCLaunches   == "shop" :> Shop @@ "edited" :> Edited
MCQueues     == "queues" :> Queues
MCNamed      == "named" :> Named

Plainly == [components |-> {}, env |-> {}, paths |-> {}, appUrl |-> "none", optional |-> FALSE,
            noBuild |-> FALSE, detach |-> FALSE, dry |-> FALSE, taken |-> FALSE]

MCRequests ==
  {[Plainly EXCEPT !.env = {"MAIL"}, !.paths = {<<"", "media">>}],
   [Plainly EXCEPT !.appUrl = "https", !.optional = TRUE, !.taken = TRUE, !.noBuild = TRUE,
                   !.detach = TRUE],
   [Plainly EXCEPT !.components = {"web"}, !.dry = TRUE]}

MCSelective == {[Plainly EXCEPT !.components = {c}, !.detach = TRUE] : c \in {"web", "worker"}}
MCPlain     == {Plainly}

\* Of the two, the worker is the one that may come late.
FewLate == \A p \in alive : p.late => p.component = "worker"

\* What the theorems about NativeUp need, these projects have.
ASSUME ProjectAssumption == KeysStaySql /\ KeysKeepServer
=============================================================================
