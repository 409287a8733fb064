----------------------------- MODULE MCDockerUp -----------------------------
(***************************************************************************)
(* DockerUp for a shop of two components, whose Launchfile is edited       *)
(* between one `up` and the next: what a component requires moves, is      *)
(* renamed or has no provisioner, secrets take reserved names, components  *)
(* are declared in either order.                                           *)
(***************************************************************************)
EXTENDS DockerUp

MCUseNames == <<"jobs", "sessions">>

Plain == [source |-> "image", requires |-> <<>>, supports |-> <<>>, hostBlock |-> <<>>,
          provides |-> <<>>, env |-> <<>>, depends |-> <<>>, storage |-> <<>>,
          checked |-> FALSE, restart |-> "", schedule |-> FALSE, release |-> <<>>]

Needed(type, key, env) ==
  [type |-> type, key |-> key, host |-> FALSE, required |-> TRUE, uses |-> <<>>,
   endpoint |-> "", env |-> env]
Wanted(type, key, env) == [Needed(type, key, env) EXCEPT !.required = FALSE]
Using(entry, uses)     == [entry EXCEPT !.uses = uses]
Hosted(entry)          == [entry EXCEPT !.host = TRUE]

Endpoint(name, cert) ==
  [name |-> name, protocol |-> "http", exposed |-> TRUE, cert |-> cert]

Variable(kind, ref) == [kind |-> kind, ref |-> ref]

Database == Needed("postgres", "postgres", "DATABASE_URL" :> <<"url">>)
Queue    == Using(Needed("redis", "queue",
                         ("QUEUE" :> <<"queue", "db", "url">>)
                           @@ ("JOBS" :> <<"queue", "db", "jobs", "url">>)),
                  <<<<"db", "">>, <<"db", "jobs">>>>)
Cache    == Using(Needed("redis", "cache", "CACHE" :> <<"cache", "db", "sessions", "url">>),
                  <<<<"db", "sessions">>>>)

\* web serves, worker depends on it and both have releases.
Shop ==
  [order |-> <<"worker", "web">>, secrets |-> {"key"}, bucketName |-> TRUE,
   comp |-> ("web" :> [Plain EXCEPT
                !.requires = <<Database>>, !.provides = <<Endpoint("ui", "")>>,
                !.release = <<"secrets", "key">>, !.checked = TRUE,
                !.env = ("KEY" :> Variable("default", <<"secrets", "key">>))
                          @@ ("TOKEN" :> Variable("secret", <<>>))
                          @@ ("MAIL" :> Variable("required", <<>>))])
        @@ ("worker" :> [Plain EXCEPT
                !.requires = <<Queue, Cache>>, !.depends = "web" :> "healthy",
                !.release = <<"app", "url">>, !.restart = "on-failure",
                !.env = ("TOKEN" :> Variable("uuid", <<>>))])]

\* The web component is refused, the worker kept; `postgres` is a secret.
Edited ==
  [order |-> <<"web", "worker">>, secrets |-> {"postgres"}, bucketName |-> FALSE,
   comp |-> ("web" :> [Plain EXCEPT
                !.requires = <<Database, Needed("minio", "minio", <<>>)>>,
                !.provides = <<Endpoint("ui", "tls")>>,
                !.env = ("TOKEN" :> Variable("secret", <<>>))])
        @@ ("worker" :> [Plain EXCEPT
                !.source = "build", !.schedule = TRUE,
                !.env = ("DB" :> Variable("default", <<"secrets", "postgres">>))
                          @@ ("PORT" :> Variable("port", <<>>)),
                !.storage = "media" :> "operator" @@ "spool" :> "own"])]

\* A named database, an origin, a certificate and a host capability.
Grown ==
  [order |-> <<"web", "worker">>, secrets |-> {}, bucketName |-> TRUE,
   comp |-> ("web" :> [Plain EXCEPT
                !.requires = <<Using(Database, <<<<"database", "jobs">>>>),
                               [Needed(HttpsOrigin, HttpsOrigin, "ORIGIN" :> <<"url">>)
                                  EXCEPT !.endpoint = "ui"]>>,
                !.supports = <<Wanted("smtp", "smtp", "MAIL_URL" :> <<"url">>),
                               Wanted(Certificate, "tls", <<>>),
                               Hosted(Wanted("container_runtime", "container_runtime",
                                             "SOCKET" :> <<"socket">>))>>,
                !.provides = <<Endpoint("ui", "tls")>>])
        @@ ("worker" :> [Plain EXCEPT !.requires = <<Queue>>, !.depends = "web" :> "started",
                !.env = ("URL" :> Variable("default", <<"components", "web", "url">>))])]

\* A use is read before its resource is there, or asked for what it does not
\* register; a release resolves to nothing.
Hasty ==
  [Shop EXCEPT !.comp["worker"].env = "URL" :> Variable("default", <<"queue", "db", "url">>)]
Empties == [Shop EXCEPT !.comp["worker"].release = <<"secrets", "none">>]

Misread ==
  [Shop EXCEPT !.order = <<"web", "worker">>,
     !.comp["web"].requires =
       <<Using(Needed("postgres", "postgres", "URL" :> <<"postgres", "database", "jobs", "host">>),
               <<<<"database", "jobs">>>>)>>]

MCLaunches == {Shop, Edited, Grown, Hasty, Misread, Empties}

Plainly == [components |-> {}, appUrl |-> "none", env |-> {"MAIL"}, paths |-> {},
            local |-> TRUE, dry |-> FALSE]

MCRequests ==
  {[Plainly EXCEPT !.env = {}],
   [Plainly EXCEPT !.appUrl = "https", !.paths = {<<"worker", "media">>}],
   [Plainly EXCEPT !.components = {"worker"}, !.local = FALSE],
   [Plainly EXCEPT !.components = {"web"}, !.dry = TRUE]}

MCEmbeddings ==
  {[resources |-> ("postgres" :> {<<"url">>, <<"database", "jobs", "name">>,
                                  <<"database", "jobs", "url">>})
                    @@ ("smtp" :> {<<"url">>})
                    @@ ("tls" :> {<<"cert_file">>, <<"key_file">>}),
    policy |-> "container_runtime" :> [props |-> {<<"socket">>},
                                       mount |-> <<"sock", "bind">>, network |-> FALSE],
    appUrl |-> "https"],
   [resources |-> ("postgres" :> {<<"url">>}) @@ ("tls" :> {<<"cert_file">>}),
    policy |-> <<>>, appUrl |-> "https"]}

\* What DockerUpProofs assumes of the Launchfiles.
ASSUME ProjectAssumption == NamesApart /\ OneTypePerKey
=============================================================================
