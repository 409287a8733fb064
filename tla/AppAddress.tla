----------------------------- MODULE AppAddress -----------------------------
(***************************************************************************)
(* Where a deployment's endpoints are reached: app-url.ts and              *)
(* certificates.ts of the docker provider.  An endpoint is published under *)
(* the key <<component, i>>, i its place among the component's exposed     *)
(* entries.  Of an address's six fields, which one function derives        *)
(* together, the url is kept: <<"address", scheme, port>>, the supplied    *)
(* publication URL <<"supplied", scheme>>, or Empty.                       *)
(***************************************************************************)
EXTENDS Launchfile

NoKey == <<"no endpoint">>

\* Certificates: a supplied one activates the binding of its name, and one
\* supplied in part refuses the component that binds it.
Bound(comp) ==
  {e.cert : e \in ToSet(certificateBindings(comp))}
    \cap {s.key : s \in {r \in ToSet(comp.supports) : ~r.host /\ r.type = Certificate}}

Complete(properties) == {<<"cert_file">>, <<"key_file">>} \subseteq properties

planCertificates(launch, resources) ==
  LET selected(c) == Bound(launch.comp[c]) \cap DOMAIN resources
  IN  [active   |-> {k \in UNION {selected(c) : c \in Names(launch)} : Complete(resources[k])},
       refusals |-> {c \in Names(launch) : \E k \in selected(c) : ~Complete(resources[k])}]

-----------------------------------------------------------------------------
publishedAddress(protocol, port) ==
  <<"address", IF protocol = "https" THEN "https" ELSE "http", port>>

\* With no port allocated for its key, an endpoint answers at its own port.
publishedEndpointAddresses(launch, c, hostPorts, active) ==
  LET entries == publishedEndpoints(launch.comp[c])
      address(i) ==
        LET key      == <<c, i>>
            protocol == effectiveProtocol(entries[i], active)
            port     == IF key \in DOMAIN hostPorts THEN hostPorts[key]
                        ELSE <<"container", c, i>>
        IN  [key |-> key, name |-> entries[i].name, protocol |-> protocol,
             port |-> port, url |-> publishedAddress(protocol, port)]
  IN  [i \in DOMAIN entries |-> address(i)]

\* The one `https-origin` entry a file may have names the primary endpoint,
\* and without one the first published endpoint is it.
Origins(launch) ==
  LET origins(comp) == {e \in ToSet(Entries(comp)) :
        /\ e.type = HttpsOrigin
        /\ \E p \in ToSet(publishedEndpoints(comp)) : p.name = e.endpoint}
  IN  UNION {{c} \X origins(launch.comp[c]) : c \in Names(launch)}

declaredPrimaryEndpoint(launch, appUrl) ==
  IF Origins(launch) = {} THEN [key |-> NoKey, refused |-> FALSE]
  ELSE LET o == CHOOSE pair \in Origins(launch) : TRUE
           i == CHOOSE n \in DOMAIN publishedEndpoints(launch.comp[o[1]]) :
                  publishedEndpoints(launch.comp[o[1]])[n].name = o[2].endpoint
       IN  [key |-> <<o[1], i>>, refused |-> o[2].required /\ ~httpsOriginSatisfied(appUrl)]

primaryPublishedEndpoint(launch) ==
  LET declared  == declaredPrimaryEndpoint(launch, "none").key
      publisher == SelectSeq(launch.order, LAMBDA c : publishedEndpoints(launch.comp[c]) # <<>>)
  IN  IF declared # NoKey THEN declared
      ELSE IF publisher = <<>> THEN NoKey ELSE <<Head(publisher), 1>>

HttpFamily == {"http", "https", "ws", "grpc"}

\* `$app.*` and `$app.endpoints.<name>.*` from one derivation: a refused primary
\* keeps its place and has no address, and a supplied URL speaks for the
\* primary alone.
computeAppContext(launch, hostPorts, appUrl, active) ==
  LET primary == primaryPublishedEndpoint(launch)
      published == UNION {ToSet(publishedEndpointAddresses(launch, c, hostPorts, active)) :
                            c \in Names(launch)}
      url == IF declaredPrimaryEndpoint(launch, appUrl).refused THEN Empty
             ELSE IF appUrl # "none" THEN <<"supplied", appUrl>>
             ELSE IF \A p \in published : p.key # primary THEN Empty
             ELSE (CHOOSE p \in published : p.key = primary).url
      named == {p \in published : p.name # ""}
      public(p) == IF p.key = primary THEN url
                   ELSE IF appUrl # "none" \/ p.protocol \notin HttpFamily THEN Empty
                   ELSE p.url
  IN  [app |-> [url |-> url, name |-> <<"name">>], primary |-> primary,
       endpoints |-> [n \in {p.name : p \in named} |-> public(CHOOSE p \in named : p.name = n)]]

\* The key a printout puts the supplied URL on: a declared primary's, or a
\* positional one's that speaks http.
printedPrimaryEndpoint(launch, primary, protocol) ==
  IF primary = NoKey \/ declaredPrimaryEndpoint(launch, "none").key = primary
     \/ protocol \in {"http", "https"}
  THEN primary ELSE NoKey
=============================================================================
