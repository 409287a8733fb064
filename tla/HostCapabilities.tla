-------------------------- MODULE HostCapabilities --------------------------
(***************************************************************************)
(* Granting or refusing a component's host capabilities.  A policy maps    *)
(* the capabilities the caller grants to what it grants: `props`, the      *)
(* coordinates, `mount`, <<path, source>> or <<>>, and `network`, whether  *)
(* the service leaves the project's network.  An optional capability is    *)
(* one under `supports`; a legacy block key is an entry that wires nothing.*)
(***************************************************************************)
EXTENDS Launchfile

\* The requests in the order they are put to the policy.
Pending(comp) ==
  LET hosted(s)   == SelectSeq(s, LAMBDA e : e.host)
      legacy(req) == SelectSeq(comp.hostBlock, LAMBDA e : e.required = req)
  IN  hosted(comp.requires) \o legacy(TRUE) \o hosted(comp.supports) \o legacy(FALSE)

Reserved == {"app", "secrets", "components", "storage"}

\* The properties an entry's set_env reads of its own resource, by `$property`
\* or by its name, that are not there.
missingSuppliedRefs(entry, properties) ==
  LET refs  == {entry.env[v] : v \in DOMAIN entry.env}
      own   == {r \in refs : Len(r) = 1}
      named == {r \in refs \ own : r[1] = entry.key /\ r[1] \notin Reserved}
  IN  (own \cup {Tail(r) : r \in named}) \ properties

\* A named volume, or a second mount on a path that is already mounted.
grantConflict(grant, mounted) ==
  grant.mount # <<>> /\ (\/ grant.mount[2] = "volume"
                         \/ \E m \in mounted : m[1] = grant.mount[1] /\ m # grant.mount)

\* Each grant is checked against the service's mounts and every earlier grant's.
Decide(policy, sofar, entry) ==
  IF /\ entry.type \in DOMAIN policy
     /\ missingSuppliedRefs(entry, policy[entry.type].props) = {}
     /\ ~grantConflict(policy[entry.type], sofar.mounted)
  THEN [sofar EXCEPT !.granted = @ \cup {entry},
                     !.mounted = @ \cup ({policy[entry.type].mount} \ {<<>>})]
  ELSE IF entry.required THEN [sofar EXCEPT !.refused = @ \cup {entry.type}] ELSE sofar

resolveHostCapabilities(comp, policy) ==
  LET step(sofar, entry) == Decide(policy, sofar, entry)
  IN  FoldLeft(step, [refused |-> {}, granted |-> {},
                      mounted |-> {<<v, "storage">> : v \in DOMAIN comp.storage}],
               Pending(comp))

\* Whether the granted service stays on the project's network.
OnNetwork(policy, granted) == \A e \in granted : ~policy[e.type].network
=============================================================================
