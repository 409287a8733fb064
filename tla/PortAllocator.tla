---------------------------- MODULE PortAllocator ----------------------------
(***************************************************************************)
(* The host ports of a deployment: `up` goes through its endpoints in file *)
(* order and probes, for each, the port it had last time, the port it      *)
(* declares, and a range from a hashed place onwards; the outcome is saved *)
(* in the state file and then published.                                   *)
(*                                                                         *)
(* Nothing reserves a port between its probe and its publication: each     *)
(* probe is an await, and meanwhile others, the deployment of a second     *)
(* worktree among them, bind and release ports, and the deployment's own   *)
(* containers end. A slot is a port of one wire protocol. One `up` of the  *)
(* deployment runs at a time.                                              *)
(***************************************************************************)
EXTENDS Naturals

CONSTANTS
  Endpoint,    \* numbers, in file order; the native provider has one a component
  Declared,    \* the port each declares, or NoPort
  Protocol,    \* the wire protocol of each
  Base, Range, \* the fallback range: Base, ..., Base + Range - 1
  Preferred,   \* where in it the scan for an endpoint begins
  Files,       \* the sets of endpoints the Launchfile may expose
  Contested,   \* the slots others use
  Docker,      \* the docker provider's allocator, or the native one
  NoPort

Port == {Base + k : k \in 0..(Range - 1)} \cup {Declared[e] : e \in Endpoint}
Slot == (Port \ {NoPort}) \X {"tcp", "udp"}

ASSUME PortAllocatorAssumption ==
  /\ Endpoint \subseteq Nat
  /\ Base \in Nat /\ Range \in Nat \ {0}
  /\ NoPort \notin {Base + k : k \in 0..(Range - 1)}
  /\ Protocol \in [Endpoint -> {"tcp", "udp"}]
  /\ Preferred \in [Endpoint -> Nat]
  /\ Files \subseteq SUBSET Endpoint
  /\ Contested \subseteq Slot
  /\ Docker \in BOOLEAN

VARIABLES
  file,    \* the endpoints the Launchfile exposes
  saved,   \* DockerState.ports / LaunchState.ports
  bound,   \* who holds each slot: nobody, this deployment, others
  up,      \* `up`: idle, allocating, starting
  todo,    \* the endpoints without a port yet
  try,     \* how many candidates the next one has been refused
  result,  \* the ports allocated so far
  own,     \* the slots `docker compose ps` said the deployment holds
  \* Seen by the reader of the model only:
  snatched,\* the slots others have bound since the `up` began
  clear    \* what runs could be asked, and nobody else has held a saved port

upVars == <<up, todo, try, result, own>>
vars == <<file, saved, bound, upVars, snatched, clear>>

Ports == [Endpoint -> Port \cup {NoPort}]
NoPorts == [e \in Endpoint |-> NoPort]

TypeOK ==
  /\ file \in SUBSET Endpoint
  /\ saved \in Ports
  /\ bound \in [Slot -> {"nobody", "us", "others"}]
  /\ up \in {"idle", "allocating", "starting"}
  /\ todo \in SUBSET Endpoint
  /\ try \in 0..(Range + 1)
  /\ result \in Ports
  /\ own \in SUBSET Slot
  /\ snatched \in SUBSET Slot
  /\ clear \in BOOLEAN

-----------------------------------------------------------------------------
Has(ports, e) == ports[e] # NoPort
portSlot(ports, e) == <<ports[e], Protocol[e]>>
Slots(ports) == {portSlot(ports, e) : e \in {f \in Endpoint : Has(ports, f)}}

Held == {s \in Slot : bound[s] = "us"}
Foreign == {s \in Slot : bound[s] = "others"}

\* The endpoint whose turn it is, in file order.
IsNext(e) == \A f \in todo : e <= f

\* The candidates of an endpoint, in the order they are probed.
Candidate(e) ==
  CASE try = 0 -> saved[e]
    [] try = 1 -> Declared[e]
    [] OTHER   -> Base + ((Preferred[e] + try - 2) % Range)

Init ==
  /\ file \in Files
  /\ saved = NoPorts
  /\ bound \in [Slot -> {"nobody", "others"}]
  /\ Foreign \subseteq Contested
  /\ up = "idle"
  /\ todo = {}
  /\ try = 0
  /\ result = NoPorts
  /\ own = {}
  /\ snatched = {}
  /\ clear = FALSE

-----------------------------------------------------------------------------
(* up                                                                      *)

\* Faulty: what runs is not asked.
BeginUpUnasked ==
  /\ up = "idle"
  /\ up' = "allocating"
  /\ todo' = file
  /\ own' = {}
  /\ clear' = (Slots(saved) \cap Foreign = {})
  /\ UNCHANGED <<file, saved, bound, try, result, snatched>>

\* The docker provider asks what the deployment publishes, and goes on without
\* an answer.
BeginUp ==
  /\ up = "idle"
  /\ up' = "allocating"
  /\ todo' = file
  /\ \E answered \in BOOLEAN :
       /\ own' = IF Docker /\ saved # NoPorts /\ answered THEN Held ELSE {}
       /\ clear' = (answered /\ Slots(saved) \cap Foreign = {})
  /\ UNCHANGED <<file, saved, bound, try, result, snatched>>

\* Faulty: a saved port is not compared with those given, or not probed.
dockerAcceptsGiven(s) ==
  /\ try = 0 \/ s \notin Slots(result)
  /\ bound[s] = "nobody" \/ (try = 0 /\ s \in own)

dockerAcceptsUnprobed(s) ==
  /\ s \notin Slots(result)
  /\ bound[s] = "nobody" \/ try = 0

\* A saved port needs no probe when the deployment's own containers hold it.
dockerAccepts(s) ==
  /\ s \notin Slots(result)
  /\ bound[s] = "nobody" \/ (try = 0 /\ s \in own)

\* A saved port is not compared with the ports already given.
macosAccepts(s) ==
  /\ try = 0 \/ s \notin Slots(result)
  /\ bound[s] = "nobody"

Accepts(e) ==
  /\ Candidate(e) # NoPort
  /\ LET s == <<Candidate(e), Protocol[e]>>
     IN  IF Docker THEN dockerAccepts(s) ELSE macosAccepts(s)

\* The next candidate is probed and taken...
Take(e) ==
  /\ up = "allocating" /\ IsNext(e) /\ Accepts(e)
  /\ result' = [result EXCEPT ![e] = Candidate(e)]
  /\ todo' = todo \ {e}
  /\ try' = 0
  /\ UNCHANGED <<file, saved, bound, up, own, snatched, clear>>

\* Faulty: the scan goes round once more.
PassOverAgain(e) ==
  /\ up = "allocating" /\ IsNext(e) /\ ~Accepts(e)
  /\ try <= Range + 1
  /\ try' = try + 1
  /\ UNCHANGED <<file, saved, bound, up, todo, result, own, snatched, clear>>

\* ... or passed over.
PassOver(e) ==
  /\ up = "allocating" /\ IsNext(e) /\ ~Accepts(e)
  /\ try <= Range
  /\ try' = try + 1
  /\ UNCHANGED <<file, saved, bound, up, todo, result, own, snatched, clear>>

\* The whole map replaces the one in the state file.
SavePorts ==
  /\ up = "allocating" /\ todo = {}
  /\ saved' = result
  /\ up' = "starting"
  /\ UNCHANGED <<file, bound, todo, try, result, own, snatched, clear>>

EndUp ==
  /\ up' = "idle"
  /\ todo' = {}
  /\ try' = 0
  /\ result' = NoPorts
  /\ own' = {}
  /\ snatched' = {}
  /\ clear' = FALSE
  /\ UNCHANGED <<file, saved>>

\* `up` is killed, finds the range used up, or refuses what was allocated.
GiveUp ==
  /\ up # "idle"
  /\ EndUp
  /\ UNCHANGED bound

\* The deployment comes to hold exactly the slots of S.
Hold(S) == bound' = [s \in Slot |-> IF s \in S THEN "us"
                                    ELSE IF bound[s] = "us" THEN "nobody"
                                    ELSE bound[s]]

\* Containers are recreated with the new ports; native processes that an
\* earlier `up` left are not touched.
Publish ==
  /\ up = "starting"
  /\ Slots(result) \cap Foreign = {}
  /\ Hold(Slots(result) \cup (IF Docker THEN {} ELSE Held))
  /\ EndUp

\* Some port is taken: what depends on it does not start, the rest may.
PublishFails ==
  /\ up = "starting"
  /\ Slots(result) \cap Foreign # {}
  /\ \E S \in SUBSET (Held \cup (Slots(result) \ Foreign)) :
       /\ Docker \/ Held \subseteq S
       /\ Hold(S)
  /\ EndUp

-----------------------------------------------------------------------------
(* Meanwhile                                                               *)

\* The Launchfile is edited between two `up`s.
Edit ==
  /\ up = "idle"
  /\ \E F \in Files : file' = F
  /\ UNCHANGED <<saved, bound, upVars, snatched, clear>>

\* Containers or processes end, by `down` or by themselves.
End ==
  /\ \E S \in SUBSET Held : S # Held /\ Hold(S)
  /\ UNCHANGED <<file, saved, upVars, snatched, clear>>

\* `down --destroy` removes the state file too.
Destroy ==
  /\ up = "idle"
  /\ saved' = NoPorts
  /\ Hold({})
  /\ UNCHANGED <<file, upVars, snatched, clear>>

OthersBind(s) ==
  /\ bound[s] = "nobody"
  /\ bound' = [bound EXCEPT ![s] = "others"]
  /\ snatched' = IF up = "idle" THEN {} ELSE snatched \cup {s}
  /\ clear' = (clear /\ s \notin Slots(saved))
  /\ UNCHANGED <<file, saved, upVars>>

OthersRelease(s) ==
  /\ bound[s] = "others"
  /\ bound' = [bound EXCEPT ![s] = "nobody"]
  /\ UNCHANGED <<file, saved, upVars, snatched, clear>>

-----------------------------------------------------------------------------
Next == \/ BeginUp \/ SavePorts \/ GiveUp \/ Publish \/ PublishFails
        \/ \E e \in todo : Take(e) \/ PassOver(e)
        \/ Edit \/ End \/ Destroy
        \/ \E s \in Contested : OthersBind(s) \/ OthersRelease(s)

Spec == Init /\ [][Next]_vars

-----------------------------------------------------------------------------
(* Properties                                                              *)

Distinct(ports) ==
  \A e, f \in Endpoint :
    e # f /\ Has(ports, e) /\ Has(ports, f) => portSlot(ports, e) # portSlot(ports, f)

\* Two endpoints never get the same port of one protocol, however the
\* Launchfile has been edited since their ports were saved.
PortsDistinct == Distinct(result) /\ Distinct(saved)

\* A port that `up` is going to publish is free, or its own, or somebody bound
\* it after the `up` began: no stale answer makes it settle on a busy port.
AllocatedFree == Slots(result) \cap Foreign \subseteq snatched

\* An `up` of an unchanged deployment, running or stopped, keeps its ports
\* unless somebody else held one of them or what runs could not be asked.
PortsKept ==
  /\ up = "allocating" /\ todo = {} /\ clear
  /\ \A e \in file : Has(saved, e)
  => \A e \in file : result[e] = saved[e]
=============================================================================
