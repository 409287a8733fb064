------------------------- MODULE PortAllocatorProofs -------------------------
(***************************************************************************)
(* For any endpoints, ports and Launchfiles: type correctness and          *)
(* AllocatedFree of both allocators, PortsDistinct and PortsKept of the    *)
(* docker provider's, and how much of PortsDistinct the native one has.    *)
(***************************************************************************)
EXTENDS PortAllocator, TLAPS

LEMMA SlotsTyped ==
  ASSUME NEW p \in Ports
  PROVE  Slots(p) \subseteq Slot
BY PortAllocatorAssumption DEF Ports, Slots, portSlot, Has, Slot

LEMMA Constants ==
  /\ Endpoint \subseteq Nat /\ Files \subseteq SUBSET Endpoint
  /\ Range \in Nat /\ Range > 0 /\ 0 \in 0..(Range + 1)
BY PortAllocatorAssumption

LEMMA NoPortsTyped == NoPorts \in Ports
BY DEF NoPorts, Ports

LEMMA CandidateTyped ==
  ASSUME TypeOK, NEW e \in Endpoint
  PROVE  Candidate(e) \in Port \cup {NoPort}
<1>1. CASE try = 0
  BY <1>1 DEF Candidate, TypeOK, Ports
<1>2. CASE try = 1
  BY <1>2 DEF Candidate, Port
<1>3. CASE try # 0 /\ try # 1
  <2>1. try - 2 \in Nat /\ Preferred[e] \in Nat
    BY <1>3, PortAllocatorAssumption DEF TypeOK
  <2>2. (Preferred[e] + (try - 2)) % Range \in 0..(Range - 1)
    BY <2>1, PortAllocatorAssumption
  <2>3. Preferred[e] + try - 2 = Preferred[e] + (try - 2)
    BY <2>1, PortAllocatorAssumption DEF TypeOK
  <2>. QED BY <1>3, <2>2, <2>3 DEF Candidate, Port
<1>. QED BY <1>1, <1>2, <1>3

\* Type correctness: every reachable state of an allocator is well typed.
THEOREM TypeCorrect == Spec => []TypeOK
<1>1. Init => TypeOK
  BY Constants, NoPortsTyped DEF Init, TypeOK
<1>2. TypeOK /\ [Next]_vars => TypeOK'
  <2>. SUFFICES ASSUME TypeOK, [Next]_vars PROVE TypeOK'
    OBVIOUS
  <2>. USE Constants, NoPortsTyped DEF TypeOK
  <2>1. CASE BeginUp
    BY <2>1 DEF BeginUp, Held
  <2>2. CASE \E e \in todo : Take(e)
    <3>1. PICK e \in todo : Take(e)
      BY <2>2
    <3>2. Candidate(e) \in Port \cup {NoPort}
      BY CandidateTyped
    <3>. QED BY <3>1, <3>2 DEF Take, Ports
  <2>3. CASE \E e \in todo : PassOver(e)
    BY <2>3 DEF PassOver
  <2>4. CASE SavePorts
    BY <2>4 DEF SavePorts
  <2>5. CASE GiveUp
    BY <2>5 DEF GiveUp, EndUp
  <2>6. CASE Publish
    BY <2>6 DEF Publish, EndUp, Hold
  <2>7. CASE PublishFails
    BY <2>7 DEF PublishFails, EndUp, Hold
  <2>8. CASE Edit
    BY <2>8 DEF Edit, upVars
  <2>9. CASE End
    BY <2>9 DEF End, upVars, Hold
  <2>10. CASE Destroy
    BY <2>10 DEF Destroy, upVars, Hold
  <2>11. CASE \E s \in Contested : OthersBind(s) \/ OthersRelease(s)
    <3>1. Contested \subseteq Slot
      BY PortAllocatorAssumption
    <3>. QED BY <2>11, <3>1 DEF OthersBind, OthersRelease, upVars
  <2>12. CASE UNCHANGED vars
    BY <2>12 DEF vars, upVars
  <2>. QED BY <2>1, <2>2, <2>3, <2>4, <2>5, <2>6, <2>7, <2>8, <2>9, <2>10,
              <2>11, <2>12 DEF Next
<1>. QED BY <1>1, <1>2, PTL DEF Spec

-----------------------------------------------------------------------------
(* PortsDistinct and AllocatedFree                                         *)

\* What the state carries from one probe to the next: only the endpoints done
\* have a port, what the deployment was said to hold is its own or has been
\* snatched, and the ports given differ: the native allocator's as long as no
\* saved port is taken unseen.
SlotInv ==
  /\ Docker => Distinct(saved)
  /\ Docker \/ saved = NoPorts => Distinct(result)
  /\ \A e \in todo : ~Has(result, e)
  /\ up = "idle" => result = NoPorts /\ own = {} /\ snatched = {} /\ try = 0
  /\ own \cap Foreign \subseteq snatched
  /\ Slots(result) \cap Foreign \subseteq snatched

LEMMA NoPortsDistinct == Distinct(NoPorts) /\ Slots(NoPorts) = {}
BY DEF Distinct, Slots, Has, NoPorts

LEMMA SlotInvInductive ==
  ASSUME TypeOK, TypeOK', SlotInv, [Next]_vars
  PROVE  SlotInv'
<1>. USE DEF SlotInv
<1>1. CASE BeginUp
  <2>1. result = NoPorts /\ snatched = {} /\ UNCHANGED <<saved, result, bound, snatched>>
    BY <1>1 DEF BeginUp
  <2>2. own' \cap Foreign' = {}
    BY <1>1 DEF BeginUp, Held, Foreign
  <2>. QED BY <1>1, <2>1, <2>2, NoPortsDistinct DEF BeginUp, Has, NoPorts, Distinct, Slots, Foreign, TypeOK
<1>2. CASE \E e \in todo : Take(e)
  <2>1. PICK e \in todo : Take(e)
    BY <1>2
  <2>2. e \in Endpoint /\ ~Has(result, e)
    BY DEF TypeOK
  <2>. DEFINE s == <<Candidate(e), Protocol[e]>>
  <2>3. /\ Docker \/ saved = NoPorts => s \notin Slots(result)
        /\ bound[s] = "nobody" \/ s \in own
    <3>1. Candidate(e) # NoPort /\ IF Docker THEN dockerAccepts(s) ELSE macosAccepts(s)
      BY <2>1 DEF Take, Accepts
    <3>2. saved = NoPorts => try # 0
      BY <2>2, <3>1 DEF Candidate, NoPorts
    <3>. QED BY <3>1, <3>2 DEF dockerAccepts, macosAccepts
  <2>4. result' = [result EXCEPT ![e] = Candidate(e)] /\ result \in Ports
    BY <2>1 DEF Take, TypeOK
  <2>5. portSlot(result', e) = s /\ \A f \in Endpoint \ {e} : result'[f] = result[f]
    BY <2>2, <2>4 DEF portSlot, Ports
  <2>6. ASSUME Docker \/ saved = NoPorts
        PROVE  \A f \in Endpoint \ {e} : Has(result, f) => portSlot(result, f) # s
    BY <2>3, <2>6 DEF Slots
  <2>7. Docker \/ saved = NoPorts => Distinct(result')
    BY <2>5, <2>6 DEF Distinct, Has, portSlot
  <2>8. Slots(result') \subseteq Slots(result) \cup {s}
    BY <2>5 DEF Slots, Has, portSlot
  <2>9. s \in Foreign => s \in snatched
    BY <2>3 DEF Foreign
  <2>10. UNCHANGED <<saved, bound, up, own, snatched>> /\ todo' = todo \ {e}
         /\ up = "allocating"
    BY <2>1 DEF Take
  <2>11. \A f \in todo' : ~Has(result', f)
    BY <2>5, <2>10 DEF Has, TypeOK
  <2>12. Slots(result)' = Slots(result')
    BY DEF Slots, Has, portSlot
  <2>13. Foreign' = Foreign
    BY <2>10 DEF Foreign
  <2>14. /\ Docker => Distinct(saved)'
         /\ Docker \/ saved' = NoPorts => Distinct(result)'
    BY <2>7, <2>10 DEF Distinct, Has, portSlot
  <2>15. (Slots(result) \cap Foreign \subseteq snatched)'
    BY <2>8, <2>9, <2>10, <2>12, <2>13
  <2>. QED BY <2>10, <2>11, <2>13, <2>14, <2>15 DEF Has
<1>3. CASE \E e \in todo : PassOver(e)
  BY <1>3 DEF PassOver, Distinct, Slots, Has, portSlot, Foreign
<1>4. CASE SavePorts
  <2>1. /\ saved' = result /\ up' = "starting" /\ up = "allocating"
        /\ UNCHANGED <<bound, todo, try, result, own, snatched>>
    BY <1>4 DEF SavePorts
  <2>2. result = NoPorts => Distinct(result)'
    BY <2>1, NoPortsDistinct DEF Distinct, Has, portSlot
  <2>. QED BY <2>1, <2>2 DEF Distinct, Slots, Has, portSlot, Foreign
<1>5. CASE EndUp
  <2>1. /\ result' = NoPorts /\ todo' = {} /\ own' = {} /\ snatched' = {}
        /\ saved' = saved /\ try' = 0
    BY <1>5 DEF EndUp
  <2>. QED BY <2>1, NoPortsDistinct DEF Distinct, Slots, Has, portSlot, Foreign
<1>6. CASE Edit
  BY <1>6 DEF Edit, upVars, Distinct, Slots, Has, portSlot, Foreign
<1>7. CASE End
  <2>1. Foreign' = Foreign
    BY <1>7 DEF End, Hold, Held, Foreign, TypeOK
  <2>. QED BY <1>7, <2>1 DEF End, upVars, Distinct, Slots, Has, portSlot
<1>8. CASE Destroy
  <2>1. UNCHANGED <<result, todo, own, snatched, up, try>> /\ saved' = NoPorts /\ up = "idle"
    BY <1>8 DEF Destroy, upVars
  <2>. QED BY <2>1, NoPortsDistinct DEF Distinct, Slots, Has, portSlot
<1>9. ASSUME NEW s \in Contested, OthersBind(s) PROVE SlotInv'
  <2>1. Foreign' \subseteq Foreign \cup {s}
    BY <1>9 DEF OthersBind, Foreign, TypeOK
  <2>2. up # "idle" => snatched' = snatched \cup {s}
    BY <1>9 DEF OthersBind
  <2>3. UNCHANGED <<result, todo, own, saved, up, try>>
    BY <1>9 DEF OthersBind, upVars
  <2>4. up = "idle" => snatched' = {}
    BY <1>9 DEF OthersBind
  <2>5. /\ Slots(result)' = Slots(result)
        /\ Distinct(result)' = Distinct(result) /\ Distinct(saved)' = Distinct(saved)
    BY <2>3 DEF Distinct, Slots, Has, portSlot
  <2>. QED BY <2>1, <2>2, <2>3, <2>4, <2>5, NoPortsDistinct DEF Has
<1>10. ASSUME NEW s \in Contested, OthersRelease(s) PROVE SlotInv'
  <2>1. Foreign' \subseteq Foreign
    BY <1>10 DEF OthersRelease, Foreign, TypeOK
  <2>. QED BY <1>10, <2>1 DEF OthersRelease, upVars, Distinct, Slots, Has, portSlot
<1>11. CASE UNCHANGED vars
  BY <1>11 DEF vars, upVars, Distinct, Slots, Has, portSlot, Foreign
<1>. QED BY <1>1, <1>2, <1>3, <1>4, <1>5, <1>6, <1>7, <1>8, <1>9, <1>10, <1>11
       DEF Next, GiveUp, Publish, PublishFails

LEMMA SlotInvHolds == Spec => []SlotInv
<1>1. Init => SlotInv
  BY NoPortsDistinct DEF Init, SlotInv
<1>2. TypeOK /\ TypeOK' /\ SlotInv /\ [Next]_vars => SlotInv'
  BY SlotInvInductive
<1>. QED BY <1>1, <1>2, TypeCorrect, PTL DEF Spec

\* No two endpoints of a docker deployment share a slot, in an allocation under
\* way or in the state file.
THEOREM PortsDistinctHolds ==
  ASSUME Docker
  PROVE  Spec => []PortsDistinct
<1>1. SlotInv => PortsDistinct
  BY DEF SlotInv, PortsDistinct
<1>. QED BY <1>1, SlotInvHolds, PTL

\* A slot that an `up` has chosen, docker's or the native one, is busy only if
\* somebody bound it since that `up` began.
THEOREM AllocatedFreeHolds == Spec => []AllocatedFree
<1>1. SlotInv => AllocatedFree
  BY DEF SlotInv, AllocatedFree
<1>. QED BY <1>1, SlotInvHolds, PTL

\* What the native allocator has of PortsDistinct: as long as the state file
\* has no ports, the endpoints get different ones, and different ones are saved.
FirstPortsDistinct == [][saved = NoPorts => Distinct(result') /\ Distinct(saved')]_vars

\* The first `up` of a deployment, and the first after a destroy, gives its
\* endpoints distinct ports with either provider, whoever else binds ports
\* meanwhile: it takes a saved port to give two of them the same.
THEOREM FirstPortsDistinctHolds == Spec => FirstPortsDistinct
<1>1. TypeOK /\ SlotInv /\ SlotInv' /\ [Next]_vars
        => [saved = NoPorts => Distinct(result') /\ Distinct(saved')]_vars
  <2>. SUFFICES ASSUME SlotInv, SlotInv', [Next]_vars, saved = NoPorts
                PROVE  Distinct(result') /\ Distinct(saved')
    OBVIOUS
  <2>1. saved' = NoPorts \/ (saved' = result /\ result' = result)
    BY DEF Next, vars, BeginUp, Take, PassOver, SavePorts, GiveUp, Publish, PublishFails, EndUp,
           Edit, End, Destroy, OthersBind, OthersRelease, upVars
  <2>2. Distinct(result) /\ Distinct(NoPorts)
    BY NoPortsDistinct DEF SlotInv
  <2>3. saved' = NoPorts => Distinct(result')
    BY DEF SlotInv, Distinct, Has, portSlot, NoPorts
  <2>. QED BY <2>1, <2>2, <2>3
<1>. QED BY <1>1, SlotInvHolds, TypeCorrect, PTL DEF Spec, FirstPortsDistinct

-----------------------------------------------------------------------------
(* PortsKept                                                               *)

\* While nobody else holds a saved port and the answer about the deployment's
\* own slots is good, each endpoint done so far has kept its saved port and
\* the next one's saved port is still acceptable.
KeepInv ==
  up = "allocating" /\ clear /\ (\A e \in file : Has(saved, e)) =>
    /\ Slots(saved) \cap Foreign = {}
    /\ saved # NoPorts => Held \subseteq own
    /\ todo \subseteq file
    /\ try = 0
    /\ \A e \in Endpoint : result[e] = IF e \in file \ todo THEN saved[e] ELSE NoPort

LEMMA KeepInvInductive ==
  ASSUME Docker, TypeOK, SlotInv, KeepInv, [Next]_vars
  PROVE  KeepInv'
<1>. DEFINE Quiet == up = "allocating" /\ clear /\ (\A e \in file : Has(saved, e))
<1>1. CASE BeginUp
  <2>1. PICK answered \in BOOLEAN :
          /\ own' = IF Docker /\ saved # NoPorts /\ answered THEN Held ELSE {}
          /\ clear' = (answered /\ Slots(saved) \cap Foreign = {})
    BY <1>1 DEF BeginUp
  <2>2. todo' = file /\ UNCHANGED <<file, saved, bound, try, result>>
    BY <1>1 DEF BeginUp
  <2>3. result = NoPorts /\ try = 0
    BY <1>1 DEF BeginUp, SlotInv
  <2>4. /\ Held' = Held /\ Foreign' = Foreign /\ Slots(saved)' = Slots(saved)
        /\ \A e \in Endpoint : result'[e] = NoPort
    BY <2>2, <2>3 DEF Held, Foreign, Slots, Has, portSlot, NoPorts
  <2>5. clear' => answered /\ Slots(saved) \cap Foreign = {}
    BY <2>1
  <2>6. clear' => (saved # NoPorts => own' = Held)
    BY <2>1, <2>5
  <2>7. file' \ todo' = {} /\ saved' = saved /\ try' = 0 /\ todo' \subseteq file'
        /\ NoPorts' = NoPorts
    BY <2>2, <2>3 DEF NoPorts
  <2>. QED BY <2>4, <2>5, <2>6, <2>7 DEF KeepInv
<1>2. CASE \E e \in todo : Take(e)
  <2>1. PICK e \in todo : Take(e)
    BY <1>2
  <2>2. SUFFICES ASSUME Quiet PROVE KeepInv'
    BY <2>1 DEF Take, KeepInv, Has
  <2>3. e \in file /\ e \in Endpoint /\ try = 0 /\ todo \subseteq file
    BY <2>2 DEF KeepInv, TypeOK
  <2>4. Candidate(e) = saved[e]
    BY <2>3 DEF Candidate
  <2>5. /\ result' = [result EXCEPT ![e] = saved[e]] /\ todo' = todo \ {e} /\ try' = 0
        /\ UNCHANGED <<file, saved, bound, up, own, clear>>
    BY <2>1, <2>4 DEF Take
  <2>6. \A f \in Endpoint :
          result'[f] = IF f \in file \ todo' THEN saved[f] ELSE NoPort
    BY <2>2, <2>3, <2>5 DEF KeepInv, TypeOK, Ports
  <2>. QED BY <2>2, <2>3, <2>5, <2>6 DEF KeepInv, Held, Foreign, Slots, Has, portSlot
<1>3. CASE \E e \in todo : PassOver(e)
  <2>1. PICK e \in todo : PassOver(e)
    BY <1>3
  <2>2. SUFFICES ASSUME Quiet PROVE FALSE
    BY <2>1 DEF PassOver, KeepInv, Has
  <2>. DEFINE s == <<saved[e], Protocol[e]>>
  <2>3. e \in file /\ e \in Endpoint /\ try = 0 /\ Has(saved, e)
    BY <2>2 DEF KeepInv, TypeOK
  <2>4. Candidate(e) = saved[e] /\ saved[e] # NoPort
    BY <2>3 DEF Candidate, Has
  <2>5. s \in Slots(saved) /\ s = portSlot(saved, e)
    BY <2>3 DEF Slots, portSlot
  <2>6. s \in Slot
    BY <2>5, SlotsTyped DEF TypeOK
  <2>7. bound[s] = "nobody" \/ s \in own
    <3>1. saved # NoPorts
      BY <2>3 DEF Has, NoPorts
    <3>. QED BY <2>2, <2>5, <2>6, <3>1 DEF KeepInv, Foreign, Held, TypeOK
  <2>8. s \notin Slots(result)
    <3>1. SUFFICES ASSUME NEW f \in Endpoint, Has(result, f), s = portSlot(result, f)
                   PROVE  FALSE
      BY DEF Slots
    <3>2. f \in file \ todo /\ result[f] = saved[f]
      BY <2>2, <3>1 DEF KeepInv, Has
    <3>3. f # e /\ Has(saved, f) /\ portSlot(saved, f) = s
      BY <2>1, <3>1, <3>2 DEF Has, portSlot
    <3>. QED BY <2>3, <2>5, <3>3 DEF SlotInv, Distinct
  <2>9. Accepts(e)
    BY <2>3, <2>4, <2>7, <2>8 DEF Accepts, dockerAccepts
  <2>. QED BY <2>1, <2>9 DEF PassOver
<1>4. CASE up' # "allocating"
  BY <1>4 DEF KeepInv
<1>5. CASE End
  <2>1. Foreign' = Foreign /\ Held' \subseteq Held
    BY <1>5 DEF End, Hold, Held, Foreign, TypeOK
  <2>. QED BY <1>5, <2>1 DEF End, upVars, KeepInv, Slots, Has, portSlot
<1>6. ASSUME NEW s \in Contested, OthersBind(s) PROVE KeepInv'
  <2>1. /\ Foreign' \subseteq Foreign \cup {s} /\ Held' \subseteq Held
        /\ clear' => clear /\ s \notin Slots(saved)
        /\ UNCHANGED <<file, saved, up, todo, try, result, own>>
    BY <1>6 DEF OthersBind, upVars, Foreign, Held, TypeOK
  <2>. QED BY <2>1 DEF KeepInv, Slots, Has, portSlot
<1>7. ASSUME NEW s \in Contested, OthersRelease(s) PROVE KeepInv'
  <2>1. /\ Foreign' \subseteq Foreign /\ Held' \subseteq Held
        /\ UNCHANGED <<file, saved, clear, up, todo, try, result, own>>
    BY <1>7 DEF OthersRelease, upVars, Foreign, Held, TypeOK
  <2>. QED BY <2>1 DEF KeepInv, Slots, Has, portSlot
<1>8. CASE UNCHANGED vars
  BY <1>8 DEF vars, upVars, KeepInv, Slots, Has, portSlot, Foreign, Held
<1>. QED BY <1>1, <1>2, <1>3, <1>4, <1>5, <1>6, <1>7, <1>8
       DEF Next, SavePorts, GiveUp, Publish, PublishFails, EndUp, Edit, Destroy, upVars

\* An unchanged docker deployment keeps its ports through any `up` in which
\* nobody else held one of them and compose answered.
THEOREM PortsKeptHolds ==
  ASSUME Docker
  PROVE  Spec => []PortsKept
<1>1. Init => KeepInv
  BY DEF Init, KeepInv
<1>2. TypeOK /\ SlotInv /\ KeepInv /\ [Next]_vars => KeepInv'
  BY KeepInvInductive
<1>3. TypeOK /\ KeepInv => PortsKept
  BY DEF KeepInv, PortsKept, TypeOK
<1>. QED BY <1>1, <1>2, <1>3, TypeCorrect, SlotInvHolds, PTL DEF Spec
=============================================================================
