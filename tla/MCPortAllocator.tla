--------------------------- MODULE MCPortAllocator ---------------------------
(* PortAllocator for up to three endpoints on one declared port, a tcp pair   *)
(* and a udp one, with a fallback range that wraps.                           *)
EXTENDS PortAllocator

EndpointPort == [e \in Endpoint |-> 8]
EndpointProtocol == [e \in Endpoint |-> IF e = 2 THEN "udp" ELSE "tcp"]
HashedPlace == [e \in Endpoint |-> e]
Launchfiles == {{2, 3}, {1, 2, 3}}
NativeLaunchfiles == {{3}, {1, 3}}
Shared == {8, 10} \X {"tcp"}
=============================================================================
