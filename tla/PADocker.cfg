SPECIFICATION Spec
CONSTANTS
  Endpoint = {1, 2, 3}
  Declared <- EndpointPort
  Protocol <- EndpointProtocol
  Base = 10
  Range = 2
  Preferred <- HashedPlace
  Files <- Launchfiles
  Contested <- Shared
  Docker = TRUE
  NoPort = 0
INVARIANTS TypeOK PortsDistinct AllocatedFree PortsKept
