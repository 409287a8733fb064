SPECIFICATION Spec
CONSTANTS
  Endpoint = {1, 3}
  Declared <- EndpointPort
  Protocol <- EndpointProtocol
  Base = 10
  Range = 2
  Preferred <- HashedPlace
  Files <- NativeLaunchfiles
  Contested <- Shared
  Docker = FALSE
  NoPort = 0
INVARIANT PortsDistinct
