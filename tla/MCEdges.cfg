SPECIFICATION EdgesSpec
CONSTANTS
  near = near
  far = far
  Ips <- MCIps
  Ports <- MCPorts
  Addresses <- MCAddresses
  MaxEmits = 2
  MaxQueue = 2
  None = None
  Clients = {c1}
  RingCapacity = 2
  ChannelCapacity = 2
  MaxLines = 5
  SerialPorts = {p1, p2}
  Cap = 3
  Drop = 2
  Chunk = 2
  MaxHeard = 5
  NoPort = NoPort
INVARIANTS TypeOK StreamTypeOK SearchTypeOK EmitsFollowTable NoSilentLoss SearchIsSound
PROPERTIES UnsubscribeClears EmitterStops CatchesUp SearchEnds
