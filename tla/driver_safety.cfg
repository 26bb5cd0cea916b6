SPECIFICATION SerialSpec
CONSTANTS
  v1 = v1
  v2 = v2
  v3 = v3
  h1 = h1
  h2 = h2
  h3 = h3
  p1 = p1
  p2 = p2
  Volumes = {v1, v2, v3}
  Hosts = {h1, h2}
  Foreign = {v3}
  Registered = {h1, h2}
  Procs = {p1, p2}
  HostOf <- MCHostOf
  Retries = 1
  NoVolume = NoVolume
  NoHost = NoHost
SYMMETRY OwnVolumes
INVARIANTS
  TypeOK
  NoFaultyDevice
  IInv
PROPERTIES
  AttachedIsUsable
  NoStalePathAfterCall
  PathOnlyWhereAttached
  UnmappedByItsHost
