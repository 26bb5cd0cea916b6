SPECIFICATION SerialSpec
CONSTANTS
  v1 = v1
  v2 = v2
  v3 = v3
  h1 = h1
  h2 = h2
  h3 = h3
  p1 = p1
  p2 = p2
  Volumes = {v1, v2}
  Hosts = {h1}
  Foreign = {}
  Registered = {h1}
  Procs = {p1}
  HostOf <- MCHostOf
  Retries = 1
  NoVolume = NoVolume
  NoHost = NoHost
PROPERTY UnattachedOnlyIfNotMapped
