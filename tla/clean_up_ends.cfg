SPECIFICATION FairCleanSpec
CONSTANTS
  v1 = v1
  v2 = v2
  v3 = v3
  h1 = h1
  h2 = h2
  p1 = p1
  p2 = p2
  Volumes = {v1, v3}
  Hosts = {h1, h2}
  Foreign = {v3}
  Registered = {h1, h2}
  Procs = {p1, p2}
  HostOf <- MCHostOf
  Retries = 0
  NoVolume = NoVolume
  NoHost = NoHost
  Cleaner = p1
PROPERTIES
  CleanUpSparesForeign
  CleanUpEnds
  CleanUpShrinks
