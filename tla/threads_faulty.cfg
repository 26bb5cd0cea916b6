SPECIFICATION Spec
CONSTANTS
  v1 = v1
  v2 = v2
  v3 = v3
  h1 = h1
  h2 = h2
  t1 = t1
  t2 = t2
  p3 = p3
  Volumes = {v1, v2}
  Hosts = {h1}
  Foreign = {}
  Registered = {h1}
  Procs = {t1, t2}
  HostOf <- MCHostOf
  Retries = 1
  NoVolume = NoVolume
  NoHost = NoHost
INVARIANT NoFaultyDevice
