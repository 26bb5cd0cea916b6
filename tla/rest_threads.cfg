SPECIFICATION Spec
CONSTANTS
  t1 = t1
  t2 = t2
  t3 = t3
  s1 = s1
  s2 = s2
  k1 = k1
  k2 = k2
  k3 = k3
  k4 = k4
  k5 = k5
  Threads = {t1, t2, t3}
  Sessions = {s1, s2}
  SessionOf <- MCSessionOf
  Tokens = {k1, k2, k3, k4, k5}
  NoToken = NoToken
SYMMETRY Interchangeable
INVARIANTS
  IInv
  AtMostOnce
PROPERTIES
  ImplementsRestCall
  UnauthorizedHasCause
  RequestsAreBounded
