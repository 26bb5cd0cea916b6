SPECIFICATION FairNodeSpec
CONSTANTS
  gold = gold
  silver = silver
  Services = {gold, silver}
  DEFAULT_SERVICE = DEFAULT_SERVICE
  NoService = NoService
INVARIANTS
  StartIInv
  LoginIsLast
  RunningIsVerified
  RefusedForCause
  UnknownOnlyIfTakenBack
PROPERTIES
  NodeSettles
