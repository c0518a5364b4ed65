\* Every single message under every configuration; conversations of three.
SPECIFICATION Spec
CONSTANTS
  admin = admin
  friend = friend
  stranger = stranger
  main = main
  other = other
  qa1 = qa1
  None = None
  Users = {admin, friend, stranger}
  Agents = {main, other, qa1}
  Fallback = qa1
  Scenarios <- AllScenarios
INVARIANTS
  AgentsAllowed
  GateAgreement
  StrangersReachNothing
  PollingIsSequential
CHECK_DEADLOCK FALSE
