CONSTANTS
  Futures = {1, 2}
  Lockout = 2
  Options <- MCOptions
  Account <- MCAccount
  Resting <- MCResting
  MaxMishaps = 1
SPECIFICATION Spec
INVARIANTS BootstrapBeforeRequests AnswersMatchQueries BookMatchesAccount
PROPERTIES BootEnds
CHECK_DEADLOCK FALSE
