SPECIFICATION Spec
CONSTANTS
  Requests = {r1, r2, r3}
  Earlier = earlier
  l1 = l1
  l2 = l2
  g1 = g1
  Logins = {l1, l2}
  Known = {l2}
  Passwords = {p1, p2}
  Usable = {p1}
  Identities = {g1}
  GitHubLogin <- Logs
  None = none
  MaxFaults = 1
SYMMETRY Symmetry
INVARIANTS
  UsersSound
  OneRegistrationWins
  StateConsumedOnce
  ResetIsAtomic
  MailedTokensWork
  AnswersAreTrue
PROPERTIES
  OnlyOwnersReset
CHECK_DEADLOCK FALSE
