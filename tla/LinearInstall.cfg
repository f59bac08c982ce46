CONSTANTS
  c1 = c1  c2 = c2  o1 = o1  o2 = o2  w1 = w1  w2 = w2
  Callbacks <- MCCallbacks
  States <- MCStates
  Workers <- MCWorkers
  NoOne = NoOne
  MaxGen = 2
SPECIFICATION FairSpec
CHECK_DEADLOCK FALSE
INVARIANT TypeOK
INVARIANT GrantAccounted
INVARIANT RevocationSparesReinstall
INVARIANT CredentialSurvivesRaces
PROPERTY RevokedIsFinal
PROPERTY RevocationLands
