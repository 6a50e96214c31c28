SPECIFICATION FairSpec
CONSTANTS
  Sizes <- MCSizes
  Hostnames <- MCHostnames
  Setups <- MCSetups
  MaxExponent = 1023
  JunkAnswers = TRUE
  FailuresTracked <- MCFailures
  here = here
  there = there
INVARIANT TypeOK
INVARIANT ClosedSpoolIsUnused
INVARIANT CadenceRecovers
INVARIANT WireBracket
INVARIANT DeclaredWasReceived
INVARIANT ExcessWasCounted
INVARIANT KeepsItsName
PROPERTY ServiceKept
PROPERTY StopIsObeyed
PROPERTY HealthyServerServes
