SPECIFICATION Spec
CONSTANTS
  Sizes <- MCSizes
  Hostnames <- MCHostnames
  Setups <- MCSetupsOnce
  MaxExponent = 2
  JunkAnswers = FALSE
  FailuresTracked <- MCFailuresLong
  here = here
  there = there
PROPERTY OnlyWayOut
