SPECIFICATION FairSpec
CONSTANTS
  MaxKeys = 3
  MaxFaults = 2
  MaxRepairs = 2
INVARIANT TypeOK
INVARIANT RecoverableUnlessReused
PROPERTY SecretIsPickedUp
PROPERTY KeyIsPickedUp
