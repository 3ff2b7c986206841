SPECIFICATION Spec
CONSTANTS
  Sizes <- MCSizes
  LinkTypes = {1, 101}
  Contents <- MCContents
  MaxWalkSteps = 5
INVARIANTS TypeOK PdusApart WalksAgree
PROPERTY Terminates
