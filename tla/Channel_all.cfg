SPECIFICATION FairSpec
CONSTANTS
  Names = {n1, n2}
  Addresses = {a1, a2}
  Endpoints = 2
  CheckPolls = 2
  MaxChanges = 3
  MaxRestarts = 1
INVARIANTS
  TypeOK
  SignIsNews
PROPERTIES
  RumoursAreTrue
  SignArrives
  AddressArrives
  PresenceArrives
CHECK_DEADLOCK FALSE
