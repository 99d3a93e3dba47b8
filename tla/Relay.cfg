SPECIFICATION FairSpec
CONSTANTS
  N = 2
  Attempts = 3
  MaxUp = 2
  MaxDown = 1
  Window = 1
  Faults = {"dial", "abandon", "break"}
INVARIANTS
  TypeOK
PROPERTIES
  StreamSpec
  CloseNoticed
  NoRelayLeft
