SPECIFICATION Spec
CONSTANTS
  MaxSpec = 4
  MaxEvents = 10
INVARIANTS
  TypeOK
  WindowsAreSlices
  NoWindowHeldBack
  NoEventLost
