SPECIFICATION Spec
CONSTANTS
  MaxTs <- MCMaxTs
  MaxEvents <- MCMaxEvents
INVARIANTS
  TypeOK
  AlwaysOrdered
PROPERTY
  ImplementsEventSet
CHECK_DEADLOCK TRUE
