SPECIFICATION FairSpec
CONSTANTS
  r1 = r1
  r2 = r2
  w = w
  free = free
  Readers <- MCReaders
  Writer = w
  Free = free
  MaxWrites = 3
  MaxSpurious = 2
INVARIANTS
  TypeOK
  NoLostWakeup
PROPERTIES
  ImplementsClosableQueue
  AllDelivered
