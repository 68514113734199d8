SPECIFICATION CacheSpec
CONSTANTS
  WIDTH = 4
  C = 3
  S = 1
  B = 1
  Addresses = {1, 4, 8, 15}
  Junk = {0, 1}
  MaxAccesses = 6
INVARIANTS SetsAreOrdered WriteBacksArePaid
PROPERTIES ImplementsLruCache
CHECK_DEADLOCK FALSE
