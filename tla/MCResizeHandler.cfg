SPECIFICATION FairSpec
CONSTANTS
  n1 = n1
  n2 = n2
  NoEvent = NoEvent
  Namespaces <- MCNamespaces
  Sizes <- MCSizes
  MaxRequests = 3
  ResultCap = 2
INVARIANTS
  TypeOK
  OneResizePerNamespace
  NoWedgedNamespace
  NoQuickScaleDown
  NewestRequestKept
  ResultsInOrder
PROPERTIES
  ImplementsSerialResizes
  RequestsSettle
CHECK_DEADLOCK FALSE
