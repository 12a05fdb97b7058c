SPECIFICATION Spec
CONSTANTS
  web = web
  job = job
  Unset = Unset
  Absent = Absent
  NoResize = NoResize
  IntOfInfinity <- MCLeastInteger
  Specs <- MCAllSpecs
  Workloads <- MCWorkloads
  Kind <- MCKind
  Containers <- MCContainers
  MemoryKey = "limits.memory"
  LimitUnit = "M"
  StartHard <- MCStartHard
  MaxPods = 2
  MaxEvents = 2
  MaxFailures = 1
  MaxChanges = 4
INVARIANTS
  TypeOK
  ScaleUpNotUndone
PROPERTIES
  NoMixedResize
  ResizeWithinBounds
  EventsCovered
  EventsCountedOnce
  UsedKeptWhenFull
