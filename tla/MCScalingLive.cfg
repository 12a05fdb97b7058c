SPECIFICATION FairSpec
CONSTANTS
  web = web
  job = job
  Unset = Unset
  Absent = Absent
  NoResize = NoResize
  IntOfInfinity <- MCLeastInteger
  Specs <- MCSpecs
  Workloads <- MCWorkloads
  Kind <- MCKind
  Containers <- MCContainers
  MemoryKey = "limits.memory"
  LimitUnit = "M"
  StartHard <- MCStartHard
  MaxPods = 2
  MaxEvents = 2
  MaxFailures = 1
  MaxChanges = 3
INVARIANTS
  ScaleDownNotUndone
PROPERTIES
  Settles
  KeepsBand
  PodsStart
