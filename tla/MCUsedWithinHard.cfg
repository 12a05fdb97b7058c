SPECIFICATION Spec
CONSTANTS
  web = web
  job = job
  Unset = Unset
  Absent = Absent
  NoResize = NoResize
  IntOfInfinity <- MCLeastInteger
  Specs <- MCBandOnly
  Workloads <- MCWorkloads
  Kind <- MCKind
  Containers <- MCContainers
  MemoryKey = "limits.memory"
  LimitUnit = "M"
  StartHard <- MCLargeHard
  MaxPods = 2
  MaxEvents = 2
  MaxFailures = 0
  MaxChanges = 4
INVARIANTS
  UsedWithinHard
