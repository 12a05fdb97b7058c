SPECIFICATION Spec
CONSTANTS
  web = web
  job = job
  Unset = Unset
  Absent = Absent
  NoResize = NoResize
  IntOfInfinity <- MCLeastInteger
  Specs <- MCFullOnly
  Workloads <- MCWorkloads
  Kind <- MCKind
  Containers <- MCOddContainers
  MemoryKey = "limits.memory"
  LimitUnit = "M"
  StartHard <- MCStartHard
  MaxPods = 2
  MaxEvents = 2
  MaxFailures = 0
  MaxChanges = 2
INVARIANTS
  LimitsWithinHard
