SPECIFICATION Spec
CONSTANTS
  dev = dev
  q1 = q1
  q2 = q2
  Absent = Absent
  Namespaces <- MCNamespaces
  QuotaNames <- MCQuotaNames
  Reasons <- MCReasons
  MaxChanges = 4
  MaxCalls = 1
  MaxFailures = 0
INVARIANTS
  Coupled
