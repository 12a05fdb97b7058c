SPECIFICATION Spec
CONSTANTS
  Namespace = dev
  NoEvent = NoEvent
  Sizes <- MCSizes
  StartHard <- MCSmallest
  Demands <- MCDemands
  StartDemand <- MCStartDemand
  MaxChanges = 1
  MaxFailures = 1
  MaxCalls = 1
INVARIANTS
  NoLimitOnScaleUp
