SPECIFICATION FairSpec
CONSTANTS
  Namespace = dev
  NoEvent = NoEvent
  Sizes <- MCSizes
  StartHard <- MCStartHard
  Demands <- MCDemands
  StartDemand <- MCStartDemand
  MaxChanges = 1
  MaxFailures = 1
  MaxCalls = 2
INVARIANTS
  TypeOK
  ScaleUpProceeds
PROPERTIES
  NoShrinkWithinMinute
  ResizesJustified
  RefusedPodsGetRoom
  Converges
