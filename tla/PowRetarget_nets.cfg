SPECIFICATION Spec
CONSTANTS
  Base = 4
  Digits = 2
  MaxSize = 6
  Width = 4096
  Compact <- GetCompact
  Target <- SetCompact
  Nets <- MCNets
  TargetTimespan = 6
  TargetSpacing = 2
  MedianTimeSpan = 3
  MaxTimewarp = 1
  MaxFutureBlockTime = 5
  MaxHeight = 9
  MaxClock = 36
  ClockSteps = {18}
  None = None
INVARIANTS RequiredCanBeMined DemandedIsPermitted TemplateCanBeMade TemplateStaysValid RealDifficultyKept
CHECK_DEADLOCK FALSE
