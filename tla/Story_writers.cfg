SPECIFICATION FairSpec
CONSTANTS
  Ids = {1, 2, 3}
  Volumes = {1}
  CompiledPlans <- OneVolume
  Fresh = {3}
  Bibles <- Versions
  Ranges <- RangesOfOne
  NoBible = none
  MaxChapters = 1
  MaxSelected = 0
  MaxSaves = 1
  Compilers = {c1, c2}
  Overlap = TRUE
  Crashes = TRUE
INVARIANTS TypeOK CompileLockIsHeld StoredPlanIsSound CastIsOne
PROPERTIES CompletedStoryIsFrozen CompileEnds
CHECK_DEADLOCK FALSE
