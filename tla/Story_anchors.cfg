SPECIFICATION Spec
CONSTANTS
  Ids = {1, 2, 3, 4, 5}
  Volumes = {1, 2}
  CompiledPlans <- TwoVolumes
  Fresh = {5}
  Bibles <- Drafted
  Ranges <- RangesOfTwo
  NoBible = none
  MaxChapters = 3
  MaxSelected = 1
  MaxSaves = 1
  Compilers = {c1}
  Overlap = FALSE
  Crashes = FALSE
INVARIANTS ResolvedInOrder
PROPERTIES ResolvedAnchorsSurvive
CHECK_DEADLOCK FALSE
