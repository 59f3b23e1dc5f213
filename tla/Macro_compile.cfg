SPECIFICATION Spec
CONSTANTS
  TotalChapters = 12
  VolumeCount = 3
  TargetWords = 20
  KeyPoints = TRUE
  Hints <- Subplots
  Drafts <- DraftedVolumes
  SeriesLengths = {1}
  ArcLengths = {2}
  BeatLengths = {1}
  MinAnchors = 3
  MaxAnchors = 5
INVARIANTS TypeOK NothingUncheckedIsBuilt VolumesAreApart BudgetsSpendTheTarget PinnedHintsAreTaken
  OwnPlanIsAccepted StoryCanBeFinished OnlyEmptyVolumesAreRefused CheckpointsDivideTheStory
CHECK_DEADLOCK FALSE
