SPECIFICATION FairSpec
CONSTANTS
  FirstRounds = {1, 3}
  Preloaded <- OneLesson
  HasGit = TRUE
  MaxExtra = 1
  MaxRounds = 4
  MaxDiscards = 2
  MaxFailures = 2
  MaxRejects = 2
  MaxCrashes = 1
  MaxGitErrors = 1
INVARIANTS DocumentsSound RoundsAccounted BestUnlessFaulty
PROPERTIES ImplementsLifecycle RunsRest
CHECK_DEADLOCK FALSE
